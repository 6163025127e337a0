SPECIFICATION Spec
CONSTANTS
  a = a
  b = b
  p1 = p1
  p2 = p2
  NoProvider = NoProvider
  Daemon = daemon
  Engines = {daemon, cli}
  Tasks = {a, b}
  Providers = {p1, p2}
  Definitions <- MixedDefinitions
  DependsOn <- NoDependencies
  Fallback <- P2BehindP1
  Flaky = {}
  Requests = {"now", "now from the CLI", "edit", "remove", "add"}
  InitialQueue <- QueueAB
  HistoryLimit = 1
  MaxRuns = 2
  MaxLimits = 0
  MaxRequests = 2
INVARIANTS
  CountersExact
  ExclusiveAlone
