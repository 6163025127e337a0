SPECIFICATION Spec
CONSTANTS
  a = a
  b = b
  p1 = p1
  p2 = p2
  NoProvider = NoProvider
  Daemon = daemon
  Engines = {daemon}
  Tasks = {a, b}
  Providers = {p1, p2}
  Definitions <- CoreDefinitions
  DependsOn <- NoDependencies
  Fallback <- P2BehindP1
  Flaky = {}
  Requests = {"cancel resume"}
  InitialQueue <- QueueAB
  HistoryLimit = 3
  MaxRuns = 3
  MaxLimits = 1
  MaxRequests = 1
PROPERTIES
  StoppedStaysStopped
