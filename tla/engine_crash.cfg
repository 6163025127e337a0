SPECIFICATION Spec
CONSTANTS
  a = a
  b = b
  p1 = p1
  p2 = p2
  NoProvider = NoProvider
  Daemon = daemon
  Engines = {daemon}
  Tasks = {a, b}
  Providers = {p1, p2}
  Definitions <- CrashDefinitions
  DependsOn <- NoDependencies
  Fallback <- P2BehindP1
  Flaky = {}
  Requests = {"now", "cancel", "crash", "launch fails"}
  InitialQueue <- QueueAB
  HistoryLimit = 2
  MaxRuns = 3
  MaxLimits = 1
  MaxRequests = 2
INVARIANTS
  NoTaskLost
  RunningIsRunning
PROPERTIES
  OutcomeIsFinal
  OneShotRunsOnce
