SPECIFICATION Spec
CONSTANTS
  a = a
  b = b
  p1 = p1
  p2 = p2
  NoProvider = NoProvider
  Daemon = daemon
  Engines = {daemon}
  Tasks = {a, b}
  Providers = {p1, p2}
  Definitions <- CoreDefinitions
  DependsOn <- BWaitsForA
  Fallback <- P2BehindP1
  Flaky = {p1}
  Requests = {"cancel", "continue", "take-over times out", "pause", "move"}
  InitialQueue <- QueueAB
  HistoryLimit = 2
  MaxRuns = 3
  MaxLimits = 2
  MaxRequests = 2
INVARIANTS
  TypeOK
  OneRunPerTask
  SessionOwner
  SessionNotShared
PROPERTIES
  StoppedStaysStopped
  JoinComesLast
