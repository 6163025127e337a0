SPECIFICATION FairSpec
CONSTANTS
  a = a
  b = b
  p1 = p1
  p2 = p2
  NoProvider = NoProvider
  Daemon = daemon
  Engines = {daemon}
  Tasks = {a, b}
  Providers = {p1, p2}
  Definitions <- LiveDefinitions
  DependsOn <- BWaitsForA
  Fallback <- P2BehindP1
  Flaky = {}
  Requests = {"continue", "cancel resume", "stop"}
  InitialQueue <- QueueAB
  HistoryLimit = 2
  MaxRuns = 3
  MaxLimits = 1
  MaxRequests = 1
PROPERTIES
  EveryTaskFinishes
  WaitingSessionResumes
  EveryTakerAnswered
