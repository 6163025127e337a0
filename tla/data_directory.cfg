SPECIFICATION FairSpec
CONSTANTS
  daemon = daemon
  cli = cli
  g1 = g1
  g2 = g2
  c1 = c1
  Processes = {daemon, cli}
  Threads = {g1, g2, c1}
  ProcessOf <- Owners
  Recorders = {g1, g2}
  None = none
  Docs = {config}
  RunIds = {r1, r2}
  Limit = 1
  MaxOps = 3
  MaxCrashes = 1
  Daemons = {d1, d2}
  NoDaemon = nodaemon
  MaxEvents = 2
  FirstRelease = 2
  SharedPort = TRUE
INVARIANTS
  DataIsOne
PROPERTIES
  KeepsItsPromise
  UpdatesReturn
  MovedAlone
  NewTakesOver
CHECK_DEADLOCK FALSE
