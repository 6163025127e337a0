SPECIFICATION Spec
CONSTANTS
  a = a
  b = b
  c = c
  g = g
  h = h
  k1 = k1
  k2 = k2
  p = p
  q = q
  r = r
  claude = claude
  codex = codex
  t1 = t1
  Clients = {k1, k2}
  Ids = {a, b, c}
  Recurring = {c}
  Groups = {g, h}
  NoGroup = none
  Files <- OneUngroupedFile
  InitialQueues <- Arranged
  ProviderIds = {p, q, r}
  Kinds = {claude, codex}
  Tasks = {t1}
  None = None
  Tick = tick
  Manual = manual
  RunNow = runnow
  Lookers = {tick}
  InitialConfigs <- Configs
  BrokenAtFirst = {p}
  QueueChanges = 3
  ProviderChanges = 4
SYMMETRY AnyClient
CHECK_DEADLOCK FALSE
INVARIANTS
  GroupsTogether
  QueueIsOwed
  ConfigHolds
  TargetsStand
  MemoIsTrue
PROPERTIES
  PriorityKept
