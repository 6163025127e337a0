SPECIFICATION Spec
CONSTANTS
  None = none
  t1 = t1
  t2 = t2
  t3 = t3
  p1 = p1
  p2 = p2
  p3 = p3
  pool = pool
  m1 = m1
  m3 = m3
  Tasks = {t1, t2, t3}
  Definitions <- SomeDefinitions
  Worlds <- SomeWorlds
  Threshold = 15
  ModelKind <- Kinds
INVARIANTS
  QueueOrderHolds
  PlacementHolds
