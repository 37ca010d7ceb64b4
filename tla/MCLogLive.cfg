SPECIFICATION MMLogFairSpec
CONSTANTS
  t1 = t1
  t2 = t2
  t3 = t3
  p1 = p1
  p2 = p2
  Threads = {t1, t2, t3}
  Procs = {p1, p2}
  ProcOf <- ThreePerTwo
  Trimmers = {t3}
  Crashers = {}
  Children = {p2}
  Sizes = {3}
  ChunkSize = 4
  Bits = 4
  PageSize = 2
  MaxCursor = 9
  MaxCalls = 1
  Capacity = 2
INVARIANTS CellsOwned RefCoversUsers
PROPERTIES InsertReturns HeadLockReleased
CHECK_DEADLOCK FALSE
