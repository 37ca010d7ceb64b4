SPECIFICATION MMLogSpec
CONSTANTS
  t1 = t1
  t2 = t2
  t3 = t3
  p1 = p1
  p2 = p2
  Threads = {t1, t2}
  Procs = {p1}
  ProcOf <- TwoPerOne
  Trimmers = {t2}
  Crashers = {}
  Children = {}
  Sizes = {3, 4, 6}
  ChunkSize = 4
  Bits = 4
  PageSize = 2
  MaxCursor = 12
  MaxCalls = 2
  Capacity = 2
INVARIANT NoBusError
CHECK_DEADLOCK FALSE
