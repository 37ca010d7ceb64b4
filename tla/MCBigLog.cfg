SPECIFICATION Spec
CONSTANTS
  t1 = t1
  p1 = p1
  Threads = {t1}
  Procs = {p1}
  ProcOf <- Alone
  Trimmers = {}
  Crashers = {}
  Sizes = {3, 6}
  ChunkSize = 4
  Bits = 4
  MaxCursor = 20
  MaxCalls = 6
INVARIANT GrantCovered
CHECK_DEADLOCK FALSE
