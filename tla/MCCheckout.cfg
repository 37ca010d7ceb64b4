SPECIFICATION Spec
CONSTANTS
  t1 = t1
  t2 = t2
  t3 = t3
  p1 = p1
  p2 = p2
  Threads = {t1, t2, t3}
  Procs = {p1, p2}
  ProcOf <- ThreePerTwo
  Trimmers = {t3}
  Crashers = {p1, p2}
  Sizes = {3, 6}
  ChunkSize = 6
  Bits = 5
  MaxCursor = 15
  MaxCalls = 2
INVARIANTS RangesDisjoint TrimCutsBetween GrantCovered CheckoutInv
PROPERTIES FileNeverShrinks PanicIsFinal
SYMMETRY Twins
CHECK_DEADLOCK FALSE
