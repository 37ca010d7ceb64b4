SPECIFICATION Spec
CONSTANTS
  p1 = p1
  p2 = p2
  Producers <- TwoProducers
  Size = 8
  EntrySizes = {2, 3}
  MaxWrites = 3
  t1 = t1
  t2 = t2
  Threads = {t1, t2}
  Rate = 1
  Word = 16
  Period = 2
  NumBuckets = 3
  Base = 1
  Factor = 2
  MaxHistory = 4
  MaxClock = 5
  MaxOps = 3
SYMMETRY Interchangeable
INVARIANTS
  ConstructedOrClean
  FirstLapSound
  GivesUpAfterThree
  DrainsAll
  CalibratesOnce
  UpdatesBounded
  AveragesInRange
CHECK_DEADLOCK FALSE
