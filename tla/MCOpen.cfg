SPECIFICATION OpenFairSpec
CONSTANTS
  p1 = p1
  p2 = p2
  p3 = p3
  Openers = {p1, p2, p3}
  Crashers = {p1}
  ChunkSize = 2
  OldSizes = {1, 3}
  TrimSizes = {1, 3}
  Unlinks = TRUE
  MaxOpens = 2
INVARIANTS
  OpenTypeOK
  OpenedIsReady
  ReadyLogOpens
  CreatorInv
  NoClobber
PROPERTY OpenReturns
CHECK_DEADLOCK FALSE
