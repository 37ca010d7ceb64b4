SPECIFICATION Spec
CONSTANTS
  w1 = w1
  w2 = w2
  w3 = w3
  p1 = p1
  p2 = p2
  g1 = g1
  Workers = {w1, w2, w3}
  Messages = 2
  Processes = {p1, p2}
  Limits = {4, 8, 16}
  Groups = {g1}
  MsgSizes = {1, 2}
  Strays <- Odd
  MaxStrays = 2
INVARIANTS
  CleanRunPasses
  PassedMeansLogged
  NoTrimUnderInsert
  SentNeedsSocket
  ResultIsOneDatagram
  LeaksAccounted
PROPERTY PeekReturns
CHECK_DEADLOCK FALSE
