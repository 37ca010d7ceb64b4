SPECIFICATION RingSpec
CONSTANTS
  p1 = p1
  Producers = {p1}
  Size = 8
  EntrySizes = {3, 4}
  MaxWrites = 5
PROPERTY EnoughRoom
CHECK_DEADLOCK FALSE
