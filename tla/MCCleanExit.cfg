SPECIFICATION Spec
CONSTANTS
  StackDepth = 4
  Rounds = 3
  MaxSignals = 2
  Sends = 2
PROPERTY CleanExit
CHECK_DEADLOCK FALSE
