SPECIFICATION Spec
CONSTANTS
  StackDepth = 4
  Rounds = 3
  MaxSignals = 2
  Sends = 2
INVARIANTS
  ReturnsOnlyAsInit
  RecursionBounded
  HandledIsForwarded
PROPERTIES
  DaemonCleansUp
CHECK_DEADLOCK FALSE
