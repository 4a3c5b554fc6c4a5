CONSTANTS
  Block = {b1, b2}
  Null = Null
  MaxStart = 3
SPECIFICATION FairSpec
INVARIANTS OwnTask StopLeavesNothing
PROPERTY StopEnds
CHECK_DEADLOCK FALSE
