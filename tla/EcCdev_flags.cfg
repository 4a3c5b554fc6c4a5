CONSTANTS
  File = {f1, f2}
  Block = {b1, b2}
  Null = Null
  MaxOpen = 2
SPECIFICATION Spec
INVARIANT BroadcastSet
CHECK_DEADLOCK FALSE
