CONSTANTS
  Waiter = {w1, w2}
  Waker = {k1, k2}
  MaxCalls = 2
SPECIFICATION FairSpec
INVARIANTS UnitsBounded OwedWoken
PROPERTIES WakeEnds OwedReturn
CHECK_DEADLOCK FALSE
