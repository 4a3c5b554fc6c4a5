CONSTANTS
  MaxPkts = 4
  MaxRetry = 2
  QueueCap = 2
SPECIFICATION FairSpec
INVARIANTS BuffersOwned Accounted RetryBounded
PROPERTIES CancelStops ClosedEnds
CHECK_DEADLOCK FALSE
