CONSTANTS
  MaxPkts = 3
  MaxLen = 2
  QueueCap = 2
SPECIFICATION FairSpec
INVARIANTS BuffersOwned WireOrder
PROPERTIES StaleNotTaken ImplementsPipe CancelStops QueueDrains
CHECK_DEADLOCK FALSE
