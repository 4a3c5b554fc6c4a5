CONSTANTS
  FirstFd = 3
  MaxOther = 0
  MaxRetry = 1
SPECIFICATION Spec
INVARIANTS AlreadyOpenIsOpen
CHECK_DEADLOCK FALSE
