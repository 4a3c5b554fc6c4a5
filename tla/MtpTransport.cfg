CONSTANTS
  FirstFd = 3
  MaxOther = 1
  MaxRetry = 2
SPECIFICATION Spec
INVARIANTS EndpointsCurrent EndClosed OwnUnlessFailed PollsWhatItWrites
CHECK_DEADLOCK FALSE
