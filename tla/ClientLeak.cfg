\* A client is released while it dials.
SPECIFICATION Spec
CONSTANTS
  MaxPubs = 0
  MaxLosses = 1
  MaxAttempts = 2
  NumAddresses = 2
INVARIANT NoSocketLeft
CHECK_DEADLOCK FALSE
