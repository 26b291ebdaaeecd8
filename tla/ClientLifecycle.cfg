\* The connection drops twice while a client is used and released.
SPECIFICATION FairSpec
CONSTANTS
  MaxPubs = 3
  MaxLosses = 2
  MaxAttempts = 2
  NumAddresses = 2
INVARIANTS ClientTypeOK AnsweredMeansReceived
PROPERTIES ReleaseEnds DiallingStops
CHECK_DEADLOCK FALSE
