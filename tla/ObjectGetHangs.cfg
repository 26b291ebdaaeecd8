\* A get while its object is replaced or deleted.
SPECIFICATION FairSpec
CONSTANTS
  c1 = c1
  c2 = c2
  Clients <- MCClients
  Does <- MCDoes
  MaxCalls = 3
  NumChunks = 2
  MaxLost = 0
  MaxExpired = 0
PROPERTY MissingReported
CHECK_DEADLOCK FALSE
