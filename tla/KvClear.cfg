\* One client clears while another writes and values expire.
SPECIFICATION BucketSpec
CONSTANTS
  c1 = c1
  c2 = c2
  Clients = {c1, c2}
  Keys = {k1, k2}
  Calls <- ClearAndWrite
  MaxRev = 5
  MaxLate = 0
  Ttl = TRUE
SYMMETRY SymmKeys
PROPERTY ClearTakesListed
CHECK_DEADLOCK FALSE
