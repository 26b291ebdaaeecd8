\* One client writes two keys, and a watch looks on.
SPECIFICATION WatchSpec
CONSTANTS
  Clients = {c1}
  Keys = {k1, k2}
  Calls <- Writers
  MaxRev = 2
  MaxLate = 0
  Ttl = FALSE
  IgnoreDeletes = FALSE
  MaxRuns = 1
PROPERTY IsUpdateTruthful
CHECK_DEADLOCK FALSE
