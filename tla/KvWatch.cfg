\* A client writes, values expire, and a watch is cut and resumed.
SPECIFICATION WatchSpec
CONSTANTS
  Clients = {c1}
  Keys = {k1, k2}
  Calls <- Writers
  MaxRev = 3
  MaxLate = 0
  Ttl = TRUE
  IgnoreDeletes = TRUE
  MaxRuns = 3
SYMMETRY Symm
INVARIANTS WatchTypeOK ViewCurrent
CHECK_DEADLOCK FALSE
