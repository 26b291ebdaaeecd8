\* Two clients race on one key; writes may arrive late.
SPECIFICATION BucketSpec
CONSTANTS
  c1 = c1
  c2 = c2
  Clients = {c1, c2}
  Keys = {k1}
  Calls <- Conditional
  MaxRev = 3
  MaxLate = 1
  Ttl = FALSE
SYMMETRY SymmClients
INVARIANT BucketTypeOK
PROPERTIES CreateNeverOverwrites UpdatesOnTop ReadsAreCurrent SuccessIsMine
\* Nothing is called any more once the revisions are used up.
CHECK_DEADLOCK FALSE
