\* A client that puts, and one that gets and deletes.
SPECIFICATION Spec
CONSTANTS
  c1 = c1
  c2 = c2
  Clients <- MCClients
  Does <- MCDoes
  MaxCalls = 3
  NumChunks = 2
  MaxLost = 1
  MaxExpired = 2
INVARIANTS ObjectTypeOK GetIsWhole LiveIsWhole NoOtherLeak
PROPERTIES PutsInOrder ImplementsAtomic
CHECK_DEADLOCK FALSE
