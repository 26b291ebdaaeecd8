----------------------------- MODULE MCKvBucket -----------------------------
EXTENDS KvBucket, TLC

CONSTANTS c1, c2

Conditional == [c \in Clients |-> {"get", "create", "update", "delete"}]
ClearAndWrite == [c \in Clients |-> IF c = c1 THEN {"clear"} ELSE {"put"}]

SymmClients == Permutations(Clients)
SymmKeys == Permutations(Keys)
=============================================================================
