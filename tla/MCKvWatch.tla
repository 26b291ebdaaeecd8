------------------------------ MODULE MCKvWatch ------------------------------
EXTENDS KvWatch, TLC

Writers == [c \in Clients |-> {"put", "delete", "purge"}]
Symm == Permutations(Clients) \cup Permutations(Keys)
=============================================================================
