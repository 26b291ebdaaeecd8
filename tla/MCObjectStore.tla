--------------------------- MODULE MCObjectStore ---------------------------
(* On one name, a client that puts and one that gets and deletes.          *)
EXTENDS ObjectStore, TLC

CONSTANTS c1, c2

MCClients == {c1, c2}
MCDoes    == c1 :> {"put"} @@ c2 :> {"get", "delete"}
=============================================================================
