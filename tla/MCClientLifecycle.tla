------------------------- MODULE MCClientLifecycle -------------------------
(* A client of a server that has two addresses.                            *)
EXTENDS ClientLifecycle
=============================================================================
