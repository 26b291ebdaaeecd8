--------------------------- MODULE MCStreamAdapter ---------------------------
(***************************************************************************)
(* Instances of StreamAdapter for TLC.  A run that is over stops, which is *)
(* no deadlock.                                                            *)
(***************************************************************************)
EXTENDS StreamAdapter
=============================================================================
