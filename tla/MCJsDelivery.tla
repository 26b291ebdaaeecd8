---------------------------- MODULE MCJsDelivery ----------------------------
(***************************************************************************)
(* Instances of JsDelivery for TLC.                                        *)
(***************************************************************************)
EXTENDS JsDelivery, TLC

\* Workers are interchangeable, for no property names one, and so are
\* messages.
Symmetry == Permutations(Workers) \cup Permutations(Msgs)
=============================================================================
