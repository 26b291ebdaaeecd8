--------------------------- MODULE MCMicroService ---------------------------
(* Two endpoints, one that handles its requests one after the other and one *)
(* that handles two at a time.                                              *)
EXTENDS MicroService

MCConcurrency == <<1, 2>>
MCRequests    == <<1, 3>>
MCOutcomes    == <<{"reply", "void", "error", "garbled", "throws"}, {"defect"}>>
=============================================================================
