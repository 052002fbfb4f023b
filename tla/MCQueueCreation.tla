--------------------------- MODULE MCQueueCreation ---------------------------
(***************************************************************************)
(* Instance of QueueCreation: two calls, by one user or two, for one name   *)
(* or two.                                                                  *)
(***************************************************************************)
EXTENDS QueueCreation
=============================================================================
