--------------------------- MODULE MCCircuitUpload ---------------------------
(***************************************************************************)
(* Instance of CircuitUpload: two calls, circuits of one and two accounts.  *)
(* A full part is resized by two transactions (the second one without an    *)
(* instruction) and uploaded in two chunks.                                 *)
(***************************************************************************)
EXTENDS CircuitUpload
=============================================================================
