-------------------------- MODULE MCComputationWatch --------------------------
(***************************************************************************)
(* Instance of ComputationWatch: a poll and a subscription wait for the     *)
(* same computation; a request returns fewer signatures than there are      *)
(* transactions.                                                            *)
(***************************************************************************)
EXTENDS ComputationWatch
===============================================================================
