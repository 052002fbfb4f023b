-------------------------- MODULE MCSquadsProposals --------------------------
(***************************************************************************)
(* Instance of SquadsProposals: three members, two of whom decide, and two  *)
(* invocations of createProposal.                                           *)
(***************************************************************************)
EXTENDS SquadsProposals, TLC

Symmetry == Permutations(Member) \cup Permutations(Proposer)
=============================================================================
