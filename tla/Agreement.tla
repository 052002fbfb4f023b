------------------------------ MODULE Agreement ------------------------------
(***************************************************************************)
(* What a multisig promises: what somebody proposed is carried out at most  *)
(* once, and only when Threshold members have agreed to that very proposal. *)
(* The client of Squads and the program it talks to implement it (see       *)
(* SquadsProposals), although members agree to an index, not to a proposal. *)
(***************************************************************************)
EXTENDS Naturals, FiniteSets

CONSTANTS
  Proposer,  \* what may be proposed, by whom: one element for each attempt
  Member,    \* the members of the multisig
  Threshold  \* how many of them must agree

VARIABLES
  agreed,    \* agreed[c]: the members that agreed to proposal c
  done       \* the proposals that were carried out

Init ==
  /\ agreed = [c \in Proposer |-> {}]
  /\ done = {}

Agree(m, c) ==
  /\ agreed' = [agreed EXCEPT ![c] = @ \cup {m}]
  /\ UNCHANGED done

CarryOut(c) ==
  /\ c \notin done
  /\ Cardinality(agreed[c]) >= Threshold
  /\ done' = done \cup {c}
  /\ UNCHANGED agreed

Next == \E c \in Proposer : CarryOut(c) \/ \E m \in Member : Agree(m, c)

Spec == Init /\ [][Next]_<<agreed, done>>
=============================================================================
