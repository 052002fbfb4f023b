---------------------------- MODULE MCPriceClients ----------------------------
(***************************************************************************)
(* Instance of PriceClients: a watcher of one token, whose polls overlap, a *)
(* portfolio of two tokens that is valued once, and a transfer.             *)
(***************************************************************************)
EXTENDS PriceClients, TLC

CONSTANTS a, b, one, all, p1, p2, q, t1, t2

MCPollOf == [x \in {one, all} |-> IF x = one THEN {p1, p2} ELSE {q}]
MCAsks == [c \in {p1, p2, q, t1, t2} |-> IF c = q THEN <<b, a>> ELSE <<a>>]
MCMintsOf == [x \in {one, all} |-> IF x = one THEN <<a>> ELSE <<b, a>>]
Symmetry == Permutations({p1, p2}) \cup Permutations({t1, t2})
MCInterval == [x \in {one, all} |-> IF x = one THEN 2 ELSE MaxTime + 6]
=============================================================================
