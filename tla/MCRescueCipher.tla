--------------------------- MODULE MCRescueCipher ---------------------------
(***************************************************************************)
(* Instance of CipherClaims over the field of 17 elements, where alpha is 3 *)
(* and its inverse 11, with blocks of three elements.                       *)
(***************************************************************************)
EXTENDS CipherClaims

\* A stream of field elements in the place of SHAKE256.
MCXof(mode, n) == (n * n * n + (IF mode = "hash" THEN 5 ELSE 2) * n + 7 * (n \div 3)) % Order

\* Sixteen is a double.
MCDouble(n) == n

MCRounds == [mode \in {"cipher", "hash"} |-> IF mode = "cipher" THEN 3 ELSE 2]

MCOperands == -70 .. 70
MCStates == [1 .. 3 -> {0, 1, 5, 16}]
MCNonces == {[bytes |-> b, value |-> v] : b \in {12, 16}, v \in {0, 16}}
MCPlaintexts == UNION {[1 .. n -> {0, 16}] : n \in 0 .. 4} \cup {[i \in 1 .. n |-> i] : n \in 5 .. 7}
MCMatrices == [1 .. 1 -> [1 .. 1 -> Element]] \cup [1 .. 2 -> [1 .. 2 -> 0 .. 4]]
                \cup [1 .. 3 -> [1 .. 3 -> {0, 1, 3}]]
=============================================================================
