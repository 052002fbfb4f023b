---------------------------- MODULE ConstantTime ----------------------------
(***************************************************************************)
(* Integer arithmetic of rescue-cipher.ts on two's complement bits, in      *)
(* constant time, and what the cipher builds on it: addition and            *)
(* subtraction in a prime field, and integers as field elements.            *)
(***************************************************************************)
EXTENDS Integers

CONSTANTS
  Order,       \* field.ORDER, an odd prime
  Double(_)    \* Number(n) of a bigint n: the double next to it

\* 2^n.
TwoTo[n \in Nat] == IF n = 0 THEN 1 ELSE 2 * TwoTo[n - 1]

Log2(n) == CHOOSE k \in 0 .. n : TwoTo[k] <= n /\ n < TwoTo[k + 1]

\* Rounding to a double stays between the powers of two on both sides.
ASSUME OrderAssumption ==
  /\ Order \in Nat /\ Order > 2
  /\ \A d \in 2 .. Order - 1 : Order % d # 0
  /\ Double(Order - 1) \in TwoTo[Log2(Order - 1)] .. TwoTo[Log2(Order - 1) + 1]

-----------------------------------------------------------------------------
\* Bit i of x; of a negative x too, whose bits go on with ones.
ctSignBit(x, i) == (x \div TwoTo[i]) % 2 = 1

toBinLE(x, binSize) == [i \in 0 .. binSize - 1 |-> ctSignBit(x, i)]

Weight(bit, i) == IF bit THEN TwoTo[i] ELSE 0

\* The bit on top counts negative.
fromBinLE(xBin, binSize) ==
  LET res[i \in 0 .. binSize - 1] ==
        IF i = 0 THEN 0 ELSE res[i - 1] + Weight(xBin[i - 1], i - 1)
  IN  res[binSize - 1] - Weight(xBin[binSize - 1], binSize - 1)

adder(xBin, yBin, carryIn, binSize) ==
  LET carry[i \in 0 .. binSize] ==
        IF i = 0 THEN carryIn
        ELSE LET y == yBin[i - 1]
             IN  y # ((y # carry[i - 1]) /\ xBin[i - 1] # y)
  IN  [i \in 0 .. binSize - 1 |-> xBin[i] # (yBin[i] # carry[i])]

ctAdd(x, y, binSize) ==
  fromBinLE(adder(toBinLE(x, binSize), toBinLE(y, binSize), FALSE, binSize), binSize)

ctSub(x, y, binSize) ==
  LET yBinNot == [i \in 0 .. binSize - 1 |-> ~ctSignBit(y, i)]
  IN  fromBinLE(adder(toBinLE(x, binSize), yBinNot, TRUE, binSize), binSize)

ctLt(x, y, binSize) == ctSignBit(ctSub(x, y, binSize), binSize)

ctSelect(b, x, y, binSize) ==
  ctAdd(y, (IF b THEN 1 ELSE 0) * ctSub(x, y, binSize), binSize)

verifyBinSize(x, binSize) == x \div TwoTo[binSize] \in {0, -1}

-----------------------------------------------------------------------------
\* Mutant of getBinSize: no bit for the difference of two negatives.
getBinSizeNarrow(max) == Log2(Double(max)) + 2

\* One bit for the sign and one for the difference of two negatives.
getBinSize(max) == Log2(Double(max)) + 3

BinSize == getBinSize(Order - 1)

\* x + y and x - y in the field, as encryptBatch, decryptBatch and Matrix.add
\* and Matrix.sub with ct = true compute them.
AddCT(x, y) ==
  LET sum == ctAdd(x, y, BinSize)
  IN  ctSelect(ctLt(sum, Order, BinSize), sum, ctSub(sum, Order, BinSize), BinSize)

SubCT(x, y) ==
  LET diff == ctSub(x, y, BinSize)
  IN  ctSelect(ctSignBit(diff, BinSize), ctAdd(diff, Order, BinSize), diff, BinSize)

-----------------------------------------------------------------------------
\* encodeAsRescueEncryptable of a bigint: whether it throws, and its result.
Encryptable(v) ==
  /\ verifyBinSize(v, BinSize - 1)
  /\ ~ctLt(v, -(Order - 1), BinSize)
  /\ ctLt(v, Order, BinSize)

encodeAsRescueEncryptable(v) ==
  ctSelect(ctSignBit(v, BinSize), ctAdd(v, Order, BinSize), v, BinSize)

decodeRescueDecryptedToBigInt(v) ==
  LET twoInv == (Order + 1) \div 2
  IN  ctSelect(ctLt(v, twoInv, BinSize), v, ctSub(v, Order, BinSize), BinSize)
=============================================================================
