---------------------------- MODULE RescueCipher ----------------------------
(***************************************************************************)
(* rescue-cipher.ts of kit-plugin-arcium: the Rescue permutation, its key   *)
(* schedule, the Rescue-Prime hash that derives the key from the shared     *)
(* secret, and the cipher in counter mode, over any prime field and for any *)
(* block size.  A matrix is a sequence of rows, a state a matrix of one     *)
(* column.  SHAKE256 is external: a stream of numbers for each mode.        *)
(***************************************************************************)
EXTENDS ConstantTime, FiniteSetsExt, Sequences, SequencesExt

CONSTANTS
  BlockSize,    \* RESCUE_CIPHER_BLOCK_SIZE, also the digestLength of the hash
  Rate,         \* rate of the hash
  Capacity,     \* capacity of the hash
  Rounds,       \* Rounds[mode]: nRounds of the cipher and of the hash
  Xof(_, _)     \* Xof(mode, n): number n of the stream

\* Bound: how often the matrix of the round constants is sampled again.
MaxSamples == 20

\* Bound: what is read of the streams.
StreamLength ==
  (MaxSamples + 1) * (BlockSize * BlockSize) + 2 * BlockSize
    + 2 * (Rounds["hash"] * (Rate + Capacity))

\* The sums of buildCauchy are invertible.
ASSUME CipherAssumption ==
  /\ BlockSize \in Nat /\ BlockSize >= 2
  /\ Rate \in Nat \ {0}
  /\ Capacity \in Nat /\ BlockSize <= Rate + Capacity
  /\ 2 * (Rate + Capacity) < Order
  /\ Rounds \in [{"cipher", "hash"} -> Nat \ {0}]
  /\ \A mode \in {"cipher", "hash"} : \A n \in 0 .. StreamLength : Xof(mode, n) \in Nat

-----------------------------------------------------------------------------
\* The field.
Element == 0 .. Order - 1
add(x, y) == (x + y) % Order
sub(x, y) == (x - y) % Order
mul(x, y) == (x * y) % Order
inv(x) == CHOOSE y \in Element : (x * y) % Order = 1
Pow(x, e) == LET power[k \in 0 .. e] == IF k = 0 THEN 1 ELSE mul(x, power[k - 1]) IN power[e]

\* The product of a sequence of field elements.
product(arr) ==
  LET acc[k \in 0 .. Len(arr)] == IF k = 0 THEN 1 ELSE mul(acc[k - 1], arr[k]) IN acc[Len(arr)]

\* F(x), with x computed once.
Of(F(_), x) == CHOOSE y \in {F(v) : v \in {x}} : TRUE

-----------------------------------------------------------------------------
\* Matrices.
matMul(A, B) ==
  [i \in DOMAIN A |-> [j \in DOMAIN B[1] |->
     LET c[k \in 0 .. Len(B)] == IF k = 0 THEN 0 ELSE add(c[k - 1], mul(A[i][k], B[k][j]))
     IN  c[Len(B)]]]

\* Matrices, element by element.
Elementwise(op(_, _), A, B) ==
  [i \in DOMAIN A |-> [j \in DOMAIN A[i] |-> op(A[i][j], B[i][j])]]

pow(A, e) == [i \in DOMAIN A |-> [j \in DOMAIN A[i] |-> Pow(A[i][j], e)]]

toVec(v) == [i \in DOMAIN v |-> << (v[i]) % Order >>]

\* The elements that pass the test, in order.
filter(seq, Test(_)) ==
  LET kept[k \in 0 .. Len(seq)] ==
        IF k = 0 THEN << >> ELSE IF Test(seq[k]) THEN Append(kept[k - 1], seq[k]) ELSE kept[k - 1]
  IN  kept[Len(seq)]

\* The partition of the rows by their first element.
LeadingZero(row) == row[1] = 0
lzRows(rows) == filter(rows, LeadingZero)
nlzRows(rows) == filter(rows, LAMBDA row : ~LeadingZero(row))

\* The rows without the first one of nlzRows, and without their first column, after
\* a multiple of what is made of that row is subtracted from the others.
Eliminate(rows, normalized) ==
  LET processed == [n \in 1 .. Len(nlzRows(rows)) - 1 |->
        LET row == nlzRows(rows)[n + 1]
        IN  [k \in DOMAIN row |-> sub(row[k], mul(row[1], normalized[k]))]]
      remaining == processed \o lzRows(rows)
  IN  [n \in DOMAIN remaining |-> Tail(remaining[n])]

\* Mutant of Eliminated: the pivot row is not made to begin with one.
EliminatedUnscaled(rows) == Eliminate(rows, Head(nlzRows(rows)))

\* A round of det.
Eliminated(rows) ==
  LET pivotRow == Head(nlzRows(rows))
  IN  Eliminate(rows, [k \in DOMAIN pivotRow |-> mul(inv(pivotRow[1]), pivotRow[k])])

det(A) ==
  LET step[i \in 0 .. Len(A)] ==
        IF i = 0 THEN [det |-> 1, rows |-> A]
        ELSE LET s == step[i - 1]
             IN  IF s.det = 0 \/ nlzRows(s.rows) = << >> THEN [det |-> 0, rows |-> << >>]
                 ELSE [det |-> mul(s.det, Head(nlzRows(s.rows))[1]),
                       rows |-> Eliminated(s.rows)]
  IN  step[Len(A)].det

-----------------------------------------------------------------------------
\* getAlphaAndInverse.
AlphaCandidates == {2, 3, 5, 7, 11, 13, 17, 19, 23, 29, 31, 37, 41, 43, 47}

alpha == Min({a \in AlphaCandidates : (Order - 1) % a # 0})

alphaInverse == CHOOSE e \in 1 .. Order - 2 : (alpha * e) % (Order - 1) = 1

\* getAlphaAndInverse does not throw.
ASSUME AlphaAssumption == \E a \in AlphaCandidates : (Order - 1) % a # 0

buildCauchy(size) == [i \in 1 .. size |-> [j \in 1 .. size |-> inv((i + j) % Order)]]

buildInverseCauchy(size) ==
  [i \in 1 .. size |-> [j \in 1 .. size |->
     LET a == product([k \in 1 .. size |-> (-i - k) % Order])
         aPrime == product([k \in 1 .. size |-> IF k = j THEN 1 ELSE (j - k) % Order])
         b == product([k \in 1 .. size |-> (j + k) % Order])
         bPrime == product([k \in 1 .. size |-> IF k = i THEN 1 ELSE (k - i) % Order])
     IN  mul(a, mul(b, mul(inv(aPrime), mul(inv(bPrime), inv((-i - j) % Order)))))]]

mdsMat == [size \in {BlockSize, Rate + Capacity} |-> buildCauchy(size)]
mdsMatInverse == [size \in {BlockSize, Rate + Capacity} |-> buildInverseCauchy(size)]

exponentForEven(mode) == IF mode = "cipher" THEN alphaInverse ELSE alpha
exponentForOdd(mode) == IF mode = "cipher" THEN alpha ELSE alphaInverse

\* The exponent of round r.
Exponent(mode, r) == IF r % 2 = 0 THEN exponentForEven(mode) ELSE exponentForOdd(mode)

\* A round of the permutation from state s.
Round(mode, subkeys, r, s) ==
  Elementwise(add, matMul(mdsMat[Len(s)], pow(s, Exponent(mode, r))), subkeys[r + 1])

\* All states of the permutation; the subkeys have the indices 0 to n.
rescuePermutation(mode, subkeys, n, state) ==
  LET states[r \in 0 .. n] ==
        IF r = 0 THEN Of(LAMBDA s : << Elementwise(add, s, subkeys[0]) >>, state)
        ELSE Of(LAMBDA all : Append(all, Round(mode, subkeys, r - 1, all[r])), states[r - 1])
  IN  Of(LAMBDA all : [r \in 0 .. n |-> all[r + 1]], states[n])

\* Mutant of InverseRound: the rounds take the other exponent.
InverseRoundSwapped(mode, subkeys, n, r, s) ==
  pow(matMul(mdsMatInverse[Len(s)], Elementwise(sub, s, subkeys[n - r])), Exponent(mode, r + 1))

InverseRound(mode, subkeys, n, r, s) ==
  pow(matMul(mdsMatInverse[Len(s)], Elementwise(sub, s, subkeys[n - r])), Exponent(mode, r))

\* The last state of the inverse.
rescuePermutationInverse(mode, subkeys, n, state) ==
  LET states[r \in 0 .. n] ==
        IF r = 0 THEN state
        ELSE Of(LAMBDA s : InverseRound(mode, subkeys, n, r - 1, s), states[r - 1])
  IN  Of(LAMBDA s : Elementwise(sub, s, subkeys[0]), states[n])

-----------------------------------------------------------------------------
\* RescueDesc.  The matrix of the round constants is sampled again until it is
\* invertible; the vectors come from between the first and the second attempt.
Sampled(mode, from, nrows, ncols) ==
  [i \in 1 .. nrows |-> [j \in 1 .. ncols |->
     Xof(mode, from + (i - 1) * ncols + j - 1) % Order]]

Attempt(k) ==
  LET m == BlockSize
  IN  Sampled("cipher", IF k = 0 THEN 0 ELSE k * (m * m) + 2 * m, m, m)

\* The loop ends.
ASSUME SampleAssumption == \E k \in 0 .. MaxSamples : det(Attempt(k)) # 0

RoundConstantMat ==
  Attempt(CHOOSE k \in 0 .. MaxSamples :
            det(Attempt(k)) # 0 /\ \A l \in 0 .. k - 1 : det(Attempt(l)) = 0)

cipherConstants ==
  LET m == BlockSize
      mat == RoundConstantMat
      initial == Sampled("cipher", m * m, m, 1)
      affine == Sampled("cipher", m * m + m, m, 1)
      constants[r \in 0 .. 2 * Rounds["cipher"]] ==
        IF r = 0 THEN initial
        ELSE Of(LAMBDA c : Elementwise(add, matMul(mat, c), affine), constants[r - 1])
  IN  [r \in 0 .. 2 * Rounds["cipher"] |-> constants[r]]

hashConstants ==
  LET m == Rate + Capacity
  IN  [r \in 0 .. 2 * Rounds["hash"] |->
         IF r = 0 THEN [i \in 1 .. m |-> <<0>>] ELSE Sampled("hash", (r - 1) * m, m, 1)]

roundKeys(key) ==
  rescuePermutation("cipher", cipherConstants, 2 * Rounds["cipher"], toVec(key))

\* permute and permuteInverse of the cipher with the given round keys.
permute(keys, state) ==
  rescuePermutation("cipher", keys, 2 * Rounds["cipher"], state)[2 * Rounds["cipher"]]

permuteInverse(keys, state) ==
  rescuePermutationInverse("cipher", keys, 2 * Rounds["cipher"], state)

-----------------------------------------------------------------------------
\* RescuePrimeHash: the message and a one, padded with zeros to whole blocks.
Padded(message) ==
  LET one == Append(message, 1)
      short == Len(one) % Rate
  IN  one \o [i \in 1 .. (IF short = 0 THEN 0 ELSE Rate - short) |-> 0]

digest(message) ==
  LET m == Rate + Capacity
      n == 2 * Rounds["hash"]
      padded == Padded(message)
      block(r) == [i \in 1 .. m |-> << IF i <= Rate THEN (padded[(r - 1) * Rate + i]) % Order ELSE 0 >>]
      state[r \in 0 .. Len(padded) \div Rate] ==
        IF r = 0 THEN [i \in 1 .. m |-> <<0>>]
        ELSE Of(LAMBDA s : rescuePermutation("hash", hashConstants, n, s)[n],
                Of(LAMBDA s : Elementwise(AddCT, s, block(r)), state[r - 1]))
  IN  Of(LAMBDA s : [i \in 1 .. BlockSize |-> s[i][1]], state[Len(padded) \div Rate])

\* The round keys of RescueCipherCommon for a shared secret, which
\* Curve25519's base field takes as one number.
KeysOf(sharedSecret) == roundKeys(digest(<<1, sharedSecret, BlockSize>>))

-----------------------------------------------------------------------------
\* A nonce, by its length in bytes and its value.
NonceLength == 16
getRandomNonce(value) == [bytes |-> 12, value |-> value]

\* getCounter, one block of it.
Counter(nonce, i) ==
  [j \in 1 .. BlockSize |-> CASE j = 1 -> nonce.value [] j = 2 -> i [] OTHER -> 0]

\* What is added to element n of a plaintext.
Keystream(keys, nonce, n) ==
  permute(keys, toVec(Counter(nonce, (n - 1) \div BlockSize)))[((n - 1) % BlockSize) + 1][1]

\* The guards of encrypt_raw: a plaintext is a sequence of field elements.
Encrypts(plaintext, nonce) ==
  /\ nonce.bytes = NonceLength
  /\ \A n \in DOMAIN plaintext :
       /\ verifyBinSize(plaintext[n], BinSize - 1)
       /\ ~ctSignBit(plaintext[n], BinSize)
       /\ ctLt(plaintext[n], Order, BinSize)

encrypt_raw(keys, plaintext, nonce) ==
  [n \in DOMAIN plaintext |-> AddCT(plaintext[n], Keystream(keys, nonce, n))]

decrypt_raw(keys, ciphertext, nonce) ==
  [n \in DOMAIN ciphertext |-> SubCT(ciphertext[n], Keystream(keys, nonce, n))]
=============================================================================
