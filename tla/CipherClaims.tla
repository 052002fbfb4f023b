---------------------------- MODULE CipherClaims ----------------------------
(***************************************************************************)
(* What rescue-cipher.ts must get right, for inputs given one at a time.    *)
(***************************************************************************)
EXTENDS RescueCipher

CONSTANTS
  Operands,     \* integers for the arithmetic
  Secrets,      \* shared secrets
  Nonces,       \* nonces
  States,       \* states to permute
  Plaintexts,   \* sequences of integers
  Matrices      \* square matrices

ASSUME InputsAssumption ==
  /\ Operands \subseteq Int
  /\ Secrets \subseteq Int
  /\ Nonces \subseteq [bytes : Nat, value : Nat]
  /\ States \subseteq [1 .. BlockSize -> Int]
  /\ Plaintexts \subseteq Seq(Int)
  /\ \A A \in Matrices : Len(A) \in Nat \ {0} /\ A \in [1 .. Len(A) -> [1 .. Len(A) -> Element]]

VARIABLE input

NoInput == [kind |-> "none"]

CipherInit == input = NoInput

CipherNext ==
  /\ input = NoInput
  /\ \/ \E x, y \in Operands : input' = [kind |-> "pair", x |-> x, y |-> y]
     \/ \E k \in Secrets, s \in States : input' = [kind |-> "state", secret |-> k, state |-> s]
     \/ \E k \in Secrets, n \in Nonces, p \in Plaintexts :
          input' = [kind |-> "message", secret |-> k, nonce |-> n, plaintext |-> p]
     \/ \E A \in Matrices : input' = [kind |-> "matrix", rows |-> A]

CipherSpec == CipherInit /\ [][CipherNext]_input

Keys == [k \in Secrets |-> KeysOf(k)]

-----------------------------------------------------------------------------
\* Bits that are too few, at the top or for a negative operand
\* (rescue-cipher.ts:235, 146-195): the arithmetic on bits is that of the field
\* and compares what it is given, encrypt takes exactly the elements of the field, and
\* exactly the integers between -Order and Order are encoded, of which the lower
\* half in absolute value come back.
FieldArithmeticIsExact ==
  input.kind = "pair" =>
    LET x == input.x
        y == input.y
        half == (Order - 1) \div 2
    IN  /\ {x, y} \subseteq Element => AddCT(x, y) = add(x, y) /\ SubCT(x, y) = sub(x, y)
        /\ {x, y} \subseteq -Order .. Order => (ctLt(x, y, BinSize) <=> x < y)
        /\ Encrypts(<<y, x>>, [bytes |-> NonceLength, value |-> 0]) <=> {x, y} \subseteq Element
        /\ Encryptable(x) <=> x \in 1 - Order .. Order - 1
        /\ Encryptable(x) =>
             LET e == encodeAsRescueEncryptable(x)
             IN  /\ e = x % Order
                 /\ decodeRescueDecryptedToBigInt(e) = x <=> x \in -half .. half

\* The inverse runs the rounds backwards with the exponents exchanged and another
\* matrix (rescue-cipher.ts:844-863, 762-787), and a message is cut into blocks
\* that each have their own counter (985-1016): both directions undo each other.
DecryptionInverts ==
  /\ input.kind = "state" =>
       LET keys == Keys[input.secret]
           s == toVec(input.state)
       IN  /\ Of(LAMBDA t : permuteInverse(keys, t), permute(keys, s)) = s
           /\ Of(LAMBDA t : permute(keys, t), permuteInverse(keys, s)) = s
  /\ input.kind = "message" /\ Encrypts(input.plaintext, input.nonce) =>
       LET keys == Keys[input.secret]
           decrypted(c) == IF c \in Seq(Element) THEN decrypt_raw(keys, c, input.nonce) ELSE << >>
       IN  Of(decrypted, encrypt_raw(keys, input.plaintext, input.nonce)) = input.plaintext

\* Square matrices, and A without row i and the first column.
Square(n) == [1 .. n -> [1 .. n -> Element]]

Minor(A, i, n) == [r \in 1 .. n - 1 |-> [c \in 1 .. n - 1 |-> A[IF r < i THEN r ELSE r + 1][c + 1]]]

\* The determinant by its expansion along the first column.
Alternating(k) == IF k % 2 = 1 THEN 1 ELSE Order - 1

Expansion(D, A, n) ==
  LET sum[k \in 0 .. n] ==
        IF k = 0 THEN 0
        ELSE add(sum[k - 1], mul(Alternating(k), mul(A[k][1], D[Minor(A, k, n)])))
  IN  sum[n]

Determinants(m) ==
  LET D[n \in 0 .. m] ==
        IF n = 0 THEN [A \in Square(0) |-> 1] ELSE [A \in Square(n) |-> Expansion(D[n - 1], A, n)]
  IN  D

Determinant(A) == Determinants(Len(A))[Len(A)][A]

\* Elimination moves rows that begin with zero behind the others and never counts
\* the exchanges (rescue-cipher.ts:431-456): det is the determinant up to its
\* sign, so that the test of the key schedule for an invertible matrix is right.
SingularIsFound ==
  input.kind = "matrix" =>
    det(input.rows) \in {Determinant(input.rows), sub(0, Determinant(input.rows))}

\* README.md:260 and 311-317 of kit-plugin-arcium: what getRandomNonce returns is
\* a nonce for encrypt.
RandomNonceEncrypts ==
  input.kind = "message" /\ input.plaintext \in Seq(Element) =>
    Encrypts(input.plaintext, getRandomNonce(input.nonce.value))
=============================================================================
