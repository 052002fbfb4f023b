------------------------ MODULE CircuitUploadProofs ------------------------
(***************************************************************************)
(* Theorems about CircuitUpload, for every set of calls, every circuit      *)
(* length and every value of the sizes.                                     *)
(***************************************************************************)
EXTENDS CircuitUpload, TLAPS, WellFoundedInduction

-----------------------------------------------------------------------------
\* Arithmetic.

\* CeilDiv of a numerator that is not below 1 - y is a natural number, and y
\* times it reaches the numerator: the code's Math.ceil never undercounts.
LEMMA CeilDivCovers ==
  ASSUME NEW x \in Int, NEW y \in Nat \ {0}, x + y - 1 >= 0
  PROVE  /\ CeilDiv(x, y) \in Nat
         /\ x <= y * CeilDiv(x, y)
  BY SMT DEF CeilDiv

\* A turn i below the ceiling of x / y starts before x.
LEMMA CeilDivBelow ==
  ASSUME NEW x \in Nat, NEW y \in Nat \ {0}, NEW i \in Nat, i < CeilDiv(x, y)
  PROVE  i * y < x
<1> DEFINE q == (x + y - 1) \div y
<1>1. q \in Int /\ y * q <= x + y - 1
  BY SMT
<1>2. i + 1 <= q
  BY <1>1 DEF CeilDiv
<1>3. y * (i + 1) <= y * q
  <2> HIDE DEF q
  <2> QED BY <1>1, <1>2, SMT
<1>4. y * (i + 1) = i * y + y
  BY SMT
<1> QED BY <1>1, <1>3, <1>4, SMT

\* The bytes one resize transaction adds (MAX_REALLOC_PER_IX times
\* MAX_EMBIGGEN_IX_PER_TX), and currentSize at turn i of the resize loop.
PerResizeTx == ReallocBytes * EmbiggenPerTx
CurrentSize(i) == ReallocBytes + i * PerResizeTx

LEMMA SizeTypes ==
  /\ PerResizeTx \in Nat \ {0}
  /\ \A i \in Nat : CurrentSize(i) \in Nat /\ CurrentSize(i + 1) = CurrentSize(i) + PerResizeTx
<1>1. PerResizeTx \in Nat \ {0}
  BY ConstantsAssumption, SMT DEF PerResizeTx
<1>2. ASSUME NEW i \in Nat
      PROVE  i * PerResizeTx \in Nat /\ (i + 1) * PerResizeTx = i * PerResizeTx + PerResizeTx
  BY <1>1, SMT
<1> QED BY <1>1, <1>2, ConstantsAssumption DEF CurrentSize

\* One resize transaction grows an account by what the loop owes it: when the
\* account has l bytes or as many as currentSize of turn i says, it has l bytes
\* or as many as currentSize of turn i + 1 says afterwards.
LEMMA ResizeStepCovers ==
  ASSUME NEW l \in Nat, NEW i \in Nat, i < ResizeTxCount(l), NEW size \in Nat,
         MinOf(l, CurrentSize(i)) <= size
  PROVE  /\ size + ReallocBytes * InstructionCount(l, i) \in Nat
         /\ size <= size + ReallocBytes * InstructionCount(l, i)
         /\ MinOf(l, CurrentSize(i + 1)) <= size + ReallocBytes * InstructionCount(l, i)
<1> DEFINE owed == MinOf(l - CurrentSize(i), PerResizeTx)
           n == CeilDiv(owed, ReallocBytes)
<1>1. InstructionCount(l, i) = n
  BY ConstantsAssumption, SMT DEF InstructionCount, CurrentSize, PerResizeTx
<1>2. i * PerResizeTx < l
  BY SizeTypes, CeilDivBelow DEF ResizeTxCount, PerResizeTx
<1>3. owed \in Int /\ owed + ReallocBytes - 1 >= 0
  BY <1>2, SizeTypes, ConstantsAssumption DEF CurrentSize, MinOf
<1>4. n \in Nat /\ owed <= ReallocBytes * n
  BY <1>3, CeilDivCovers, ConstantsAssumption
<1> HIDE DEF n
<1>5. ReallocBytes * n \in Nat
  BY <1>4, ConstantsAssumption, SMT
<1>6. MinOf(l, CurrentSize(i) + PerResizeTx) <= size + ReallocBytes * n
  BY <1>4, <1>5, SizeTypes DEF MinOf
<1> QED BY <1>1, <1>5, <1>6, SizeTypes

\* After the last turn of the resize loop, currentSize has reached the length.
LEMMA ResizeLoopCovers ==
  ASSUME NEW l \in Nat, NEW i \in Nat, ~(i + 1 < ResizeTxCount(l))
  PROVE  l <= CurrentSize(i + 1)
<1>0. PerResizeTx \in Nat \ {0} /\ l + PerResizeTx - 1 >= 0
  BY SizeTypes
<1>a. ResizeTxCount(l) = CeilDiv(l, PerResizeTx)
  BY DEF ResizeTxCount, PerResizeTx
<1>1. ResizeTxCount(l) \in Nat /\ l <= PerResizeTx * ResizeTxCount(l)
  BY <1>0, <1>a, CeilDivCovers
<1>2. PerResizeTx * ResizeTxCount(l) <= PerResizeTx * (i + 1)
  BY <1>1, SizeTypes, SMT
<1>3. PerResizeTx * (i + 1) = (i + 1) * PerResizeTx
  BY SizeTypes, SMT
<1> QED BY <1>1, <1>2, <1>3, SizeTypes, ConstantsAssumption DEF CurrentSize

-----------------------------------------------------------------------------
\* The inductive invariant.

\* A part that exists has a length between 1 and the capacity of an account.
LEMMA PartFacts ==
  ASSUME len \in [Call -> Lengths \cup {0}], NEW c \in Call, NEW a \in Parts(c)
  PROVE  /\ a \in Acct /\ a \in Nat
         /\ PartLen(c, a) \in Nat \ {0}
         /\ PartLen(c, a) <= BytesPerAccount
<1>0. a \in Acct /\ a < NumAccounts(len[c])
  BY DEF Parts
<1>b. len[c] \in Nat
  <2>1. Lengths \subseteq Nat
    BY ConstantsAssumption
  <2>2. len[c] \in Lengths \cup {0}
    OBVIOUS
  <2>3. 0 \in Nat
    OBVIOUS
  <2> QED BY <2>1, <2>2, <2>3, Zenon
<1>1. a \in Acct /\ a \in Nat /\ len[c] \in Nat
  BY <1>0, <1>b, ConstantsAssumption DEF Acct
<1>2. a * BytesPerAccount < len[c]
  BY <1>0, <1>1, CeilDivBelow, ConstantsAssumption DEF NumAccounts
<1>3. /\ a * BytesPerAccount \in Nat
      /\ (a + 1) * BytesPerAccount = a * BytesPerAccount + BytesPerAccount
  BY <1>1, ConstantsAssumption, SMT
<1> QED BY <1>1, <1>2, <1>3, ConstantsAssumption DEF PartLen, MinOf

LEMMA IInvInit == Init => IInv
<1> SUFFICES ASSUME Init PROVE IInv
  OBVIOUS
<1>1. TypeOK
  BY DEF Init, TypeOK, Active
<1>2. WellSent /\ InitOwns /\ SingleWriter /\ UploadsKept /\ FinalizeLast
  BY DEF Init, WellSent, InitOwns, SingleWriter, UploadsKept, FinalizeLast
<1>3. PartProgress
  BY DEF Init, PartProgress, Parts
<1> QED BY <1>1, <1>2, <1>3 DEF IInv

\* A call is made: only its own length and its init transactions are new.
LEMMA UploadCircuitKeepsIInv ==
  ASSUME IInv, NEW c \in Call, NEW l \in Lengths, UploadCircuit(c, l)
  PROVE  IInv'
<1> USE DEF IInv
<1>0. /\ \A d \in Call \ {c} : Parts(d)' = Parts(d) /\ call'[d] = call[d]
      /\ \A d \in Call \ {c} : \A a \in Acct : PartLen(d, a)' = PartLen(d, a)
      /\ call'[c] = "uploading" /\ Parts(c)' \subseteq Acct
      /\ \A t \in net \cup landed : t.call \in Call \ {c}
      /\ \A a \in Acct : pc'[c][a] = "init"
  BY DEF UploadCircuit, Parts, PartLen, TypeOK, WellSent, Tx, PartProgress
<1>1. TypeOK'
  BY DEF TypeOK, UploadCircuit, Tx, InitTx, Acct, chainVars
<1>2. WellSent'
  <2> SUFFICES ASSUME NEW t \in (net \cup landed)' PROVE WellSent!(t)'
    BY DEF WellSent
  <2>1. CASE t \in net \cup landed
    <3>1. t.call \in Call \ {c} /\ t.acct \in Nat
      BY <2>1, <1>0 DEF TypeOK, Tx
    <3>2. UNCHANGED <<pc, landed>> /\ call'[t.call] = call[t.call]
      BY <1>0, <3>1 DEF UploadCircuit, chainVars
    <3>3. Parts(t.call)' = Parts(t.call)
      BY <1>0, <3>1
    <3>4. t.acct \in Parts(t.call) => PartLen(t.call, t.acct)' = PartLen(t.call, t.acct)
      BY <1>0, <3>1 DEF Parts
    <3> QED
      BY <2>1, <3>1, <3>2, <3>3, <3>4 DEF WellSent
  <2>2. CASE t \notin net \cup landed
    <3>1. t.kind = "init" /\ t.call = c /\ t.acct \in Parts(c)' /\ t.i = 0
      BY <2>2 DEF UploadCircuit, InitTx, chainVars, Parts, TypeOK
    <3> QED BY <3>1, <1>0
  <2> QED BY <2>1, <2>2
<1>3. InitOwns' /\ SingleWriter' /\ UploadsKept'
  BY DEF InitOwns, SingleWriter, UploadsKept, UploadCircuit, chainVars, InitTx
<1>4. PartProgress'
  <2>1. UNCHANGED <<pc, next, landed>>
    BY DEF UploadCircuit, chainVars
  <2>2. ASSUME NEW d \in Call, d # c
        PROVE  PartProgress!(d)'
    BY <2>1, <2>2, <1>0 DEF PartProgress, Parts
  <2>3. PartProgress!(c)'
    BY <2>1, <1>0
  <2> QED BY <2>2, <2>3 DEF PartProgress
<1>5. FinalizeLast'
  BY <1>0 DEF FinalizeLast, UploadCircuit, chainVars, FinalizeTx
<1> QED BY <1>1, <1>2, <1>3, <1>4, <1>5

\* A coroutine whose init landed and that is not done sends its next resize.
LEMMA EnterResizeKeepsIInv ==
  ASSUME IInv, NEW c \in Call, NEW a \in Parts(c), NEW i \in Nat,
         call[c] # "idle", pc[c][a] \in Active, InitTx(c, a) \in landed,
         i < ResizeTxCount(PartLen(c, a)),
         EnterResize(c, a, i), UNCHANGED <<call, len, chainVars>>
  PROVE  IInv'
<1> USE DEF IInv
<1>0. /\ UNCHANGED <<call, len, landed, raw, stored, published>>
      /\ a \in Acct /\ a \in Nat
      /\ \A d \in Call : Parts(d)' = Parts(d)
      /\ \A d \in Call, b \in Acct : PartLen(d, b)' = PartLen(d, b)
  BY PartFacts DEF chainVars, TypeOK, Parts, PartLen
<1>1. /\ \A d \in Call, b \in Acct : (d # c \/ b # a) =>
           pc'[d][b] = pc[d][b] /\ next'[d][b] = next[d][b]
      /\ pc'[c][a] = "resize" /\ next'[c][a] = i
      /\ net' = net \cup {ResizeTx(c, a, i)}
  BY <1>0 DEF EnterResize, TypeOK
<1>2. TypeOK'
  BY <1>0 DEF TypeOK, EnterResize, ResizeTx, Tx, Active
<1>3. call[c] \notin {"finalizing", "resolved"} /\ pc[c][a] # "done"
  BY DEF FinalizeLast, Active
<1>4. WellSent'
  <2> SUFFICES ASSUME NEW t \in (net \cup landed)' PROVE WellSent!(t)'
    BY DEF WellSent
  <2>1. CASE t \in net \cup landed
    <3>1. t.call \in Call /\ t.acct \in Nat
      BY <2>1 DEF TypeOK, Tx
    <3>2. t.kind = "finalize" => t.call # c
      BY <2>1, <1>3 DEF WellSent
    <3> QED
      BY <2>1, <3>1, <3>2, <1>0, <1>1 DEF WellSent, Parts
  <2>2. CASE t = ResizeTx(c, a, i)
    BY <2>2, <1>0 DEF ResizeTx
  <2> QED BY <2>1, <2>2, <1>0, <1>1
<1>5. InitOwns' /\ SingleWriter' /\ UploadsKept'
  BY <1>0 DEF InitOwns, SingleWriter, UploadsKept, InitTx
<1>6. PartProgress'
  <2>1. ASSUME NEW d \in Call, NEW b \in Parts(d), d # c \/ b # a
        PROVE  PartProgress!(d)!2!(b)'
    BY <2>1, <1>0, <1>1 DEF PartProgress, Parts
  <2>2. PartProgress!(c)!2!(a)'
    BY <1>0, <1>1
  <2>3. \A d \in Call : PartProgress!(d)!1'
    BY <1>0, <1>1 DEF PartProgress
  <2> QED BY <2>1, <2>2, <2>3, <1>0 DEF PartProgress
<1>7. FinalizeLast'
  BY <1>0, <1>1, <1>3 DEF FinalizeLast, Parts, FinalizeTx
<1> QED BY <1>2, <1>4, <1>5, <1>6, <1>7

\* A coroutine whose init landed sends the chunk at i, all slots before i having
\* landed.
LEMMA EnterUploadKeepsIInv ==
  ASSUME IInv, NEW c \in Call, NEW a \in Parts(c), NEW i \in Nat,
         call[c] # "idle", pc[c][a] \in Active, InitTx(c, a) \in landed,
         \A k \in 0 .. UploadTxCount(PartLen(c, a)) - 1 :
           k < i => UploadTx(c, a, k) \in landed,
         EnterUpload(c, a, i), UNCHANGED <<call, len, chainVars>>
  PROVE  IInv'
<1> USE DEF IInv
<1>0. /\ UNCHANGED <<call, len, landed, raw, stored, published>>
      /\ a \in Acct /\ a \in Nat
      /\ \A d \in Call : Parts(d)' = Parts(d)
      /\ \A d \in Call, b \in Acct : PartLen(d, b)' = PartLen(d, b)
  BY PartFacts DEF chainVars, TypeOK, Parts, PartLen
<1>1. /\ \A d \in Call, b \in Acct : (d # c \/ b # a) =>
           pc'[d][b] = pc[d][b] /\ next'[d][b] = next[d][b]
      /\ pc'[c][a] = "upload" /\ next'[c][a] = i
      /\ net' = net \cup {UploadTx(c, a, k) : k \in ChunkSlots(PartLen(c, a), i)}
  BY <1>0 DEF EnterUpload, TypeOK
<1>2. TypeOK'
  <2>1. \A k \in ChunkSlots(PartLen(c, a), i) : k \in Nat
    BY ConstantsAssumption DEF ChunkSlots
  <2>2. net' \subseteq Tx
    BY <2>1, <1>0, <1>1 DEF TypeOK, UploadTx, Tx
  <2> QED
    BY <2>2, <1>0 DEF TypeOK, EnterUpload, Active
<1>3. call[c] \notin {"finalizing", "resolved"} /\ pc[c][a] # "done"
  BY DEF FinalizeLast, Active
<1>4. WellSent'
  <2> SUFFICES ASSUME NEW t \in (net \cup landed)' PROVE WellSent!(t)'
    BY DEF WellSent
  <2>1. CASE t \in net \cup landed
    <3>1. t.call \in Call /\ t.acct \in Nat
      BY <2>1 DEF TypeOK, Tx
    <3>2. t.kind = "finalize" => t.call # c
      BY <2>1, <1>3 DEF WellSent
    <3> QED
      BY <2>1, <3>1, <3>2, <1>0, <1>1 DEF WellSent, Parts
  <2>2. CASE \E k \in ChunkSlots(PartLen(c, a), i) : t = UploadTx(c, a, k)
    BY <2>2, <1>0 DEF UploadTx
  <2> QED BY <2>1, <2>2, <1>0, <1>1
<1>5. InitOwns' /\ SingleWriter' /\ UploadsKept'
  BY <1>0 DEF InitOwns, SingleWriter, UploadsKept, InitTx
<1>6. PartProgress'
  <2>1. ASSUME NEW d \in Call, NEW b \in Parts(d), d # c \/ b # a
        PROVE  PartProgress!(d)!2!(b)'
    BY <2>1, <1>0, <1>1 DEF PartProgress, Parts
  <2>2. PartProgress!(c)!2!(a)'
    BY <1>0, <1>1
  <2>3. \A d \in Call : PartProgress!(d)!1'
    BY <1>0, <1>1 DEF PartProgress
  <2> QED BY <2>1, <2>2, <2>3, <1>0 DEF PartProgress
<1>7. FinalizeLast'
  BY <1>0, <1>1, <1>3 DEF FinalizeLast, Parts, FinalizeTx
<1> QED BY <1>2, <1>4, <1>5, <1>6, <1>7

LEMMA InitDoneKeepsIInv ==
  ASSUME IInv, NEW c \in Call, NEW a \in Acct, InitDone(c, a)
  PROVE  IInv'
<1>1. a \in Parts(c) /\ call[c] # "idle" /\ pc[c][a] \in Active /\ InitTx(c, a) \in landed
  BY DEF InitDone, Returned, Awaited, Active
<1>2. PartLen(c, a) \in Nat \ {0}
  BY <1>1, PartFacts DEF IInv, TypeOK
<1>3. CASE PartLen(c, a) > ReallocBytes
  <2>1. 0 < ResizeTxCount(PartLen(c, a))
    <3>1. PerResizeTx \in Nat \ {0} /\ PartLen(c, a) + PerResizeTx - 1 >= 0
      BY <1>2, SizeTypes
    <3>2. ResizeTxCount(PartLen(c, a)) = CeilDiv(PartLen(c, a), PerResizeTx)
      BY DEF ResizeTxCount, PerResizeTx
    <3>3. /\ ResizeTxCount(PartLen(c, a)) \in Nat
          /\ PartLen(c, a) <= PerResizeTx * ResizeTxCount(PartLen(c, a))
      BY <1>2, <3>1, <3>2, CeilDivCovers
    <3> QED BY <1>2, <3>1, <3>3, SMT
  <2> QED BY <1>1, <1>3, <2>1, EnterResizeKeepsIInv DEF InitDone
<1>4. CASE ~(PartLen(c, a) > ReallocBytes)
  BY <1>1, <1>4, EnterUploadKeepsIInv DEF InitDone
<1> QED BY <1>3, <1>4

LEMMA ResizeDoneKeepsIInv ==
  ASSUME IInv, NEW c \in Call, NEW a \in Acct, ResizeDone(c, a)
  PROVE  IInv'
<1>1. /\ a \in Parts(c) /\ call[c] # "idle" /\ pc[c][a] \in Active
      /\ InitTx(c, a) \in landed /\ next[c][a] \in Nat
  BY DEF ResizeDone, Returned, Active, IInv, PartProgress, TypeOK
<1>2. CASE next[c][a] + 1 < ResizeTxCount(PartLen(c, a))
  BY <1>1, <1>2, EnterResizeKeepsIInv DEF ResizeDone
<1>3. CASE ~(next[c][a] + 1 < ResizeTxCount(PartLen(c, a)))
  BY <1>1, <1>3, EnterUploadKeepsIInv DEF ResizeDone
<1> QED BY <1>2, <1>3

\* A coroutine moves on to "done", or any active one to "failed" with its call
\* rejected; nothing is sent.
LEMMA CoroutineEndsKeepsIInv ==
  ASSUME IInv, NEW c \in Call, NEW a \in Parts(c), pc[c][a] \in Active, call[c] # "idle",
         NEW s \in {"done", "failed"}, pc' = [pc EXCEPT ![c][a] = s],
         \/ UNCHANGED call
         \/ call' = [call EXCEPT ![c] = "rejected"],
         UNCHANGED <<len, next, net, chainVars>>,
         s = "done" =>
           /\ InitTx(c, a) \in landed
           /\ \A k \in 0 .. UploadTxCount(PartLen(c, a)) - 1 : UploadTx(c, a, k) \in landed
  PROVE  IInv'
<1> USE DEF IInv
<1>0. /\ UNCHANGED <<len, next, net, landed, raw, stored, published>>
      /\ a \in Acct
      /\ \A d \in Call : Parts(d)' = Parts(d)
      /\ \A d \in Call, b \in Acct : PartLen(d, b)' = PartLen(d, b)
  BY DEF chainVars, Parts, PartLen
<1>1. /\ \A d \in Call, b \in Acct : (d # c \/ b # a) => pc'[d][b] = pc[d][b]
      /\ pc'[c][a] = s
      /\ \A d \in Call : call'[d] = call[d] \/ (d = c /\ call'[d] = "rejected")
  BY <1>0 DEF TypeOK
<1>2. TypeOK'
  BY <1>0 DEF TypeOK, Active
<1>3. call[c] \notin {"finalizing", "resolved"} /\ pc[c][a] # "done"
  BY DEF FinalizeLast, Active
<1>4. WellSent'
  <2> SUFFICES ASSUME NEW t \in net \cup landed PROVE WellSent!(t)'
    BY <1>0 DEF WellSent
  <2>1. t.call \in Call /\ t.acct \in Nat
    BY DEF TypeOK, Tx
  <2>2. t.kind = "finalize" => t.call # c
    BY <1>3 DEF WellSent
  <2> QED
    BY <2>1, <2>2, <1>0, <1>1 DEF WellSent, Parts
<1>5. InitOwns' /\ SingleWriter' /\ UploadsKept'
  BY <1>0 DEF InitOwns, SingleWriter, UploadsKept, InitTx
<1>6. PartProgress'
  <2>1. ASSUME NEW d \in Call, NEW b \in Parts(d), d # c \/ b # a
        PROVE  PartProgress!(d)!2!(b)'
    BY <2>1, <1>0, <1>1 DEF PartProgress, Parts
  <2>2. PartProgress!(c)!2!(a)'
    BY <1>0, <1>1
  <2>3. \A d \in Call : PartProgress!(d)!1'
    BY <1>0, <1>1 DEF PartProgress
  <2> QED BY <2>1, <2>2, <2>3, <1>0 DEF PartProgress
<1>7. FinalizeLast'
  BY <1>0, <1>1, <1>3 DEF FinalizeLast, Parts, FinalizeTx
<1> QED BY <1>2, <1>4, <1>5, <1>6, <1>7

LEMMA ChunkDoneKeepsIInv ==
  ASSUME IInv, NEW c \in Call, NEW a \in Acct, ChunkDone(c, a)
  PROVE  IInv'
<1> DEFINE cnt == UploadTxCount(PartLen(c, a))
<1>1. /\ a \in Parts(c) /\ call[c] # "idle" /\ pc[c][a] \in Active
      /\ pc[c][a] = "upload"
      /\ InitTx(c, a) \in landed /\ next[c][a] \in Nat
  BY DEF ChunkDone, Returned, Active, IInv, PartProgress, TypeOK
<1>2. cnt \in Int
  <2>1. PartLen(c, a) \in Nat
    BY <1>1, PartFacts DEF IInv, TypeOK
  <2> QED BY <2>1, ConstantsAssumption, SMT DEF UploadTxCount, CeilDiv
<1>3. \A k \in 0 .. cnt - 1 : k < next[c][a] => UploadTx(c, a, k) \in landed
  BY <1>1 DEF IInv, PartProgress
<1>4. \A k \in 0 .. cnt - 1 :
        k >= next[c][a] /\ k < next[c][a] + ChunkSize => UploadTx(c, a, k) \in landed
  <2>1. \A k \in ChunkSlots(PartLen(c, a), next[c][a]) : UploadTx(c, a, k) \in landed
    BY <1>1 DEF ChunkDone, Returned, Awaited
  <2> HIDE DEF cnt
  <2>2. \A k \in 0 .. cnt - 1 : k >= next[c][a] /\ k < next[c][a] + ChunkSize
          => k \in next[c][a] .. next[c][a] + ChunkSize - 1 /\ k < cnt
    BY <1>1, <1>2, ConstantsAssumption
  <2> QED BY <2>1, <2>2 DEF ChunkSlots, cnt
<1>5. \A k \in 0 .. cnt - 1 : k < next[c][a] + ChunkSize => UploadTx(c, a, k) \in landed
  BY <1>1, <1>2, <1>3, <1>4
<1>6. CASE next[c][a] + ChunkSize < cnt
  <2>1. next[c][a] + ChunkSize \in Nat
    BY <1>1, ConstantsAssumption
  <2> QED BY <1>1, <1>5, <1>6, <2>1, EnterUploadKeepsIInv DEF ChunkDone
<1>7. CASE ~(next[c][a] + ChunkSize < cnt)
  <2>1. \A k \in 0 .. cnt - 1 : k < next[c][a] + ChunkSize
    <3> HIDE DEF cnt
    <3> QED BY <1>1, <1>2, <1>7, ConstantsAssumption
  <2>2. \A k \in 0 .. cnt - 1 : UploadTx(c, a, k) \in landed
    BY <1>5, <2>1
  <2>3. /\ pc' = [pc EXCEPT ![c][a] = "done"]
        /\ UNCHANGED call /\ UNCHANGED <<len, next, net, chainVars>>
    BY <1>7 DEF ChunkDone
  <2> QED BY <1>1, <2>2, <2>3, CoroutineEndsKeepsIInv
<1> QED BY <1>6, <1>7

LEMMA PartRejectedKeepsIInv ==
  ASSUME IInv, NEW c \in Call, NEW a \in Acct, PartRejected(c, a)
  PROVE  IInv'
  BY CoroutineEndsKeepsIInv DEF PartRejected

\* The body of the call itself: finalize is sent when all parts are done, and
\* the call settles.
LEMMA CallStepKeepsIInv ==
  ASSUME IInv, NEW c \in Call, AllPartsDone(c) \/ Resolve(c) \/ FinalizeRejected(c)
  PROVE  IInv'
<1> USE DEF IInv
<1>0. /\ UNCHANGED <<len, pc, next, landed, raw, stored, published>>
      /\ \A d \in Call : Parts(d)' = Parts(d)
      /\ \A d \in Call, b \in Acct : PartLen(d, b)' = PartLen(d, b)
      /\ \A d \in Call : d # c => call'[d] = call[d]
      /\ call[c] # "idle" /\ call'[c] \in {"finalizing", "resolved", "rejected"}
      /\ net' = net \/ (AllPartsDone(c) /\ net' = net \cup {FinalizeTx(c)})
  BY DEF AllPartsDone, Resolve, FinalizeRejected, chainVars, Parts, PartLen, TypeOK
<1>1. TypeOK'
  <2>1. call' \in [Call -> {"idle", "uploading", "finalizing", "resolved", "rejected"}]
    BY DEF TypeOK, AllPartsDone, Resolve, FinalizeRejected
  <2>2. FinalizeTx(c) \in Tx
    BY DEF FinalizeTx, Tx
  <2> QED BY <1>0, <2>1, <2>2 DEF TypeOK
<1>2. call'[c] \in {"finalizing", "resolved"} => \A a \in Parts(c) : pc[c][a] = "done"
  BY <1>0 DEF AllPartsDone, Resolve, FinalizeRejected, FinalizeLast, TypeOK
<1>3. WellSent'
  <2> SUFFICES ASSUME NEW t \in (net \cup landed)' PROVE WellSent!(t)'
    BY DEF WellSent
  <2>1. CASE t \in net \cup landed
    <3>1. t.call \in Call /\ t.acct \in Nat
      BY <2>1 DEF TypeOK, Tx
    <3>2. call'[t.call] # "idle"
      BY <2>1, <3>1, <1>0 DEF WellSent
    <3> QED
      BY <2>1, <3>1, <3>2, <1>0 DEF WellSent, Parts
  <2>2. CASE t \notin net \cup landed
    <3>1. t = FinalizeTx(c) /\ AllPartsDone(c)
      BY <2>2, <1>0
    <3>2. t.kind = "finalize" /\ t.call = c /\ t.acct = 0 /\ t.i = 0
      BY <3>1 DEF FinalizeTx
    <3> QED BY <3>1, <3>2, <1>0 DEF AllPartsDone
  <2> QED BY <2>1, <2>2
<1>4. InitOwns' /\ SingleWriter' /\ UploadsKept'
  BY <1>0 DEF InitOwns, SingleWriter, UploadsKept, InitTx
<1>5. PartProgress'
  BY <1>0 DEF PartProgress, Parts
<1>6. FinalizeLast'
  <2>1. \A d \in Call : call'[d] \in {"finalizing", "resolved"} =>
          \A a \in Parts(d) : pc[d][a] = "done"
    BY <1>0, <1>2 DEF FinalizeLast
  <2>2. \A d \in Call : call'[d] = "resolved" => FinalizeTx(d) \in landed
    BY <1>0 DEF FinalizeLast, AllPartsDone, Resolve, FinalizeRejected, TypeOK
  <2> QED BY <2>1, <2>2, <1>0 DEF FinalizeLast, FinalizeTx
<1> QED BY <1>1, <1>3, <1>4, <1>5, <1>6

\* The cluster executes a transaction: the client's state stays as it is, and
\* landed grows by at most that transaction.
LEMMA ExecuteKeepsClient ==
  ASSUME IInv, NEW t \in net, Execute(t)
  PROVE  /\ UNCHANGED clientVars
         /\ net' = net \ {t}
         /\ landed' = landed \/ landed' = landed \cup {t}
         /\ WellSent'
         /\ PartProgress'
<1>1. /\ UNCHANGED <<call, len, pc, next>>
      /\ net' = net \ {t}
      /\ landed' = landed \/ landed' = landed \cup {t}
  BY DEF Execute, ExecuteInit, ExecuteResize, ExecuteUpload, ExecuteFinalize, clientVars
<1>2. /\ \A d \in Call : Parts(d)' = Parts(d)
      /\ \A d \in Call, b \in Acct : PartLen(d, b)' = PartLen(d, b)
  BY <1>1 DEF Parts, PartLen
<1>3. WellSent'
  <2> SUFFICES ASSUME NEW u \in net \cup landed PROVE WellSent!(u)'
    BY <1>1 DEF WellSent
  <2>1. u.call \in Call /\ u.acct \in Nat
    BY DEF IInv, TypeOK, Tx
  <2> QED
    BY <2>1, <1>1, <1>2 DEF IInv, WellSent, Parts
<1>4. PartProgress'
  BY <1>1, <1>2 DEF IInv, PartProgress, Parts
<1> QED BY <1>1, <1>3, <1>4 DEF clientVars

LEMMA ExecuteInitKeepsIInv ==
  ASSUME IInv, NEW t \in net, ExecuteInit(t)
  PROVE  IInv'
<1> USE DEF IInv
<1>0. /\ UNCHANGED <<call, len, pc, next, stored, published>>
      /\ net' = net \ {t} /\ WellSent' /\ PartProgress'
      /\ t.call \in Call /\ t.acct \in Acct /\ t.i = 0 /\ t = InitTx(t.call, t.acct)
  <2>1. t \in Tx /\ t.kind = "init" /\ t.acct \in Acct /\ t.i = 0
    BY DEF ExecuteInit, WellSent, TypeOK, Parts
  <2> QED BY <2>1, ExecuteKeepsClient DEF Execute, ExecuteInit, clientVars, Tx, InitTx
<1>1. CASE raw[t.acct].owner # NoCall
  <2>1. UNCHANGED <<raw, landed>>
    BY <1>1 DEF ExecuteInit
  <2>2. TypeOK'
    BY <1>0, <2>1 DEF TypeOK
  <2> QED
    BY <1>0, <2>1, <2>2 DEF InitOwns, SingleWriter, UploadsKept, FinalizeLast,
      InitTx, FinalizeTx, Parts
<1>2. CASE raw[t.acct].owner = NoCall
  <2>1. /\ raw' = [raw EXCEPT ![t.acct] = [owner |-> t.call, size |-> InitBytes]]
        /\ landed' = landed \cup {t}
    BY <1>2 DEF ExecuteInit
  <2>a. raw' \in [Acct -> [owner : Call \cup {NoCall}, size : Nat]]
    <3>1. [owner |-> t.call, size |-> InitBytes] \in [owner : Call \cup {NoCall}, size : Nat]
      BY <1>0, ConstantsAssumption
    <3> QED BY <1>0, <2>1, <3>1 DEF TypeOK
  <2>2. TypeOK'
    BY <1>0, <2>1, <2>a DEF TypeOK
  <2>3. InitOwns'
    <3> SUFFICES ASSUME NEW c \in Call, NEW a \in Acct, InitTx(c, a)' \in landed'
                 PROVE  raw'[a].owner = c
      BY DEF InitOwns
    <3>1. CASE InitTx(c, a) \in landed
      BY <3>1, <1>2, <2>1, ConstantsAssumption DEF InitOwns, TypeOK
    <3>2. CASE InitTx(c, a) = t
      BY <3>2, <1>0, <2>1 DEF InitTx, TypeOK
    <3> QED BY <3>1, <3>2, <2>1 DEF InitTx
  <2>4. SingleWriter'
    BY <1>0, <1>2, <2>1, ConstantsAssumption DEF SingleWriter, TypeOK
  <2>5. UploadsKept' /\ FinalizeLast'
    BY <1>0, <2>1 DEF UploadsKept, FinalizeLast, InitTx, FinalizeTx, Parts
  <2> QED BY <1>0, <2>2, <2>3, <2>4, <2>5
<1> QED BY <1>1, <1>2

\* A resize in flight grows its account by a natural number.
LEMMA GrowthIsNat ==
  ASSUME IInv, NEW t \in net, t.kind = "resize"
  PROVE  /\ t.call \in Call /\ t.acct \in Parts(t.call) /\ t.acct \in Acct
         /\ PartLen(t.call, t.acct) \in Nat /\ t.i \in Nat
         /\ t.i < ResizeTxCount(PartLen(t.call, t.acct))
         /\ ReallocBytes * InstructionCount(PartLen(t.call, t.acct), t.i) \in Nat
<1>1. /\ t.call \in Call /\ t.acct \in Parts(t.call) /\ t.i \in Nat
      /\ t.i < ResizeTxCount(PartLen(t.call, t.acct))
  BY DEF IInv, TypeOK, Tx, WellSent
<1>2. t.acct \in Acct /\ PartLen(t.call, t.acct) \in Nat
  BY <1>1, PartFacts DEF IInv, TypeOK
<1>3. CurrentSize(t.i) \in Nat
  BY <1>1, SizeTypes
<1>4. /\ CurrentSize(t.i) + ReallocBytes * InstructionCount(PartLen(t.call, t.acct), t.i) \in Nat
      /\ CurrentSize(t.i) <=
           CurrentSize(t.i) + ReallocBytes * InstructionCount(PartLen(t.call, t.acct), t.i)
  <2>1. MinOf(PartLen(t.call, t.acct), CurrentSize(t.i)) <= CurrentSize(t.i)
    BY <1>2, <1>3 DEF MinOf
  <2> QED BY <1>1, <1>2, <1>3, <2>1, ResizeStepCovers
<1>5. InstructionCount(PartLen(t.call, t.acct), t.i) \in Int
  BY <1>1, <1>2, ConstantsAssumption, SMT DEF InstructionCount, CeilDiv, MinOf
<1>6. ReallocBytes * InstructionCount(PartLen(t.call, t.acct), t.i) \in Int
  BY <1>5, ConstantsAssumption, SMT
<1> QED BY <1>1, <1>2, <1>3, <1>4, <1>6

LEMMA ExecuteResizeKeepsIInv ==
  ASSUME IInv, NEW t \in net, ExecuteResize(t)
  PROVE  IInv'
<1> USE DEF IInv
<1> DEFINE growth == ReallocBytes * InstructionCount(PartLen(t.call, t.acct), t.i)
<1>0. /\ UNCHANGED <<call, len, pc, next, stored, published>>
      /\ net' = net \ {t} /\ WellSent' /\ PartProgress'
      /\ t \in Tx /\ t.kind = "resize" /\ t.acct \in Acct
      /\ growth \in Nat
  BY ExecuteKeepsClient, GrowthIsNat DEF Execute, ExecuteResize, clientVars, TypeOK
<1>1. CASE raw[t.acct].owner = NoCall
  <2>1. UNCHANGED <<raw, landed>>
    BY <1>1 DEF ExecuteResize
  <2>2. TypeOK'
    BY <1>0, <2>1 DEF TypeOK
  <2> QED
    BY <1>0, <2>1, <2>2 DEF InitOwns, SingleWriter, UploadsKept, FinalizeLast,
      InitTx, FinalizeTx, Parts
<1>2. CASE raw[t.acct].owner # NoCall
  <2>1. raw' = [raw EXCEPT ![t.acct].size = @ + growth] /\ landed' = landed \cup {t}
    BY <1>2 DEF ExecuteResize
  <2> HIDE DEF growth
  <2>2. /\ raw' \in [Acct -> [owner : Call \cup {NoCall}, size : Nat]]
        /\ \A a \in Acct : raw'[a].owner = raw[a].owner
    <3>1. raw[t.acct].owner \in Call \cup {NoCall} /\ raw[t.acct].size + growth \in Nat
      BY <1>0 DEF TypeOK
    <3>2. raw' = [raw EXCEPT ![t.acct] = [raw[t.acct] EXCEPT !.size = @ + growth]]
      BY <2>1
    <3>3. raw[t.acct] \in [owner : Call \cup {NoCall}, size : Nat]
      BY <1>0 DEF TypeOK
    <3>4. [raw[t.acct] EXCEPT !.size = @ + growth]
            = [owner |-> raw[t.acct].owner, size |-> raw[t.acct].size + growth]
      BY <3>3
    <3> QED BY <1>0, <3>1, <3>2, <3>4 DEF TypeOK
  <2>3. TypeOK'
    BY <1>0, <2>1, <2>2 DEF TypeOK
  <2>4. InitOwns'
    BY <1>0, <2>1, <2>2 DEF InitOwns, InitTx
  <2>5. SingleWriter'
    <3>1. \A s \in stored : s[1] \in Acct
      BY DEF TypeOK
    <3> QED BY <1>0, <2>2, <3>1 DEF SingleWriter
  <2>6. UploadsKept' /\ FinalizeLast'
    BY <1>0, <2>1 DEF UploadsKept, FinalizeLast, FinalizeTx, Parts
  <2> QED BY <1>0, <2>3, <2>4, <2>5, <2>6
<1> QED BY <1>1, <1>2

\* An upload overwrites a slot only with bytes of the account's owner, so what
\* landed before is still there.
LEMMA ExecuteUploadKeepsIInv ==
  ASSUME IInv, NEW t \in net, ExecuteUpload(t)
  PROVE  IInv'
<1> USE DEF IInv
<1>0. /\ UNCHANGED <<call, len, pc, next, raw, published>>
      /\ net' = net \ {t} /\ WellSent' /\ PartProgress'
      /\ t \in Tx /\ t.kind = "upload" /\ t.acct \in Acct
      /\ raw[t.acct].owner = t.call
  <2>1. t.acct \in Acct /\ InitTx(t.call, t.acct) \in landed /\ t \in Tx
    BY DEF ExecuteUpload, WellSent, Parts, TypeOK
  <2>2. raw[t.acct].owner = t.call
    BY <2>1 DEF InitOwns, Tx
  <2> QED
    BY <2>1, <2>2, ExecuteKeepsClient DEF Execute, ExecuteUpload, clientVars
<1>1. CASE UNCHANGED <<stored, landed>>
  <2>1. TypeOK'
    BY <1>0, <1>1 DEF TypeOK
  <2> QED
    BY <1>0, <1>1, <2>1 DEF InitOwns, SingleWriter, UploadsKept, FinalizeLast,
      InitTx, FinalizeTx, Parts
<1>2. CASE /\ stored' = {s \in stored : s[1] # t.acct \/ s[2] # t.i}
                           \cup {<<t.acct, t.i, t.call>>}
           /\ landed' = landed \cup {t}
  <2>1. TypeOK'
    BY <1>0, <1>2 DEF TypeOK, Tx
  <2>2. InitOwns' /\ FinalizeLast'
    BY <1>0, <1>2 DEF InitOwns, FinalizeLast, InitTx, FinalizeTx, Parts
  <2>3. SingleWriter'
    BY <1>0, <1>2 DEF SingleWriter
  <2>4. UploadsKept'
    <3> SUFFICES ASSUME NEW u \in landed', u.kind = "upload"
                 PROVE  <<u.acct, u.i, u.call>> \in stored'
      BY DEF UploadsKept
    <3>1. CASE u = t
      BY <3>1, <1>2
    <3>2. CASE u \in landed
      <4>1. <<u.acct, u.i, u.call>> \in stored
        BY <3>2 DEF UploadsKept
      <4>2. u.call = raw[u.acct].owner
        BY <4>1 DEF SingleWriter
      <4> QED BY <4>1, <4>2, <1>0, <1>2
    <3> QED BY <3>1, <3>2, <1>2
  <2> QED BY <1>0, <2>1, <2>2, <2>3, <2>4
<1> QED BY <1>1, <1>2 DEF ExecuteUpload

LEMMA ExecuteFinalizeKeepsIInv ==
  ASSUME IInv, NEW t \in net, ExecuteFinalize(t)
  PROVE  IInv'
<1> USE DEF IInv
<1>0. /\ UNCHANGED <<call, len, pc, next, raw, stored>>
      /\ net' = net \ {t} /\ WellSent' /\ PartProgress'
      /\ t \in Tx /\ t.kind = "finalize" /\ t = FinalizeTx(t.call)
  <2>1. t \in Tx /\ t.kind = "finalize" /\ t.acct = 0 /\ t.i = 0
    BY DEF ExecuteFinalize, WellSent, TypeOK
  <2> QED
    BY <2>1, ExecuteKeepsClient DEF Execute, ExecuteFinalize, clientVars, Tx, FinalizeTx
<1>1. CASE UNCHANGED <<published, landed>>
  <2>1. TypeOK'
    BY <1>0, <1>1 DEF TypeOK
  <2> QED
    BY <1>0, <1>1, <2>1 DEF InitOwns, SingleWriter, UploadsKept, FinalizeLast,
      InitTx, FinalizeTx, Parts
<1>2. CASE published = NoCall /\ published' = t.call /\ landed' = landed \cup {t}
  <2>1. TypeOK'
    BY <1>0, <1>2 DEF TypeOK, Tx
  <2>2. InitOwns' /\ SingleWriter' /\ UploadsKept'
    BY <1>0, <1>2 DEF InitOwns, SingleWriter, UploadsKept, InitTx
  <2>3. FinalizeLast'
    <3>1. \A c \in Call : FinalizeTx(c) \notin landed
      BY <1>2, ConstantsAssumption DEF FinalizeLast
    <3> QED
      BY <3>1, <1>0, <1>2 DEF FinalizeLast, FinalizeTx, Parts
  <2> QED BY <1>0, <2>1, <2>2, <2>3
<1> QED BY <1>1, <1>2 DEF ExecuteFinalize

\* Every step keeps the invariant.
LEMMA IInvNext == IInv /\ [Next]_vars => IInv'
<1> SUFFICES ASSUME IInv, [Next]_vars PROVE IInv'
  OBVIOUS
<1>1. ASSUME NEW c \in Call, NEW l \in Lengths, UploadCircuit(c, l) PROVE IInv'
  BY <1>1, UploadCircuitKeepsIInv
<1>2. ASSUME NEW c \in Call, Proceed(c) PROVE IInv'
  BY <1>2, InitDoneKeepsIInv, ResizeDoneKeepsIInv, ChunkDoneKeepsIInv,
     PartRejectedKeepsIInv, CallStepKeepsIInv DEF Proceed
<1>3. ASSUME NEW t \in net, Execute(t) PROVE IInv'
  BY <1>3, ExecuteInitKeepsIInv, ExecuteResizeKeepsIInv, ExecuteUploadKeepsIInv,
     ExecuteFinalizeKeepsIInv DEF Execute
<1>4. CASE UNCHANGED vars
  BY <1>4 DEF vars, IInv, TypeOK, WellSent, InitOwns, SingleWriter, UploadsKept,
     PartProgress, FinalizeLast, Parts, PartLen, InitTx, UploadTx, FinalizeTx
<1> QED BY <1>1, <1>2, <1>3, <1>4 DEF Next

-----------------------------------------------------------------------------
\* The theorems.

\* The inductive invariant holds in every reachable state.
THEOREM Invariance == Spec => []IInv
  BY IInvInit, IInvNext, PTL DEF Spec

\* Every variable keeps its type; in particular no resize shrinks an account.
THEOREM TypeCorrectness == Spec => []TypeOK
<1>1. IInv => TypeOK
  BY DEF IInv
<1> QED BY <1>1, Invariance, PTL

\* The bytes of one raw circuit account come from one call.
THEOREM AccountsHaveOneWriter == Spec => []SingleWriter
<1>1. IInv => SingleWriter
  BY DEF IInv
<1> QED BY <1>1, Invariance, PTL

\* A part that is done is stored, slot by slot.
LEMMA DonePartsAreStored ==
  ASSUME IInv, NEW c \in Call, \A a \in Parts(c) : pc[c][a] = "done"
  PROVE  CircuitStored(c)
<1> SUFFICES ASSUME NEW a \in Parts(c), NEW k \in 0 .. UploadTxCount(PartLen(c, a)) - 1
             PROVE  <<a, k, c>> \in stored
  BY DEF CircuitStored, PartStored
<1>1. UploadTx(c, a, k) \in landed
  BY DEF IInv, PartProgress
<1> QED BY <1>1 DEF IInv, UploadsKept, UploadTx

\* Finalized means complete, whatever the network, failing parts, orphaned
\* coroutines and concurrent or later calls do.
THEOREM PublishedCircuitIsComplete == Spec => []PublishedIsComplete
<1>1. IInv => PublishedIsComplete
  <2> SUFFICES ASSUME IInv, published # NoCall PROVE CircuitStored(published)
    BY DEF PublishedIsComplete
  <2>1. published \in Call /\ FinalizeTx(published) \in landed
    BY DEF IInv, TypeOK, FinalizeLast
  <2>2. \A a \in Parts(published) : pc[published][a] = "done"
    BY <2>1 DEF IInv, WellSent, FinalizeTx
  <2> QED BY <2>1, <2>2, DonePartsAreStored
<1> QED BY <1>1, Invariance, PTL

\* When uploadCircuit fulfils, this call's circuit is on chain and finalized.
THEOREM ResolvedCallHasPublished == Spec => []ResolvedIsPublished
<1>1. IInv => ResolvedIsPublished
  BY DonePartsAreStored DEF IInv, FinalizeLast, ResolvedIsPublished
<1> QED BY <1>1, Invariance, PTL

\* The finalize transaction is only ever sent when no part of its call failed.
THEOREM FailureForbidsFinalize == Spec => NoFinalizeAfterFailure
<1> DEFINE Safe(c) == (\E a \in Parts(c) : pc[c][a] = "failed")
                         => FinalizeTx(c) \notin net' \ net
<1>1. ASSUME [Next]_vars, NEW c \in Call PROVE Safe(c)
  <2>1. CASE AllPartsDone(c)
    BY <2>1 DEF AllPartsDone
  <2>2. CASE \E d \in Call : d # c /\ AllPartsDone(d)
    BY <2>2 DEF AllPartsDone, FinalizeTx
  <2>3. CASE \E d \in Call, l \in Lengths : UploadCircuit(d, l)
    BY <2>3 DEF UploadCircuit, FinalizeTx, InitTx
  <2>4. CASE \E d \in Call, a \in Acct :
               InitDone(d, a) \/ ResizeDone(d, a) \/ ChunkDone(d, a) \/ PartRejected(d, a)
    BY <2>4 DEF InitDone, ResizeDone, ChunkDone, PartRejected, EnterResize, EnterUpload,
       FinalizeTx, ResizeTx, UploadTx
  <2>5. CASE \E d \in Call : Resolve(d) \/ FinalizeRejected(d)
    BY <2>5 DEF Resolve, FinalizeRejected
  <2>6. CASE \E t \in net : Execute(t)
    BY <2>6 DEF Execute, ExecuteInit, ExecuteResize, ExecuteUpload, ExecuteFinalize
  <2>7. CASE UNCHANGED vars
    BY <2>7 DEF vars
  <2> QED
    BY <1>1, <2>1, <2>2, <2>3, <2>4, <2>5, <2>6, <2>7 DEF Next, Proceed
<1>2. [Next]_vars => [\A c \in Call : Safe(c)]_vars
  BY <1>1
<1> QED BY <1>2, PTL DEF Spec, NoFinalizeAfterFailure

-----------------------------------------------------------------------------
\* The sizes.

\* An account has at least the size the resize loop believes it has.
SizeInv ==
  /\ \A c \in Call, a \in Acct : InitTx(c, a) \in landed => InitBytes <= raw[a].size
  /\ \A t \in net \cup landed : t.kind = "resize" =>
       MinOf(PartLen(t.call, t.acct), CurrentSize(t.i)) <= raw[t.acct].size
  /\ \A t \in landed : t.kind = "resize" =>
       MinOf(PartLen(t.call, t.acct), CurrentSize(t.i + 1)) <= raw[t.acct].size
  /\ \A c \in Call : \A a \in Parts(c) :
       pc[c][a] = "upload" => PartLen(c, a) <= raw[a].size
  /\ UploadFits

\* Executing a transaction shrinks no account that was initialised.
LEMMA SizesGrow ==
  ASSUME IInv, NEW t \in net, Execute(t), NEW c \in Call, NEW a \in Acct,
         InitTx(c, a) \in landed
  PROVE  raw[a].size \in Nat /\ raw'[a].size \in Nat /\ raw[a].size <= raw'[a].size
<1>1. raw[a].owner = c /\ raw[a].owner # NoCall /\ raw[a].size \in Nat
  BY ConstantsAssumption DEF IInv, InitOwns, TypeOK
<1>2. CASE ExecuteInit(t)
  <2>1. t.acct \in Acct
    BY <1>2 DEF ExecuteInit, IInv, WellSent, Parts
  <2>2. raw'[a] = raw[a]
    BY <1>1, <1>2, <2>1 DEF ExecuteInit, IInv, TypeOK
  <2> QED BY <1>1, <2>2
<1>3. CASE ExecuteResize(t)
  <2>1. ReallocBytes * InstructionCount(PartLen(t.call, t.acct), t.i) \in Nat
    BY <1>3, GrowthIsNat DEF ExecuteResize
  <2>2. raw' = raw \/ raw' = [raw EXCEPT ![t.acct].size = @ +
                ReallocBytes * InstructionCount(PartLen(t.call, t.acct), t.i)]
    BY <1>3 DEF ExecuteResize
  <2> QED
    BY <1>1, <2>1, <2>2 DEF IInv, TypeOK
<1>4. CASE ExecuteUpload(t) \/ ExecuteFinalize(t)
  BY <1>1, <1>4 DEF ExecuteUpload, ExecuteFinalize
<1> QED BY <1>2, <1>3, <1>4 DEF Execute

\* A transaction the cluster executes leaves every account as large as the
\* client believes it to be.
LEMMA ExecuteKeepsSizeInv ==
  ASSUME InitBytes >= ReallocBytes, IInv, SizeInv, NEW t \in net, Execute(t)
  PROVE  SizeInv'
<1>0. /\ UNCHANGED <<call, len, pc, next>>
      /\ net' = net \ {t}
      /\ landed' = landed \/ landed' = landed \cup {t}
      /\ \A d \in Call : Parts(d)' = Parts(d)
      /\ \A d \in Call, b \in Acct : PartLen(d, b)' = PartLen(d, b)
  BY ExecuteKeepsClient DEF clientVars, Parts, PartLen
<1>1. \A u \in net \cup landed :
        /\ u.call \in Call /\ u.i \in Nat
        /\ u.kind # "finalize" => u.acct \in Parts(u.call) /\ u.acct \in Acct
        /\ u.kind \in {"resize", "upload"} => InitTx(u.call, u.acct) \in landed
  BY DEF IInv, WellSent, TypeOK, Tx, Parts
<1>2. \A u \in net \cup landed : u.kind # "finalize" => PartLen(u.call, u.acct) \in Nat
  BY <1>1, PartFacts DEF IInv, TypeOK
<1>3. ASSUME NEW c \in Call, NEW a \in Acct, InitTx(c, a)' \in landed'
      PROVE  InitBytes <= raw'[a].size
  <2>1. CASE InitTx(c, a) \in landed
    BY <2>1, SizesGrow, ConstantsAssumption DEF SizeInv
  <2>2. CASE InitTx(c, a) = t /\ t \in landed' /\ t \notin landed
    <3>1. ExecuteInit(t) /\ t.acct = a
      BY <2>2 DEF Execute, ExecuteInit, ExecuteResize, ExecuteUpload, ExecuteFinalize, InitTx
    <3>2. raw' = [raw EXCEPT ![a] = [owner |-> t.call, size |-> InitBytes]]
      BY <2>2, <3>1 DEF ExecuteInit
    <3> QED BY <3>2, ConstantsAssumption DEF IInv, TypeOK
  <2> QED BY <1>0, <1>3, <2>1, <2>2 DEF InitTx
<1>4. ASSUME NEW u \in net \cup landed, u.kind = "resize"
      PROVE  MinOf(PartLen(u.call, u.acct), CurrentSize(u.i)) <= raw'[u.acct].size
  <2>1. MinOf(PartLen(u.call, u.acct), CurrentSize(u.i)) <= raw[u.acct].size
    BY <1>4 DEF SizeInv
  <2>2. /\ raw[u.acct].size \in Nat /\ raw'[u.acct].size \in Nat
        /\ raw[u.acct].size <= raw'[u.acct].size
    BY <1>1, <1>4, SizesGrow
  <2>3. MinOf(PartLen(u.call, u.acct), CurrentSize(u.i)) \in Nat
    BY <1>1, <1>2, <1>4, SizeTypes DEF MinOf
  <2> QED BY <2>1, <2>2, <2>3
<1>5. ASSUME NEW u \in landed', u.kind = "resize"
      PROVE  MinOf(PartLen(u.call, u.acct), CurrentSize(u.i + 1)) <= raw'[u.acct].size
  <2>0. u \in net \cup landed
    BY <1>0, <1>5
  <2>1. /\ raw[u.acct].size \in Nat /\ raw'[u.acct].size \in Nat
        /\ raw[u.acct].size <= raw'[u.acct].size
    BY <1>1, <1>5, <2>0, SizesGrow
  <2>2. CASE u \in landed
    <3>1. MinOf(PartLen(u.call, u.acct), CurrentSize(u.i + 1)) <= raw[u.acct].size
      BY <1>5, <2>2 DEF SizeInv
    <3>2. MinOf(PartLen(u.call, u.acct), CurrentSize(u.i + 1)) \in Nat
      <4>1. CurrentSize(u.i + 1) \in Nat
        BY <1>1, <2>0, SizeTypes
      <4> QED BY <1>2, <1>5, <2>0, <4>1 DEF MinOf
    <3> QED BY <2>1, <3>1, <3>2
  <2>3. CASE u = t /\ u \notin landed
    <3>1. ExecuteResize(t) /\ raw[t.acct].owner # NoCall
      BY <1>5, <2>3 DEF Execute, ExecuteInit, ExecuteResize, ExecuteUpload, ExecuteFinalize
    <3>2. t.acct \in Acct /\ PartLen(t.call, t.acct) \in Nat /\ t.i \in Nat
          /\ t.i < ResizeTxCount(PartLen(t.call, t.acct))
      BY <1>5, <2>3, GrowthIsNat
    <3>3. MinOf(PartLen(t.call, t.acct), CurrentSize(t.i)) <= raw[t.acct].size
      BY <1>5, <2>3 DEF SizeInv
    <3>4. MinOf(PartLen(t.call, t.acct), CurrentSize(t.i + 1))
            <= raw[t.acct].size + ReallocBytes * InstructionCount(PartLen(t.call, t.acct), t.i)
      BY <2>1, <2>3, <3>2, <3>3, ResizeStepCovers
    <3>5. raw'[t.acct].size =
            raw[t.acct].size + ReallocBytes * InstructionCount(PartLen(t.call, t.acct), t.i)
      BY <3>1, <3>2 DEF ExecuteResize, IInv, TypeOK
    <3> QED BY <2>3, <3>4, <3>5
  <2> QED BY <1>0, <1>5, <2>2, <2>3
<1>6. ASSUME NEW c \in Call, NEW a \in Parts(c), pc[c][a] = "upload"
      PROVE  PartLen(c, a) <= raw'[a].size
  <2>1. InitTx(c, a) \in landed /\ PartLen(c, a) <= raw[a].size
    BY <1>6 DEF IInv, PartProgress, SizeInv
  <2>2. a \in Acct /\ PartLen(c, a) \in Nat
    BY PartFacts DEF IInv, TypeOK
  <2> QED BY <2>1, <2>2, SizesGrow
<1>7. ASSUME NEW u \in net, u.kind = "upload"
      PROVE  PartLen(u.call, u.acct) <= raw'[u.acct].size
  <2>1. PartLen(u.call, u.acct) <= raw[u.acct].size
    BY <1>7 DEF SizeInv, UploadFits
  <2> QED BY <2>1, <1>1, <1>2, <1>7, SizesGrow
<1>8. \A u \in net \cup landed : u.kind # "finalize" =>
        PartLen(u.call, u.acct)' = PartLen(u.call, u.acct)
  BY <1>0, <1>1
<1> QED
  <2>1. \A c \in Call, a \in Acct : InitTx(c, a)' \in landed' => InitBytes <= raw'[a].size
    BY <1>3
  <2>2. \A u \in (net \cup landed)' : u.kind = "resize" =>
          MinOf(PartLen(u.call, u.acct)', CurrentSize(u.i)) <= raw'[u.acct].size
    BY <1>0, <1>4, <1>8
  <2>3. \A u \in landed' : u.kind = "resize" =>
          MinOf(PartLen(u.call, u.acct)', CurrentSize(u.i + 1)) <= raw'[u.acct].size
    BY <1>0, <1>5, <1>8
  <2>4. \A c \in Call : \A a \in Parts(c)' :
          pc'[c][a] = "upload" => PartLen(c, a)' <= raw'[a].size
    BY <1>0, <1>6 DEF Parts
  <2>5. \A u \in net' : u.kind = "upload" => PartLen(u.call, u.acct)' <= raw'[u.acct].size
    BY <1>0, <1>7, <1>8
  <2> QED
    BY <2>1, <2>2, <2>3, <2>4, <2>5 DEF SizeInv, UploadFits, CurrentSize, PerResizeTx, MinOf

\* The client's steps resize no account; what they send fits.
LEMMA ClientKeepsSizeInv ==
  ASSUME IInv, SizeInv, UNCHANGED <<len, landed, raw>>,
         NEW c \in Call, NEW a \in Parts(c),
         \A d \in Call, b \in Acct : d # c \/ b # a => pc'[d][b] = pc[d][b],
         \/ net' = net
         \/ net' = net \cup {FinalizeTx(c)}
         \/ \E i \in Nat : /\ net' = net \cup {ResizeTx(c, a, i)}
                           /\ MinOf(PartLen(c, a), CurrentSize(i)) <= raw[a].size
         \/ \E i \in Nat :
              net' = net \cup {UploadTx(c, a, k) : k \in ChunkSlots(PartLen(c, a), i)}
              /\ PartLen(c, a) <= raw[a].size,
         pc'[c][a] = "upload" => PartLen(c, a) <= raw[a].size
  PROVE  SizeInv'
<1>0. /\ \A d \in Call : Parts(d)' = Parts(d)
      /\ \A d \in Call, b \in Acct : PartLen(d, b)' = PartLen(d, b)
      /\ a \in Acct
  BY DEF Parts, PartLen
<1>1. \A u \in net \cup landed : u.call \in Call /\ (u.kind # "finalize" => u.acct \in Acct)
  BY DEF IInv, WellSent, TypeOK, Tx, Parts
<1>2. ASSUME NEW u \in net', u \notin net
      PROVE  /\ u.call = c /\ (u.kind # "finalize" => u.acct = a)
             /\ u.kind = "resize" => MinOf(PartLen(c, a), CurrentSize(u.i)) <= raw[a].size
             /\ u.kind = "upload" => PartLen(c, a) <= raw[a].size
  BY <1>2 DEF FinalizeTx, ResizeTx, UploadTx
<1>3. \A d \in Call, b \in Acct : InitTx(d, b) \in landed => InitBytes <= raw[b].size
  BY DEF SizeInv
<1>4. \A u \in net' \cup landed : u.kind = "resize" =>
        MinOf(PartLen(u.call, u.acct)', CurrentSize(u.i)) <= raw[u.acct].size
  BY <1>0, <1>1, <1>2 DEF SizeInv
<1>5. \A u \in landed : u.kind = "resize" =>
        MinOf(PartLen(u.call, u.acct)', CurrentSize(u.i + 1)) <= raw[u.acct].size
  BY <1>0, <1>1 DEF SizeInv
<1>6. \A d \in Call : \A b \in Parts(d)' :
        pc'[d][b] = "upload" => PartLen(d, b)' <= raw[b].size
  BY <1>0 DEF SizeInv, Parts
<1>7. \A u \in net' : u.kind = "upload" => PartLen(u.call, u.acct)' <= raw[u.acct].size
  BY <1>0, <1>1, <1>2 DEF SizeInv, UploadFits
<1> QED
  BY <1>3, <1>4, <1>5, <1>6, <1>7 DEF SizeInv, UploadFits, CurrentSize, PerResizeTx, MinOf, InitTx

\* When the init of a part landed, the account has its first reallocation; after
\* a resize turn it has what currentSize of the next turn says.
LEMMA PartStepKeepsSizeInv ==
  ASSUME InitBytes >= ReallocBytes, IInv, SizeInv, NEW c \in Call, NEW a \in Acct,
         InitDone(c, a) \/ ResizeDone(c, a) \/ ChunkDone(c, a) \/ PartRejected(c, a)
  PROVE  SizeInv'
<1>1. /\ a \in Parts(c) /\ PartLen(c, a) \in Nat \ {0}
      /\ raw[a].size \in Nat /\ next[c][a] \in Nat
      /\ UNCHANGED <<len, landed, raw>>
      /\ \A d \in Call, b \in Acct : d # c \/ b # a => pc'[d][b] = pc[d][b]
  <2>1. a \in Parts(c)
    BY DEF InitDone, ResizeDone, ChunkDone, PartRejected, Returned
  <2>2. PartLen(c, a) \in Nat \ {0}
    BY <2>1, PartFacts DEF IInv, TypeOK
  <2>3. UNCHANGED <<len, landed, raw>>
    BY DEF InitDone, ResizeDone, ChunkDone, PartRejected, chainVars
  <2>4. \A d \in Call, b \in Acct : d # c \/ b # a => pc'[d][b] = pc[d][b]
    BY DEF InitDone, ResizeDone, ChunkDone, PartRejected, EnterResize, EnterUpload, IInv, TypeOK
  <2> QED BY <2>1, <2>2, <2>3, <2>4 DEF IInv, TypeOK
<1>2. CASE InitDone(c, a)
  <2>1. ReallocBytes <= raw[a].size
    <3>1. InitTx(c, a) \in landed
      BY <1>2 DEF InitDone, Returned, Awaited
    <3> QED BY <1>1, <3>1, ConstantsAssumption DEF SizeInv
  <2>2. CurrentSize(0) = ReallocBytes /\ MinOf(PartLen(c, a), CurrentSize(0)) <= raw[a].size
    <3>1. CurrentSize(0) = ReallocBytes
      BY SizeTypes, ConstantsAssumption DEF CurrentSize
    <3> QED BY <1>1, <2>1, <3>1, ConstantsAssumption DEF MinOf
  <2>3. CASE PartLen(c, a) > ReallocBytes
    <3>1. pc'[c][a] = "resize" /\ net' = net \cup {ResizeTx(c, a, 0)}
      BY <1>2, <2>3 DEF InitDone, EnterResize, IInv, TypeOK
    <3> QED BY <1>1, <2>2, <3>1, ClientKeepsSizeInv
  <2>4. CASE ~(PartLen(c, a) > ReallocBytes)
    <3>1. net' = net \cup {UploadTx(c, a, k) : k \in ChunkSlots(PartLen(c, a), 0)}
      BY <1>2, <2>4 DEF InitDone, EnterUpload
    <3>2. PartLen(c, a) <= raw[a].size
      BY <1>1, <2>1, <2>4, ConstantsAssumption
    <3> QED BY <1>1, <3>1, <3>2, ClientKeepsSizeInv
  <2> QED BY <2>3, <2>4
<1>3. CASE ResizeDone(c, a)
  <2> DEFINE i == next[c][a]
  <2>1. MinOf(PartLen(c, a), CurrentSize(i + 1)) <= raw[a].size
    <3>1. ResizeTx(c, a, i) \in landed
      BY <1>3 DEF ResizeDone, Returned, Awaited
    <3> QED BY <3>1 DEF SizeInv, ResizeTx
  <2>2. CASE i + 1 < ResizeTxCount(PartLen(c, a))
    <3>1. pc'[c][a] = "resize" /\ net' = net \cup {ResizeTx(c, a, i + 1)} /\ i + 1 \in Nat
      BY <1>1, <1>3, <2>2 DEF ResizeDone, EnterResize, IInv, TypeOK
    <3> QED BY <1>1, <2>1, <3>1, ClientKeepsSizeInv
  <2>3. CASE ~(i + 1 < ResizeTxCount(PartLen(c, a)))
    <3>1. net' = net \cup {UploadTx(c, a, k) : k \in ChunkSlots(PartLen(c, a), 0)}
      BY <1>3, <2>3 DEF ResizeDone, EnterUpload
    <3>2. PartLen(c, a) <= CurrentSize(i + 1)
      BY <1>1, <2>3, ResizeLoopCovers
    <3>3. CurrentSize(i + 1) \in Int
      BY <1>1, SizeTypes
    <3>4. PartLen(c, a) <= raw[a].size
      BY <1>1, <2>1, <3>2, <3>3 DEF MinOf
    <3> QED BY <1>1, <3>1, <3>4, ClientKeepsSizeInv
  <2> QED BY <2>2, <2>3
<1>4. CASE ChunkDone(c, a)
  <2>1. PartLen(c, a) <= raw[a].size
    BY <1>1, <1>4 DEF ChunkDone, Returned, SizeInv
  <2>2. \/ net' = net
        \/ \E i \in Nat : net' = net \cup {UploadTx(c, a, k) : k \in ChunkSlots(PartLen(c, a), i)}
    <3>1. next[c][a] + ChunkSize \in Nat
      BY <1>1, ConstantsAssumption
    <3> QED BY <1>4, <3>1 DEF ChunkDone, EnterUpload
  <2> QED BY <1>1, <2>1, <2>2, ClientKeepsSizeInv
<1>5. CASE PartRejected(c, a)
  <2>1. net' = net /\ pc'[c][a] = "failed"
    BY <1>5 DEF PartRejected, IInv, TypeOK
  <2> QED BY <1>1, <2>1, ClientKeepsSizeInv
<1> QED BY <1>2, <1>3, <1>4, <1>5

\* Every upload transaction fits its account, for every circuit length, if an
\* initialised account holds one reallocation of circuit bytes.
THEOREM UploadsFitTheirAccounts ==
  ASSUME InitBytes >= ReallocBytes
  PROVE  Spec => []UploadFits
<1>1. Init => SizeInv
  BY DEF Init, SizeInv, UploadFits, Parts
<1>2. ASSUME IInv, SizeInv, [Next]_vars PROVE SizeInv'
  <2>1. ASSUME NEW c \in Call, NEW l \in Lengths, UploadCircuit(c, l) PROVE SizeInv'
    <3>1. /\ UNCHANGED <<pc, landed, raw>>
          /\ \A d \in Call \ {c} : Parts(d)' = Parts(d)
          /\ \A d \in Call \ {c} : \A b \in Acct : PartLen(d, b)' = PartLen(d, b)
          /\ \A d \in Call : Parts(d)' \subseteq Acct
      BY <2>1, <1>2 DEF UploadCircuit, chainVars, Parts, PartLen, IInv, TypeOK
    <3>2. \A b \in Acct : pc[c][b] = "init"
      BY <2>1, <1>2 DEF UploadCircuit, IInv, PartProgress
    <3>3. \A t \in net \cup landed : t.call \in Call \ {c} /\ (t.kind # "finalize" => t.acct \in Acct)
      BY <2>1, <1>2 DEF UploadCircuit, IInv, WellSent, TypeOK, Tx, Parts
    <3>4. \A t \in net' : t \in net \/ t.kind = "init"
      BY <2>1 DEF UploadCircuit, InitTx
    <3> QED
      BY <3>1, <3>2, <3>3, <3>4, <1>2 DEF SizeInv, UploadFits, CurrentSize, PerResizeTx, MinOf, InitTx
  <2>2. ASSUME NEW c \in Call, AllPartsDone(c) \/ Resolve(c) \/ FinalizeRejected(c)
        PROVE  SizeInv'
    BY <2>2, <1>2 DEF AllPartsDone, Resolve, FinalizeRejected, chainVars, SizeInv, UploadFits,
       Parts, PartLen, CurrentSize, PerResizeTx, FinalizeTx, InitTx
  <2>3. CASE UNCHANGED vars
    BY <2>3, <1>2 DEF vars, SizeInv, UploadFits, Parts, PartLen, CurrentSize, PerResizeTx, InitTx
  <2> QED
    BY <1>2, <2>1, <2>2, <2>3, PartStepKeepsSizeInv, ExecuteKeepsSizeInv DEF Next, Proceed
<1>3. SizeInv => UploadFits
  BY DEF SizeInv
<1> QED BY <1>1, <1>2, <1>3, Invariance, PTL DEF Spec

-----------------------------------------------------------------------------
\* What a part has in flight.

\* Transactions of one kind and one window of chunkSize indices.
OneChunk(S) ==
  \E k \in {"init", "resize", "upload"}, i \in Nat : \A t \in S :
    t.kind = k /\ i <= t.i /\ t.i < i + ChunkSize

\* The transactions that part a of call c has in flight.
InFlight(c, a) == {t \in net : t.call = c /\ t.acct = a /\ t.kind # "finalize"}

Windowed(c, a) == OneChunk(InFlight(c, a))

\* Nothing a part has sent is ahead of its coroutine.
Behind(t, c, a) ==
  /\ pc[c][a] = "init" => t.kind = "init"
  /\ pc[c][a] = "resize" =>
       t.kind = "init" \/ (t.kind = "resize" /\ t.i <= next[c][a])
  /\ pc[c][a] = "upload" =>
       t.kind \in {"init", "resize"} \/ (t.kind = "upload" /\ t.i < next[c][a] + ChunkSize)

\* A transaction leaves the net when it lands and is not sent again; a coroutine
\* that runs has in flight only what it awaits.
OrderInv ==
  \A c \in Call : \A a \in Parts(c) :
    /\ \A t \in net \cup landed :
         t.call = c /\ t.acct = a /\ t.kind # "finalize" => Behind(t, c, a)
    /\ \A t \in InFlight(c, a) :
         /\ t \notin landed
         /\ pc[c][a] \in Active => t \in Awaited(c, a)
         /\ pc[c][a] # "done"
    /\ Windowed(c, a)

\* What is awaited of a part that was sent nothing new stays what it was.
LEMMA OtherPartKeepsOrder ==
  ASSUME IInv, OrderInv, NEW c \in Call, NEW a \in Parts(c), a \in Parts(c)',
         len'[c] = len[c], pc'[c][a] = pc[c][a], next'[c][a] = next[c][a],
         \A t \in net' \cup landed' : t.call = c /\ t.acct = a /\ t.kind # "finalize" =>
           t \in net \cup landed,
         \A t \in net' : t.call = c /\ t.acct = a /\ t.kind # "finalize" =>
           t \in net /\ (t \in landed' => t \in landed)
  PROVE  OrderInv!(c)!(a)'
<1>1. InFlight(c, a)' \subseteq InFlight(c, a)
  BY DEF InFlight
<1>2. Windowed(c, a)'
  <2>1. PICK k \in {"init", "resize", "upload"}, i \in Nat : \A u \in InFlight(c, a) :
          u.kind = k /\ i <= u.i /\ u.i < i + ChunkSize
    BY DEF OrderInv, Windowed, OneChunk
  <2> QED BY <1>1, <2>1 DEF Windowed, OneChunk
<1>3. PartLen(c, a)' = PartLen(c, a)
  BY DEF PartLen
<1>4. Awaited(c, a)' = Awaited(c, a)
  BY <1>3 DEF Awaited, InitTx, ResizeTx, UploadTx
<1>5. \A t \in (net \cup landed)' :
        t.call = c /\ t.acct = a /\ t.kind # "finalize" => Behind(t, c, a)'
  BY DEF OrderInv, Behind
<1>6. \A t \in InFlight(c, a)' :
        t \notin landed' /\ (pc'[c][a] \in Active => t \in Awaited(c, a)') /\ pc'[c][a] # "done"
  BY <1>1, <1>4 DEF OrderInv, InFlight
<1> QED BY <1>2, <1>5, <1>6

\* A coroutine of which nothing is in flight sends what it awaits next.
LEMMA SendKeepsOrder ==
  ASSUME IInv, OrderInv, NEW c \in Call, NEW a \in Parts(c),
         pc[c][a] \in Active, Awaited(c, a) \subseteq landed,
         UNCHANGED <<call, len, landed>>,
         \A d \in Call, b \in Acct : d # c \/ b # a =>
           pc'[d][b] = pc[d][b] /\ next'[d][b] = next[d][b],
         NEW S, net' = net \cup S, S \subseteq Awaited(c, a)',
         OneChunk(S), \A t \in S : t.call = c /\ t.acct = a /\ t \notin landed,
         pc'[c][a] # "done",
         \A t \in landed \cup S :
           t.call = c /\ t.acct = a /\ t.kind # "finalize" => Behind(t, c, a)'
  PROVE  OrderInv'
<1>1. /\ \A d \in Call : Parts(d)' = Parts(d)
      /\ a \in Acct
  BY DEF Parts
<1>2. InFlight(c, a) = {}
  BY DEF OrderInv, InFlight
<1>3. InFlight(c, a)' \subseteq S
  BY <1>2 DEF InFlight
<1>4. ASSUME NEW d \in Call, NEW b \in Parts(d), d # c \/ b # a
      PROVE  OrderInv!(d)!(b)'
  <2>1. b \in Acct
    BY DEF Parts
  <2>2. /\ \A t \in net' : t.call = d /\ t.acct = b => t \in net
        /\ UNCHANGED landed
    BY <1>4
  <2> QED BY <1>1, <1>4, <2>1, <2>2, OtherPartKeepsOrder
<1>5. OrderInv!(c)!(a)'
  <2>1. Windowed(c, a)'
    BY <1>3 DEF Windowed, OneChunk
  <2>2. \A t \in net : t.call = c /\ t.acct = a => t.kind = "finalize"
    BY <1>2 DEF InFlight
  <2>3. \A t \in (net \cup landed)' :
          t.call = c /\ t.acct = a /\ t.kind # "finalize" => Behind(t, c, a)'
    BY <2>2
  <2>4. \A t \in InFlight(c, a)' :
          t \notin landed' /\ t \in Awaited(c, a)' /\ pc'[c][a] # "done"
    BY <1>3
  <2> QED BY <2>1, <2>3, <2>4
<1> QED BY <1>1, <1>4, <1>5 DEF OrderInv

\* One more turn of the resize loop, of which nothing was sent yet.
LEMMA EnterResizeKeepsOrder ==
  ASSUME IInv, OrderInv, NEW c \in Call, NEW a \in Parts(c), NEW i \in Nat,
         pc[c][a] \in Active, Awaited(c, a) \subseteq landed,
         \A t \in landed : t.call = c /\ t.acct = a /\ t.kind # "finalize" =>
           t.kind = "init" \/ (t.kind = "resize" /\ t.i < i),
         EnterResize(c, a, i), UNCHANGED <<call, len, landed>>
  PROVE  OrderInv'
<1> DEFINE S == {ResizeTx(c, a, i)}
<1>1. /\ a \in Acct
      /\ \A d \in Call, b \in Acct : d # c \/ b # a =>
           pc'[d][b] = pc[d][b] /\ next'[d][b] = next[d][b]
      /\ pc'[c][a] = "resize" /\ next'[c][a] = i
      /\ net' = net \cup S
      /\ next[c][a] \in Nat
  BY DEF EnterResize, IInv, TypeOK, Parts
<1>2. Awaited(c, a)' = S
  BY <1>1 DEF Awaited, ResizeTx
<1>3. \A t \in S : /\ t.call = c /\ t.acct = a /\ t.kind = "resize"
                  /\ i <= t.i /\ t.i < i + ChunkSize
  BY ConstantsAssumption DEF ResizeTx
<1>4. \A t \in S : t \notin landed
  BY DEF ResizeTx
<1>5. \A t \in landed \cup S :
        t.call = c /\ t.acct = a /\ t.kind # "finalize" => Behind(t, c, a)'
  <2>1. \A t \in landed : t.i \in Nat
    BY DEF IInv, TypeOK, Tx
  <2> QED BY <1>1, <2>1 DEF Behind, ResizeTx
<1> HIDE DEF S
<1>6. OneChunk(S) /\ \A t \in S : t.call = c /\ t.acct = a /\ t \notin landed
  BY <1>3, <1>4 DEF OneChunk
<1> QED BY <1>1, <1>2, <1>5, <1>6, SendKeepsOrder

\* One more turn of the upload loop, of which nothing was sent yet.
LEMMA EnterUploadKeepsOrder ==
  ASSUME IInv, OrderInv, NEW c \in Call, NEW a \in Parts(c), NEW i \in Nat,
         pc[c][a] \in Active, Awaited(c, a) \subseteq landed,
         \A t \in landed : t.call = c /\ t.acct = a /\ t.kind # "finalize" =>
           t.kind \in {"init", "resize"} \/ (t.kind = "upload" /\ t.i < i),
         EnterUpload(c, a, i), UNCHANGED <<call, len, landed>>
  PROVE  OrderInv'
<1> DEFINE S == {UploadTx(c, a, k) : k \in ChunkSlots(PartLen(c, a), i)}
<1>1. /\ a \in Acct
      /\ \A d \in Call, b \in Acct : d # c \/ b # a =>
           pc'[d][b] = pc[d][b] /\ next'[d][b] = next[d][b]
      /\ pc'[c][a] = "upload" /\ next'[c][a] = i
      /\ net' = net \cup S
      /\ next[c][a] \in Nat
  BY DEF EnterUpload, IInv, TypeOK, Parts
<1>2. Awaited(c, a)' = S
  <2>1. PartLen(c, a)' = PartLen(c, a)
    BY DEF PartLen
  <2> QED BY <1>1, <2>1 DEF Awaited, UploadTx
<1>3. \A t \in S : /\ t.call = c /\ t.acct = a /\ t.kind = "upload"
                  /\ i <= t.i /\ t.i < i + ChunkSize
  BY ConstantsAssumption DEF UploadTx, ChunkSlots
<1>4. \A t \in S : t \notin landed
  <2>1. \A t \in S : t.i \in Int
    BY DEF UploadTx, ChunkSlots
  <2> QED BY <1>3, <2>1
<1>5. \A t \in landed \cup S :
        t.call = c /\ t.acct = a /\ t.kind # "finalize" => Behind(t, c, a)'
  <2>1. \A t \in landed : t.i \in Nat
    BY DEF IInv, TypeOK, Tx
  <2>2. ASSUME NEW t \in landed, t.call = c, t.acct = a, t.kind # "finalize"
        PROVE  Behind(t, c, a)'
    BY <1>1, <2>1, <2>2, ConstantsAssumption DEF Behind
  <2>3. ASSUME NEW t \in S
        PROVE  Behind(t, c, a)'
    BY <1>1, <1>3, <2>3 DEF Behind
  <2> QED BY <2>2, <2>3
<1> HIDE DEF S
<1>6. OneChunk(S) /\ \A t \in S : t.call = c /\ t.acct = a /\ t \notin landed
  BY <1>3, <1>4 DEF OneChunk
<1> QED BY <1>1, <1>2, <1>5, <1>6, SendKeepsOrder

\* The steps of the coroutines.
LEMMA PartStepKeepsOrder ==
  ASSUME IInv, OrderInv, NEW c \in Call, NEW a \in Acct,
         InitDone(c, a) \/ ResizeDone(c, a) \/ ChunkDone(c, a) \/ PartRejected(c, a)
  PROVE  OrderInv'
<1>1. /\ a \in Parts(c) /\ pc[c][a] \in Active /\ next[c][a] \in Nat
      /\ UNCHANGED <<len, landed>>
      /\ \A d \in Call : Parts(d)' = Parts(d)
  BY DEF InitDone, ResizeDone, ChunkDone, PartRejected, Returned, Active, chainVars,
     IInv, TypeOK, Parts
<1>2. \A t \in landed : t.call = c /\ t.acct = a /\ t.kind # "finalize" =>
        Behind(t, c, a) /\ t.i \in Nat
  BY <1>1 DEF OrderInv, IInv, TypeOK, Tx
<1>3. CASE InitDone(c, a)
  <2>1. pc[c][a] = "init" /\ Awaited(c, a) \subseteq landed /\ UNCHANGED <<call, len, landed>>
    BY <1>3 DEF InitDone, Returned, chainVars
  <2>2. \A t \in landed : t.call = c /\ t.acct = a /\ t.kind # "finalize" => t.kind = "init"
    BY <1>2, <2>1 DEF Behind
  <2>3. EnterResize(c, a, 0) \/ EnterUpload(c, a, 0)
    BY <1>3 DEF InitDone
  <2> QED BY <1>1, <2>1, <2>2, <2>3, EnterResizeKeepsOrder, EnterUploadKeepsOrder
<1>4. CASE ResizeDone(c, a)
  <2>1. pc[c][a] = "resize" /\ Awaited(c, a) \subseteq landed /\ UNCHANGED <<call, len, landed>>
    BY <1>4 DEF ResizeDone, Returned, chainVars
  <2>2. /\ next[c][a] + 1 \in Nat
        /\ \A t \in landed : t.call = c /\ t.acct = a /\ t.kind # "finalize" =>
             t.kind = "init" \/ (t.kind = "resize" /\ t.i < next[c][a] + 1)
    BY <1>1, <1>2, <2>1 DEF Behind
  <2>3. EnterResize(c, a, next[c][a] + 1) \/ EnterUpload(c, a, 0)
    BY <1>4 DEF ResizeDone
  <2> QED BY <1>1, <2>1, <2>2, <2>3, EnterResizeKeepsOrder, EnterUploadKeepsOrder
<1>5. CASE ChunkDone(c, a) /\ EnterUpload(c, a, next[c][a] + ChunkSize)
  <2>1. pc[c][a] = "upload" /\ Awaited(c, a) \subseteq landed /\ UNCHANGED <<call, len, landed>>
    BY <1>5 DEF ChunkDone, Returned, chainVars
  <2>2. /\ next[c][a] + ChunkSize \in Nat
        /\ \A t \in landed : t.call = c /\ t.acct = a /\ t.kind # "finalize" =>
             \/ t.kind \in {"init", "resize"}
             \/ t.kind = "upload" /\ t.i < next[c][a] + ChunkSize
    BY <1>1, <1>2, <2>1, ConstantsAssumption DEF Behind
  <2> QED BY <1>1, <1>5, <2>1, <2>2, EnterUploadKeepsOrder
<1>6. CASE \/ ChunkDone(c, a) /\ pc' = [pc EXCEPT ![c][a] = "done"] /\ UNCHANGED net
           \/ PartRejected(c, a)
  <2>1. /\ UNCHANGED <<len, net, landed, next>>
        /\ \A d \in Call, b \in Acct : d # c \/ b # a => pc'[d][b] = pc[d][b]
        /\ pc'[c][a] \in {"done", "failed"}
        /\ pc'[c][a] = "done" => Awaited(c, a) \subseteq landed
    BY <1>6 DEF ChunkDone, PartRejected, Returned, chainVars, EnterUpload, IInv, TypeOK
  <2>2. ASSUME NEW d \in Call, NEW b \in Parts(d), d # c \/ b # a
        PROVE  OrderInv!(d)!(b)'
    <3>1. b \in Acct
      BY DEF Parts
    <3> QED BY <1>1, <2>1, <2>2, <3>1, OtherPartKeepsOrder
  <2>3. OrderInv!(c)!(a)'
    <3>1. InFlight(c, a)' = InFlight(c, a)
      BY <2>1 DEF InFlight
    <3>2. Windowed(c, a)'
      BY <1>1, <3>1 DEF OrderInv, Windowed
    <3>3. pc'[c][a] = "done" => InFlight(c, a) = {}
      BY <1>1, <2>1 DEF OrderInv
    <3>4. \A t \in InFlight(c, a)' : t \notin landed' /\ pc'[c][a] \notin Active \cup {"done"}
      BY <1>1, <2>1, <3>1, <3>3 DEF OrderInv, Active
    <3>5. \A t \in (net \cup landed)' :
            t.call = c /\ t.acct = a /\ t.kind # "finalize" => Behind(t, c, a)'
      BY <2>1 DEF Behind
    <3> QED BY <3>2, <3>4, <3>5
  <2> QED BY <1>1, <2>2, <2>3 DEF OrderInv
<1> QED BY <1>3, <1>4, <1>5, <1>6 DEF ChunkDone

\* A call is made: its init transactions are new, and it has sent nothing else.
LEMMA UploadCircuitKeepsOrder ==
  ASSUME IInv, OrderInv, NEW c \in Call, NEW l \in Lengths, UploadCircuit(c, l)
  PROVE  OrderInv'
<1>1. /\ UNCHANGED <<pc, next, landed>>
      /\ \A d \in Call \ {c} : Parts(d)' = Parts(d) /\ len'[d] = len[d]
      /\ \A t \in net' : t \in net \/ \E b \in Parts(c)' : t = InitTx(c, b)
      /\ \A t \in net \cup landed : t.call # c
      /\ \A b \in Acct : pc[c][b] = "init"
  BY DEF UploadCircuit, chainVars, Parts, IInv, TypeOK, WellSent, PartProgress
<1>2. ASSUME NEW d \in Call, NEW b \in Parts(d)', d # c
      PROVE  OrderInv!(d)!(b)'
  BY <1>1, <1>2, OtherPartKeepsOrder DEF InitTx
<1>3. ASSUME NEW b \in Parts(c)'
      PROVE  OrderInv!(c)!(b)'
  <2>1. b \in Acct /\ pc'[c][b] = "init"
    BY <1>1 DEF Parts
  <2>2. \A t \in (net \cup landed)' :
          t.call = c /\ t.acct = b => t = InitTx(c, b) /\ t \notin landed'
    BY <1>1 DEF InitTx
  <2>3. Awaited(c, b)' = {InitTx(c, b)}
    BY <2>1 DEF Awaited, InitTx
  <2>4. InFlight(c, b)' \subseteq {InitTx(c, b)}
    BY <2>2 DEF InFlight
  <2>5. Windowed(c, b)'
    <3>1. \A u \in InFlight(c, b)' : u.kind = "init" /\ 0 <= u.i /\ u.i < 0 + ChunkSize
      BY <2>4, ConstantsAssumption DEF InitTx
    <3> QED BY <3>1 DEF Windowed, OneChunk
  <2>6. \A t \in (net \cup landed)' :
          t.call = c /\ t.acct = b /\ t.kind # "finalize" => Behind(t, c, b)'
    BY <2>1, <2>2 DEF Behind, InitTx
  <2>7. \A t \in InFlight(c, b)' : t \notin landed' /\ t \in Awaited(c, b)' /\ pc'[c][b] # "done"
    BY <2>1, <2>2, <2>3, <2>4 DEF InFlight
  <2> QED BY <2>5, <2>6, <2>7
<1> QED BY <1>2, <1>3 DEF OrderInv

\* Every step keeps the order.
LEMMA OrderInvNext ==
  ASSUME IInv, OrderInv, [Next]_vars
  PROVE  OrderInv'
<1>1. ASSUME UNCHANGED <<len, pc, next>>,
             \A t \in net' \cup landed' : t.kind # "finalize" => t \in net \cup landed,
             \A t \in net' : t.kind # "finalize" => t \in net /\ (t \in landed' => t \in landed)
      PROVE  OrderInv'
  <2>1. \A d \in Call : Parts(d)' = Parts(d)
    BY <1>1 DEF Parts
  <2>2. ASSUME NEW d \in Call, NEW b \in Parts(d)
        PROVE  OrderInv!(d)!(b)'
    BY <1>1, <2>1, OtherPartKeepsOrder
  <2> QED BY <2>1, <2>2 DEF OrderInv
<1>2. ASSUME NEW c \in Call, AllPartsDone(c) \/ Resolve(c) \/ FinalizeRejected(c)
      PROVE  OrderInv'
  BY <1>1, <1>2 DEF AllPartsDone, Resolve, FinalizeRejected, chainVars, FinalizeTx
<1>3. ASSUME NEW t \in net, Execute(t)
      PROVE  OrderInv'
  BY <1>1, <1>3, ExecuteKeepsClient DEF clientVars
<1>4. CASE UNCHANGED vars
  BY <1>1, <1>4 DEF vars
<1> QED
  BY <1>2, <1>3, <1>4, UploadCircuitKeepsOrder, PartStepKeepsOrder DEF Next, Proceed

\* A set of natural numbers that is not empty has a least one.
LEMMA LeastOfNat ==
  ASSUME NEW T, T \subseteq Nat, T # {}
  PROVE  \E i \in T : \A j \in T : i <= j
<1> DEFINE R == OpToRel(<, Nat)
<1>1. IsWellFoundedOn(R, Nat)
  BY NatLessThanWellFounded
<1>2. \A i, j \in Nat : <<j, i>> \in R <=> j < i
  BY DEF OpToRel
<1> HIDE DEF R
<1>3. PICK i \in T : \A j \in T : ~(<<j, i>> \in R)
  BY <1>1, WFMin
<1>4. \A j \in T : i \in Nat /\ j \in Nat /\ ~(j < i)
  BY <1>2, <1>3
<1> QED BY <1>4

\* A part never has two kinds of transactions in flight, nor more than chunkSize
\* upload transactions, also after it failed (the awaits of uploadToCircuitAcc).
THEOREM ChunksAwaitOneAnother == Spec => []ChunkBarrier
<1>1. Init => OrderInv
  <2>1. Init => \A c \in Call : \A a \in Parts(c) : Windowed(c, a)
    BY DEF Init, Windowed, OneChunk, InFlight
  <2> QED BY <2>1 DEF Init, OrderInv, InFlight
<1>2. IInv /\ OrderInv /\ [Next]_vars => OrderInv'
  BY OrderInvNext
<1>3. IInv /\ OrderInv => ChunkBarrier
  <2> SUFFICES ASSUME IInv, OrderInv, NEW c \in Call, NEW a \in Parts(c), InFlight(c, a) # {}
               PROVE  \E t \in InFlight(c, a) : \A u \in InFlight(c, a) :
                        u.kind = t.kind /\ t.i <= u.i /\ u.i < t.i + ChunkSize
    BY DEF ChunkBarrier, InFlight
  <2>1. PICK k \in {"init", "resize", "upload"}, i \in Nat : \A u \in InFlight(c, a) :
          u.kind = k /\ i <= u.i /\ u.i < i + ChunkSize
    BY DEF OrderInv, Windowed, OneChunk
  <2>2. \A u \in InFlight(c, a) : u.i \in Nat
    BY DEF IInv, TypeOK, Tx, InFlight
  <2> DEFINE T == {u.i : u \in InFlight(c, a)}
  <2>3. T \subseteq Nat /\ T # {}
    BY <2>2
  <2>4. PICK m \in T : \A j \in T : m <= j
    BY <2>3, LeastOfNat
  <2>5. PICK t \in InFlight(c, a) : t.i = m
    BY <2>4
  <2>6. \A u \in InFlight(c, a) : t.i <= u.i
    BY <2>4, <2>5
  <2> QED BY <2>1, <2>2, <2>6, ConstantsAssumption
<1> QED BY <1>1, <1>2, <1>3, Invariance, PTL DEF Spec

-----------------------------------------------------------------------------
\* CircuitUpload implements CircuitPublication.

\* A call that was made has a length it may be given, and only such a call owns
\* an account.
MadeInv ==
  /\ \A c \in Call : call[c] # "idle" => len[c] \in Lengths
  /\ \A a \in Acct : raw[a].owner # NoCall => call[raw[a].owner] # "idle"

\* A resize gives no account away.
LEMMA ResizeKeepsOwners ==
  ASSUME IInv, NEW t \in net, ExecuteResize(t)
  PROVE  \A a \in Acct : raw'[a].owner = raw[a].owner
<1> DEFINE growth == ReallocBytes * InstructionCount(PartLen(t.call, t.acct), t.i)
<1>1. raw' = raw \/ raw' = [raw EXCEPT ![t.acct].size = @ + growth]
  BY DEF ExecuteResize
<1> HIDE DEF growth
<1>2. CASE raw' = raw
  BY <1>2
<1>3. CASE raw' = [raw EXCEPT ![t.acct].size = @ + growth]
  BY <1>3 DEF IInv, TypeOK
<1> QED BY <1>1, <1>2, <1>3

LEMMA MadeInvNext ==
  ASSUME IInv, MadeInv, [Next]_vars
  PROVE  MadeInv'
<1>1. ASSUME NEW c \in Call, NEW l \in Lengths, UploadCircuit(c, l)
      PROVE  MadeInv'
  BY <1>1 DEF UploadCircuit, chainVars, MadeInv, IInv, TypeOK
<1>2. ASSUME NEW c \in Call, Proceed(c)
      PROVE  MadeInv'
  <2>1. /\ UNCHANGED <<len, raw>>
        /\ \A d \in Call : call'[d] # "idle" <=> call[d] # "idle"
    BY <1>2 DEF Proceed, InitDone, ResizeDone, ChunkDone, PartRejected, AllPartsDone, Resolve,
       FinalizeRejected, chainVars, IInv, TypeOK
  <2> QED BY <2>1, ConstantsAssumption DEF MadeInv, IInv, TypeOK
<1>3. ASSUME NEW t \in net, Execute(t)
      PROVE  MadeInv'
  <2>1. UNCHANGED <<call, len>> /\ t.call \in Call /\ call[t.call] # "idle"
    BY <1>3, ExecuteKeepsClient DEF clientVars, IInv, WellSent, TypeOK, Tx
  <2>2. \A a \in Acct : raw'[a].owner = raw[a].owner \/ raw'[a].owner = t.call
    <3>1. CASE ExecuteInit(t)
      BY <3>1 DEF ExecuteInit, IInv, TypeOK
    <3>2. CASE ExecuteResize(t)
      BY <3>2, ResizeKeepsOwners
    <3>3. CASE ExecuteUpload(t) \/ ExecuteFinalize(t)
      BY <3>3 DEF ExecuteUpload, ExecuteFinalize
    <3> QED BY <1>3, <3>1, <3>2, <3>3 DEF Execute
  <2> QED BY <2>1, <2>2 DEF MadeInv
<1>4. CASE UNCHANGED vars
  BY <1>4 DEF vars, MadeInv
<1> QED BY <1>1, <1>2, <1>3, <1>4 DEF Next

\* A part of a circuit of l bytes has at least one slot.
LEMMA SlotZero ==
  ASSUME NEW l \in Nat, NEW a \in Nat, a < NumAccounts(l)
  PROVE  0 \in 0 .. UploadTxCount(MinOf((a + 1) * BytesPerAccount, l) - a * BytesPerAccount) - 1
<1> DEFINE part == MinOf((a + 1) * BytesPerAccount, l) - a * BytesPerAccount
<1>1. a * BytesPerAccount < l
  BY CeilDivBelow, ConstantsAssumption DEF NumAccounts
<1>2. /\ a * BytesPerAccount \in Nat
      /\ (a + 1) * BytesPerAccount = a * BytesPerAccount + BytesPerAccount
  BY ConstantsAssumption, SMT
<1>3. part \in Nat \ {0}
  BY <1>1, <1>2, ConstantsAssumption DEF MinOf
<1> HIDE DEF part
<1>4. part + UploadBytes - 1 >= 0
  BY <1>3, ConstantsAssumption
<1>5. UploadTxCount(part) \in Nat /\ part <= UploadBytes * UploadTxCount(part)
  BY <1>3, <1>4, CeilDivCovers, ConstantsAssumption DEF UploadTxCount
<1>6. UploadTxCount(part) # 0
  BY <1>3, <1>5, ConstantsAssumption
<1> QED BY <1>5, <1>6 DEF part

\* A circuit that is not empty needs the first account.
LEMMA NeedsFirst ==
  ASSUME 0 \notin Lengths, IInv, MadeInv, NEW c \in Call, call[c] # "idle"
  PROVE  0 \in Parts(c)
<1>1. len[c] \in Nat \ {0} /\ NumAccounts(len[c]) <= MaxAccounts
  BY ConstantsAssumption DEF MadeInv
<1>2. /\ NumAccounts(len[c]) \in Nat
      /\ len[c] <= BytesPerAccount * NumAccounts(len[c])
  BY <1>1, CeilDivCovers, ConstantsAssumption DEF NumAccounts
<1>3. NumAccounts(len[c]) # 0
  BY <1>1, <1>2, ConstantsAssumption
<1> QED BY <1>1, <1>2, <1>3, ConstantsAssumption DEF Parts, Acct

\* The refinement mapping.
need == [c \in Call |-> Needed(c)]
holder == [a \in Acct |-> raw[a].owner]
filled == {p \in Call \X Acct : p[2] \in Needed(p[1]) /\ PartStored(p[1], p[2])}

\* A step that makes no call and stores nothing leaves need and filled alone.
LEMMA NothingStored ==
  ASSUME UNCHANGED <<len, stored>>,
         \A c \in Call : call'[c] = "idle" <=> call[c] = "idle"
  PROVE  UNCHANGED <<need, filled>>
<1>1. \A c \in Call : Needed(c)' = Needed(c)
  BY DEF Needed, Parts
<1>2. \A c \in Call, a \in Acct : PartStored(c, a)' = PartStored(c, a)
  BY DEF PartStored, PartLen
<1>3. filled' = filled
  BY <1>1, <1>2 DEF filled
<1> QED BY <1>1, <1>3 DEF need

\* If it gives no account away and publishes nothing either, it is a stutter.
LEMMA QuietStep ==
  ASSUME UNCHANGED <<len, raw, stored, published>>,
         \A c \in Call : call'[c] = "idle" <=> call[c] = "idle"
  PROVE  UNCHANGED <<need, holder, filled, published>>
<1>1. UNCHANGED <<need, filled>>
  BY NothingStored
<1> QED BY <1>1 DEF holder

\* A call announces the accounts its circuit needs.
LEMMA CallAnnounces ==
  ASSUME IInv, MadeInv, NEW c \in Call, NEW l \in Lengths, UploadCircuit(c, l)
  PROVE  \E accounts \in SUBSET Acct : Publication!Announce(c, accounts)
<1>1. /\ UNCHANGED <<raw, stored, published>>
      /\ call[c] = "idle" /\ call'[c] # "idle"
      /\ \A d \in Call \ {c} : call'[d] = call[d] /\ len'[d] = len[d]
      /\ len'[c] = l /\ len' \in [Call -> Lengths \cup {0}]
  BY DEF UploadCircuit, chainVars, IInv, TypeOK
<1>2. \A d \in Call \ {c} : Needed(d)' = Needed(d)
  BY <1>1 DEF Needed, Parts
<1>3. Needed(c) = {} /\ Needed(c)' = Parts(c)' /\ Parts(c)' \in SUBSET Acct
  BY <1>1 DEF Needed, Parts
<1>4. need[c] = {} /\ need' = [need EXCEPT ![c] = Parts(c)']
  BY <1>2, <1>3 DEF need
<1>5. \A d \in Call \ {c}, a \in Acct : PartStored(d, a)' = PartStored(d, a)
  BY <1>1 DEF PartStored, PartLen
<1>6. ASSUME NEW a \in Parts(c)'
      PROVE  ~PartStored(c, a)'
  <2>1. a \in Nat /\ a < NumAccounts(l) /\ l \in Nat /\ a \in Acct
    BY <1>1, ConstantsAssumption DEF Parts, Acct
  <2>2. 0 \in 0 .. UploadTxCount(PartLen(c, a)') - 1
    BY <1>1, <2>1, SlotZero DEF PartLen
  <2>3. <<a, 0, c>> \notin stored
    BY <1>1, ConstantsAssumption DEF MadeInv, IInv, SingleWriter, TypeOK
  <2> QED BY <1>1, <2>2, <2>3 DEF PartStored
<1>7. filled' = filled
  <2>1. \A d \in Call, a \in Acct :
          (a \in Needed(d) /\ PartStored(d, a))' <=> (a \in Needed(d) /\ PartStored(d, a))
    BY <1>2, <1>3, <1>5, <1>6
  <2> QED BY <2>1 DEF filled
<1>8. holder' = holder
  BY <1>1 DEF holder
<1> QED BY <1>1, <1>3, <1>4, <1>7, <1>8 DEF Publication!Announce, need, holder, filled

\* An init transaction claims its account, if the account is free.
LEMMA InitClaims ==
  ASSUME IInv, NEW t \in net, ExecuteInit(t)
  PROVE  \/ Publication!Claim(t.call, t.acct)
         \/ UNCHANGED <<need, holder, filled, published>>
<1>1. /\ UNCHANGED <<call, len, stored, published>>
      /\ t.call \in Call /\ call[t.call] # "idle" /\ t.acct \in Parts(t.call)
      /\ t.acct \in Acct
  BY DEF ExecuteInit, clientVars, IInv, WellSent, TypeOK, Tx, Parts
<1>2. CASE raw' = raw
  BY <1>1, <1>2, QuietStep
<1>3. CASE raw[t.acct].owner = NoCall
  <2>1. raw' = [raw EXCEPT ![t.acct] = [owner |-> t.call, size |-> InitBytes]]
    BY <1>3 DEF ExecuteInit
  <2>2. holder[t.acct] = NoCall /\ holder' = [holder EXCEPT ![t.acct] = t.call]
    BY <1>1, <1>3, <2>1 DEF holder, IInv, TypeOK
  <2>3. need' = need /\ filled' = filled
    BY <1>1, NothingStored
  <2>4. t.acct \in need[t.call]
    BY <1>1 DEF need, Needed
  <2> QED
    BY <1>1, <2>2, <2>3, <2>4 DEF Publication!Claim, need, holder, filled
<1> QED BY <1>2, <1>3 DEF ExecuteInit

\* An upload that lands spoils no other slot, and may fill the part of its call.
LEMMA UploadFills ==
  ASSUME IInv, NEW t \in net, ExecuteUpload(t)
  PROVE  \/ Publication!Fill(t.call, t.acct)
         \/ UNCHANGED <<need, holder, filled, published>>
<1>1. /\ UNCHANGED <<call, len, raw, published>>
      /\ t.call \in Call /\ call[t.call] # "idle" /\ t.acct \in Parts(t.call)
      /\ t.acct \in Acct /\ InitTx(t.call, t.acct) \in landed
  BY DEF ExecuteUpload, clientVars, IInv, WellSent, TypeOK, Tx, Parts
<1>2. raw[t.acct].owner = t.call
  BY <1>1 DEF IInv, InitOwns
<1>3. CASE stored' = stored
  BY <1>1, <1>3, QuietStep
<1>4. CASE stored' = {s \in stored : s[1] # t.acct \/ s[2] # t.i}
                       \cup {<<t.acct, t.i, t.call>>}
  <2>1. stored' = stored \cup {<<t.acct, t.i, t.call>>}
    <3>1. ASSUME NEW s \in stored, s[1] = t.acct, s[2] = t.i
          PROVE  s = <<t.acct, t.i, t.call>>
      <4>1. s[3] = t.call /\ s \in Acct \X Nat \X Call
        BY <1>2, <3>1 DEF IInv, SingleWriter, TypeOK
      <4> QED BY <3>1, <4>1
    <3> QED BY <1>4, <3>1
  <2>2. \A c \in Call : Needed(c)' = Needed(c)
    BY <1>1 DEF Needed, Parts
  <2>3. \A c \in Call, a \in Acct : PartLen(c, a)' = PartLen(c, a)
    BY <1>1 DEF PartLen
  <2>4. \A c \in Call, a \in Acct : PartStored(c, a) => PartStored(c, a)'
    BY <2>1, <2>3 DEF PartStored
  <2>5. \A c \in Call, a \in Acct : c # t.call \/ a # t.acct =>
          (PartStored(c, a)' => PartStored(c, a))
    BY <2>1, <2>3 DEF PartStored
  <2>6. \A p \in Call \X Acct : p # <<t.call, t.acct>> => (p \in filled' <=> p \in filled)
    BY <2>2, <2>4, <2>5 DEF filled
  <2>7. filled \subseteq filled' /\ filled \subseteq Call \X Acct /\ filled' \subseteq Call \X Acct
    BY <2>2, <2>4 DEF filled
  <2>8. filled' = filled \/ filled' = filled \cup {<<t.call, t.acct>>}
    BY <2>6, <2>7
  <2>9. need' = need /\ holder' = holder /\ holder[t.acct] = t.call
    BY <1>1, <1>2, <2>2 DEF need, holder
  <2> QED
    BY <1>1, <2>8, <2>9 DEF Publication!Fill, need, holder, filled
<1> QED BY <1>3, <1>4 DEF ExecuteUpload

\* The finalize transaction publishes, if nothing is published.
LEMMA FinalizePublishes ==
  ASSUME 0 \notin Lengths, IInv, MadeInv, NEW t \in net, ExecuteFinalize(t)
  PROVE  \/ Publication!Publish(t.call)
         \/ UNCHANGED <<need, holder, filled, published>>
<1>1. /\ UNCHANGED <<call, len, raw, stored>>
      /\ t.call \in Call /\ call[t.call] # "idle"
      /\ \A a \in Parts(t.call) : pc[t.call][a] = "done"
  BY DEF ExecuteFinalize, clientVars, IInv, WellSent, TypeOK, Tx
<1>2. CASE published' = published
  BY <1>1, <1>2, QuietStep
<1>3. CASE published = NoCall /\ published' = t.call
  <2>1. 0 \in Parts(t.call) /\ need[t.call] = Parts(t.call)
    BY <1>1, NeedsFirst DEF need, Needed
  <2>2. \A a \in Parts(t.call) : <<t.call, a>> \in filled
    <3>1. \A a \in Parts(t.call) : a \in Acct /\ PartStored(t.call, a)
      BY <1>1, DonePartsAreStored DEF CircuitStored, Parts
    <3> QED BY <1>1, <3>1 DEF filled, Needed
  <2>3. UNCHANGED <<need, filled>>
    BY <1>1, NothingStored
  <2>4. UNCHANGED holder
    BY <1>1 DEF holder
  <2> QED
    BY <1>3, <2>1, <2>2, <2>3, <2>4 DEF Publication!Publish, need, holder, filled
<1> QED BY <1>2, <1>3 DEF ExecuteFinalize

\* Every step is a step of CircuitPublication or leaves it alone.
LEMMA StepSimulation ==
  ASSUME 0 \notin Lengths, IInv, MadeInv, [Next]_vars
  PROVE  Publication!Next \/ UNCHANGED <<need, holder, filled, published>>
<1>1. ASSUME NEW c \in Call, NEW l \in Lengths, UploadCircuit(c, l)
      PROVE  Publication!Next
  BY <1>1, CallAnnounces DEF Publication!Next
<1>2. ASSUME NEW c \in Call, Proceed(c)
      PROVE  UNCHANGED <<need, holder, filled, published>>
  <2>1. /\ UNCHANGED <<len, raw, stored, published>>
        /\ \A d \in Call : call'[d] = "idle" <=> call[d] = "idle"
    BY <1>2 DEF Proceed, InitDone, ResizeDone, ChunkDone, PartRejected, AllPartsDone, Resolve,
       FinalizeRejected, chainVars, IInv, TypeOK
  <2> QED BY <2>1, QuietStep
<1>3. ASSUME NEW t \in net, Execute(t)
      PROVE  Publication!Next \/ UNCHANGED <<need, holder, filled, published>>
  <2>0. t.call \in Call /\ (t.kind # "finalize" => t.acct \in Acct)
    BY DEF IInv, WellSent, TypeOK, Tx, Parts
  <2>1. CASE ExecuteInit(t)
    BY <2>0, <2>1, InitClaims DEF ExecuteInit, Publication!Next
  <2>2. CASE ExecuteResize(t)
    <3>1. UNCHANGED <<call, len, stored, published>>
      BY <2>2 DEF ExecuteResize, clientVars
    <3>2. UNCHANGED <<need, filled>>
      BY <3>1, NothingStored
    <3>3. UNCHANGED holder
      BY <2>2, ResizeKeepsOwners DEF holder
    <3> QED BY <3>1, <3>2, <3>3
  <2>3. CASE ExecuteUpload(t)
    BY <2>0, <2>3, UploadFills DEF ExecuteUpload, Publication!Next
  <2>4. CASE ExecuteFinalize(t)
    BY <2>0, <2>4, FinalizePublishes DEF Publication!Next
  <2> QED BY <1>3, <2>1, <2>2, <2>3, <2>4 DEF Execute
<1>4. CASE UNCHANGED vars
  BY <1>4, QuietStep DEF vars
<1> QED BY <1>1, <1>2, <1>3, <1>4 DEF Next

\* Transactions in any order, orphaned coroutines and concurrent calls implement
\* the atomic publication, if no call is given an empty circuit (uploadCircuit
\* would finalize one without having uploaded anything).
THEOREM Implementation ==
  ASSUME 0 \notin Lengths
  PROVE  Spec => ImplementsPublication
<1>1. Init => Publication!Init /\ MadeInv
  BY DEF Init, MadeInv, Publication!Init, Needed, PartStored
<1>2. IInv /\ MadeInv /\ [Next]_vars => MadeInv'
  BY MadeInvNext
<1>3. IInv /\ MadeInv /\ [Next]_vars => [Publication!Next]_(Publication!vars)
  BY StepSimulation DEF Publication!vars, need, holder, filled
<1> QED BY <1>1, <1>2, <1>3, Invariance, PTL DEF Spec, ImplementsPublication, Publication!Spec
=============================================================================
