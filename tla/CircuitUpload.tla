---------------------------- MODULE CircuitUpload ----------------------------
(***************************************************************************)
(* uploadCircuit of kit-plugin-arcium: a circuit is cut in parts, one raw   *)
(* circuit account per part.  The parts are uploaded in parallel, each by a *)
(* coroutine (uploadToCircuitAcc) that initialises its account, resizes it  *)
(* with one transaction at a time, and uploads the bytes in chunks of       *)
(* parallel transactions.  When every part is done, one transaction         *)
(* finalizes the computation definition.                                    *)
(*                                                                          *)
(* A call is one invocation of uploadCircuit; several may run, because an   *)
(* application retries or because two processes upload the same circuit.    *)
(* A transaction that was sent may land at any later time, also after the   *)
(* client gave up on it; nothing else is assumed of the network.            *)
(***************************************************************************)
EXTENDS Integers

CONSTANTS
  Call,             \* invocations of uploadCircuit
  NoCall,           \* the owner of an account nobody initialised
  Lengths,          \* circuit sizes a call may be given, in bytes
  MaxAccounts,      \* raw circuit indices are 0 .. MaxAccounts - 1 (a u8 on the wire)
  BytesPerAccount,  \* MAX_ACCOUNT_SIZE - 9
  ReallocBytes,     \* MAX_REALLOC_PER_IX
  EmbiggenPerTx,    \* MAX_EMBIGGEN_IX_PER_TX
  UploadBytes,      \* MAX_UPLOAD_PER_TX_BYTES
  ChunkSize,        \* the parameter chunkSize
  InitBytes         \* circuit bytes an account holds once initialised (external)

\* Math.ceil(x / y) for integers x and y > 0.
CeilDiv(x, y) == (x + y - 1) \div y

\* The least of two numbers (Math.min).
MinOf(x, y) == IF x < y THEN x ELSE y

Acct == 0 .. MaxAccounts - 1

\* numAccounts of a circuit of l bytes.
NumAccounts(l) == CeilDiv(l, BytesPerAccount)

ASSUME ConstantsAssumption ==
  /\ NoCall \notin Call
  /\ Lengths \subseteq Nat
  /\ MaxAccounts \in Nat
  /\ BytesPerAccount \in Nat \ {0}
  /\ ReallocBytes \in Nat \ {0}
  /\ EmbiggenPerTx \in Nat \ {0}
  /\ UploadBytes \in Nat \ {0}
  /\ ChunkSize \in Nat \ {0}
  /\ InitBytes \in Nat
  /\ \A l \in Lengths : NumAccounts(l) <= MaxAccounts

VARIABLES
  call,       \* call[c]: where the body of uploadCircuit is
  len,        \* len[c]: rawCircuit.length of call c
  pc,         \* pc[c][a]: where the coroutine of part a is
  next,       \* next[c][a]: its loop variable i, of the resize or the upload loop
  net,        \* transactions sent that the cluster has not executed
  landed,     \* transactions executed with success
  raw,        \* raw[a]: the raw circuit account of index a: who initialised it, its size
  stored,     \* <<a, k, c>>: slot k of account a holds the bytes call c uploaded
  published   \* the call that finalized the computation definition, or NoCall

clientVars == <<call, len, pc, next>>
chainVars == <<landed, raw, stored, published>>
vars == <<call, len, pc, next, net, landed, raw, stored, published>>

-----------------------------------------------------------------------------
\* The arithmetic of the parts and of the two loops.

\* The indices i for which uploadCircuit starts a coroutine.
Parts(c) == {a \in Acct : a < NumAccounts(len[c])}

\* rawCircuitPart.length of part a.
PartLen(c, a) ==
  MinOf((a + 1) * BytesPerAccount, len[c]) - a * BytesPerAccount

ResizeTxCount(l) == CeilDiv(l, ReallocBytes * EmbiggenPerTx)

\* Mutant of InstructionCount: the division rounds down.
InstructionCountFloor(l, i) ==
  MinOf(l - (ReallocBytes + i * (ReallocBytes * EmbiggenPerTx)),
        EmbiggenPerTx * ReallocBytes) \div ReallocBytes

\* Embiggen instructions in resize transaction i; none when currentSize has
\* passed the length already.
InstructionCount(l, i) ==
  LET currentSize == ReallocBytes + i * (ReallocBytes * EmbiggenPerTx)
      resizeSize == MinOf(l - currentSize, EmbiggenPerTx * ReallocBytes)
  IN  CeilDiv(resizeSize, ReallocBytes)

UploadTxCount(l) == CeilDiv(l, UploadBytes)

\* The slots one chunk of upload transactions covers.
ChunkSlots(l, i) == {k \in i .. i + ChunkSize - 1 : k < UploadTxCount(l)}

\* uploadData.length of slot k: a full slice but for the last.
SliceLen(l, k) == MinOf((k + 1) * UploadBytes, l) - k * UploadBytes

-----------------------------------------------------------------------------
\* The transactions.

InitTx(c, a) == [kind |-> "init", call |-> c, acct |-> a, i |-> 0]
ResizeTx(c, a, i) == [kind |-> "resize", call |-> c, acct |-> a, i |-> i]
UploadTx(c, a, k) == [kind |-> "upload", call |-> c, acct |-> a, i |-> k]
FinalizeTx(c) == [kind |-> "finalize", call |-> c, acct |-> 0, i |-> 0]

Tx == [kind : {"init", "resize", "upload", "finalize"},
       call : Call, acct : Nat, i : Nat]

\* What the coroutine of part a awaits.
Awaited(c, a) ==
  CASE pc[c][a] = "init"   -> {InitTx(c, a)}
    [] pc[c][a] = "resize" -> {ResizeTx(c, a, next[c][a])}
    [] pc[c][a] = "upload" ->
         {UploadTx(c, a, k) : k \in ChunkSlots(PartLen(c, a), next[c][a])}
    [] OTHER -> {}

Active == {"init", "resize", "upload"}

-----------------------------------------------------------------------------
Init ==
  /\ call = [c \in Call |-> "idle"]
  /\ len = [c \in Call |-> 0]
  /\ pc = [c \in Call |-> [a \in Acct |-> "init"]]
  /\ next = [c \in Call |-> [a \in Acct |-> 0]]
  /\ net = {}
  /\ landed = {}
  /\ raw = [a \in Acct |-> [owner |-> NoCall, size |-> 0]]
  /\ stored = {}
  /\ published = NoCall

\* uploadCircuit is called with l bytes: every coroutine starts and sends its
\* init transaction before the first await returns.
UploadCircuit(c, l) ==
  /\ call[c] = "idle"
  /\ call' = [call EXCEPT ![c] = "uploading"]
  /\ len' = [len EXCEPT ![c] = l]
  /\ net' = net \cup {InitTx(c, a) : a \in {b \in Acct : b < NumAccounts(l)}}
  /\ UNCHANGED <<pc, next, chainVars>>

\* One more turn of the resize loop: send resize transaction i and await it.
EnterResize(c, a, i) ==
  /\ pc' = [pc EXCEPT ![c][a] = "resize"]
  /\ next' = [next EXCEPT ![c][a] = i]
  /\ net' = net \cup {ResizeTx(c, a, i)}

\* Mutant of EnterUpload: the loop variable is a chunk behind.
EnterUploadBehind(c, a, i) ==
  /\ pc' = [pc EXCEPT ![c][a] = "upload"]
  /\ next' = [next EXCEPT ![c][a] = i - ChunkSize]
  /\ net' = net \cup {UploadTx(c, a, k) : k \in ChunkSlots(PartLen(c, a), i)}

\* One more turn of the upload loop: send the chunk at i and await all of it.
EnterUpload(c, a, i) ==
  /\ pc' = [pc EXCEPT ![c][a] = "upload"]
  /\ next' = [next EXCEPT ![c][a] = i]
  /\ net' = net \cup {UploadTx(c, a, k) : k \in ChunkSlots(PartLen(c, a), i)}

\* The await on stage s of part a returns: its transactions have all landed.
Returned(c, a, s) ==
  /\ call[c] # "idle"
  /\ a \in Parts(c)
  /\ pc[c][a] = s
  /\ Awaited(c, a) \subseteq landed

\* Mutant of InitDone: the init transaction is sent and not awaited.
InitNotAwaited(c, a) ==
  /\ call[c] # "idle"
  /\ a \in Parts(c)
  /\ pc[c][a] = "init"
  /\ IF PartLen(c, a) > ReallocBytes
       THEN EnterResize(c, a, 0)
       ELSE EnterUpload(c, a, 0)
  /\ UNCHANGED <<call, len, chainVars>>

\* The account exists; only a part longer than one reallocation is resized.
InitDone(c, a) ==
  /\ Returned(c, a, "init")
  /\ IF PartLen(c, a) > ReallocBytes
       THEN EnterResize(c, a, 0)
       ELSE EnterUpload(c, a, 0)
  /\ UNCHANGED <<call, len, chainVars>>

ResizeDone(c, a) ==
  /\ Returned(c, a, "resize")
  /\ IF next[c][a] + 1 < ResizeTxCount(PartLen(c, a))
       THEN EnterResize(c, a, next[c][a] + 1)
       ELSE EnterUpload(c, a, 0)
  /\ UNCHANGED <<call, len, chainVars>>

\* Mutant of ChunkDone: the chunks are sent without awaiting one another.
ChunkNotAwaited(c, a) ==
  /\ call[c] # "idle"
  /\ a \in Parts(c)
  /\ pc[c][a] = "upload"
  /\ IF next[c][a] + ChunkSize < UploadTxCount(PartLen(c, a))
       THEN EnterUpload(c, a, next[c][a] + ChunkSize)
       ELSE /\ pc' = [pc EXCEPT ![c][a] = "done"]
            /\ UNCHANGED <<next, net>>
  /\ UNCHANGED <<call, len, chainVars>>

\* Mutant of ChunkDone: the upload loop stops one transaction short.
ChunkLoopShort(c, a) ==
  /\ Returned(c, a, "upload")
  /\ IF next[c][a] + ChunkSize < UploadTxCount(PartLen(c, a)) - 1
       THEN EnterUpload(c, a, next[c][a] + ChunkSize)
       ELSE /\ pc' = [pc EXCEPT ![c][a] = "done"]
            /\ UNCHANGED <<next, net>>
  /\ UNCHANGED <<call, len, chainVars>>

ChunkDone(c, a) ==
  /\ Returned(c, a, "upload")
  /\ IF next[c][a] + ChunkSize < UploadTxCount(PartLen(c, a))
       THEN EnterUpload(c, a, next[c][a] + ChunkSize)
       ELSE /\ pc' = [pc EXCEPT ![c][a] = "done"]
            /\ UNCHANGED <<next, net>>
  /\ UNCHANGED <<call, len, chainVars>>

\* Mutant of PartRejected: the error ends the coroutine and nobody hears of it.
PartSilent(c, a) ==
  /\ call[c] # "idle"
  /\ a \in Parts(c)
  /\ pc[c][a] \in Active
  /\ pc' = [pc EXCEPT ![c][a] = "failed"]
  /\ UNCHANGED <<call, len, next, net, chainVars>>

\* An awaited transaction is reported as failed (an error on chain, an expired
\* blockhash, a lost connection): the coroutine rejects, and with it the
\* Promise.all of the call, at once.  The other coroutines go on.
PartRejected(c, a) ==
  /\ call[c] # "idle"
  /\ a \in Parts(c)
  /\ pc[c][a] \in Active
  /\ pc' = [pc EXCEPT ![c][a] = "failed"]
  /\ call' = [call EXCEPT ![c] = "rejected"]
  /\ UNCHANGED <<len, next, net, chainVars>>

\* Mutant of AllPartsDone: Promise.race in place of Promise.all.
AnyPartDone(c) ==
  /\ call[c] = "uploading"
  /\ \E a \in Parts(c) : pc[c][a] = "done"
  /\ call' = [call EXCEPT ![c] = "finalizing"]
  /\ net' = net \cup {FinalizeTx(c)}
  /\ UNCHANGED <<len, pc, next, chainVars>>

\* Mutant of AllPartsDone: Promise.allSettled in place of Promise.all.
AllPartsSettled(c) ==
  /\ call[c] \in {"uploading", "rejected"}
  /\ \A a \in Parts(c) : pc[c][a] \in {"done", "failed"}
  /\ call' = [call EXCEPT ![c] = "finalizing"]
  /\ net' = net \cup {FinalizeTx(c)}
  /\ UNCHANGED <<len, pc, next, chainVars>>

\* Promise.all over the parts fulfils: the finalize transaction is sent.
AllPartsDone(c) ==
  /\ call[c] = "uploading"
  /\ \A a \in Parts(c) : pc[c][a] = "done"
  /\ call' = [call EXCEPT ![c] = "finalizing"]
  /\ net' = net \cup {FinalizeTx(c)}
  /\ UNCHANGED <<len, pc, next, chainVars>>

\* Mutant of Resolve: the finalize transaction is sent and not awaited.
ResolveUnconfirmed(c) ==
  /\ call[c] = "finalizing"
  /\ call' = [call EXCEPT ![c] = "resolved"]
  /\ UNCHANGED <<len, pc, next, net, chainVars>>

\* uploadCircuit returns its signatures.
Resolve(c) ==
  /\ call[c] = "finalizing"
  /\ FinalizeTx(c) \in landed
  /\ call' = [call EXCEPT ![c] = "resolved"]
  /\ UNCHANGED <<len, pc, next, net, chainVars>>

\* The finalize transaction is reported as failed.
FinalizeRejected(c) ==
  /\ call[c] = "finalizing"
  /\ call' = [call EXCEPT ![c] = "rejected"]
  /\ UNCHANGED <<len, pc, next, net, chainVars>>

-----------------------------------------------------------------------------
\* The cluster executes a transaction in flight, once and in any order: it
\* lands, or it fails on chain and changes nothing.

\* init_raw_circuit_acc creates the account, and fails when it exists.
ExecuteInit(t) ==
  /\ t.kind = "init"
  /\ net' = net \ {t}
  /\ IF raw[t.acct].owner = NoCall
       THEN /\ raw' = [raw EXCEPT ![t.acct] = [owner |-> t.call, size |-> InitBytes]]
            /\ landed' = landed \cup {t}
       ELSE UNCHANGED <<raw, landed>>
  /\ UNCHANGED <<clientVars, stored, published>>

\* Each embiggen_raw_circuit_acc grows the account by one reallocation.
ExecuteResize(t) ==
  /\ t.kind = "resize"
  /\ net' = net \ {t}
  /\ IF raw[t.acct].owner # NoCall
       THEN /\ raw' = [raw EXCEPT ![t.acct].size = @ +
                ReallocBytes * InstructionCount(PartLen(t.call, t.acct), t.i)]
            /\ landed' = landed \cup {t}
       ELSE UNCHANGED <<raw, landed>>
  /\ UNCHANGED <<clientVars, stored, published>>

\* upload_circuit writes one slot, which must lie inside the account.
ExecuteUpload(t) ==
  /\ t.kind = "upload"
  /\ net' = net \ {t}
  /\ IF /\ raw[t.acct].owner # NoCall
        /\ t.i * UploadBytes + SliceLen(PartLen(t.call, t.acct), t.i) <= raw[t.acct].size
       THEN /\ stored' = {s \in stored : s[1] # t.acct \/ s[2] # t.i}
                           \cup {<<t.acct, t.i, t.call>>}
            /\ landed' = landed \cup {t}
       ELSE UNCHANGED <<stored, landed>>
  /\ UNCHANGED <<clientVars, raw, published>>

\* finalize_computation_definition needs the first raw circuit account and
\* completes the definition once.
ExecuteFinalize(t) ==
  /\ t.kind = "finalize"
  /\ net' = net \ {t}
  /\ IF published = NoCall /\ \E a \in Acct : a = 0 /\ raw[a].owner # NoCall
       THEN /\ published' = t.call
            /\ landed' = landed \cup {t}
       ELSE UNCHANGED <<published, landed>>
  /\ UNCHANGED <<clientVars, raw, stored>>

-----------------------------------------------------------------------------
Execute(t) ==
  ExecuteInit(t) \/ ExecuteResize(t) \/ ExecuteUpload(t) \/ ExecuteFinalize(t)

\* The steps of the coroutines of call c and of its own body once it was made.
Proceed(c) ==
  \/ \E a \in Acct : \/ InitDone(c, a)
                     \/ ResizeDone(c, a)
                     \/ ChunkDone(c, a)
                     \/ PartRejected(c, a)
  \/ AllPartsDone(c)
  \/ Resolve(c)
  \/ FinalizeRejected(c)

Next ==
  \/ \E c \in Call, l \in Lengths : UploadCircuit(c, l)
  \/ \E c \in Call : Proceed(c)
  \/ \E t \in net : Execute(t)

\* Every await returns: sendTransactionFromInstructions fulfils once the
\* transaction is confirmed and rejects once its blockhash expired.  Nothing
\* is assumed of the cluster: a transaction may never land.
Spec == Init /\ [][Next]_vars /\ \A c \in Call : WF_vars(Proceed(c))

-----------------------------------------------------------------------------
\* Properties.

TypeOK ==
  /\ call \in [Call -> {"idle", "uploading", "finalizing", "resolved", "rejected"}]
  /\ len \in [Call -> Lengths \cup {0}]
  /\ pc \in [Call -> [Acct -> Active \cup {"done", "failed"}]]
  /\ next \in [Call -> [Acct -> Nat]]
  /\ net \subseteq Tx
  /\ landed \subseteq Tx
  /\ raw \in [Acct -> [owner : Call \cup {NoCall}, size : Nat]]
  /\ stored \subseteq Acct \X Nat \X Call
  /\ published \in Call \cup {NoCall}

\* Account a holds the bytes of call c in every slot of its part.
PartStored(c, a) ==
  \A k \in 0 .. UploadTxCount(PartLen(c, a)) - 1 : <<a, k, c>> \in stored

\* Every byte of call c's circuit is on chain.
CircuitStored(c) == \A a \in Parts(c) : PartStored(c, a)

\* A finalized computation definition is backed by the whole circuit of the one
\* call that finalized it, whatever retried, rejected or orphaned calls sent
\* before and send afterwards (uploadCircuit's Promise.all before finalize).
PublishedIsComplete == published # NoCall => CircuitStored(published)

\* When uploadCircuit returns its signatures, the definition is finalized by
\* this call and its circuit is on chain.
ResolvedIsPublished ==
  \A c \in Call : call[c] = "resolved" => published = c /\ CircuitStored(c)

\* The bytes of one raw circuit account come from one call: the parallel
\* coroutines of two calls on the same circuit never mix their bytes, because
\* a coroutine uploads only after its own init transaction landed.
SingleWriter ==
  \A s \in stored : s[3] = raw[s[1]].owner

\* Every upload transaction in flight fits the account: the resize loop has
\* grown it to the length of the part before the first chunk is sent.
UploadFits ==
  \A t \in net : t.kind = "upload" => PartLen(t.call, t.acct) <= raw[t.acct].size

\* No more than chunkSize upload transactions of a part are in flight, and no
\* upload together with an init or resize of the same part.
ChunkBarrier ==
  \A c \in Call : \A a \in Parts(c) :
    LET mine == {t \in net : t.call = c /\ t.acct = a /\ t.kind # "finalize"}
    IN  mine # {} => \E t \in mine : \A u \in mine :
          u.kind = t.kind /\ t.i <= u.i /\ u.i < t.i + ChunkSize

\* Once a part of a call has failed the call never finalizes: no later step
\* sends its finalize transaction, although its other coroutines go on.
NoFinalizeAfterFailure ==
  [][\A c \in Call : (\E a \in Parts(c) : pc[c][a] = "failed")
        => FinalizeTx(c) \notin net' \ net]_vars

\* A call that was made fulfils or rejects.
EveryCallSettles ==
  \A c \in Call : call[c] = "uploading" ~> call[c] \in {"resolved", "rejected"}

\* The accounts a call needs, once it was made.
Needed(c) == IF call[c] = "idle" THEN {} ELSE Parts(c)

Publication == INSTANCE CircuitPublication WITH
  need <- [c \in Call |-> Needed(c)],
  holder <- [a \in Acct |-> raw[a].owner],
  filled <- {p \in Call \X Acct : p[2] \in Needed(p[1]) /\ PartStored(p[1], p[2])}

\* Transactions in any order, loops, orphans and retries implement the atomic
\* publication: an account keeps its holder, a filled account is never spoilt,
\* and finalizing is the one step that publishes.
ImplementsPublication == Publication!Spec

-----------------------------------------------------------------------------
\* The inductive invariant behind the safety properties.

\* A transaction was sent by a call that was made, for one of its parts; a
\* resize or an upload only after the init of its own coroutine landed, the
\* finalize only after every part was done.
WellSent ==
  \A t \in net \cup landed :
    /\ call[t.call] # "idle"
    /\ t.kind # "finalize" => t.acct \in Parts(t.call)
    /\ t.kind \in {"resize", "upload"} => InitTx(t.call, t.acct) \in landed
    /\ t.kind = "resize" => t.i < ResizeTxCount(PartLen(t.call, t.acct))
    /\ t.kind \in {"init", "finalize"} => t.i = 0
    /\ t.kind = "finalize" => /\ t.acct = 0
                              /\ \A a \in Parts(t.call) : pc[t.call][a] = "done"

\* A coroutine whose init landed owns its account.
InitOwns ==
  \A c \in Call, a \in Acct : InitTx(c, a) \in landed => raw[a].owner = c

\* What an upload that landed wrote is still there.
UploadsKept ==
  \A t \in landed : t.kind = "upload" => <<t.acct, t.i, t.call>> \in stored

\* What a coroutine knows to have landed.
PartProgress ==
  \A c \in Call :
    /\ call[c] = "idle" => \A a \in Acct : pc[c][a] = "init"
    /\ \A a \in Parts(c) :
         /\ pc[c][a] \in {"resize", "upload", "done"} => InitTx(c, a) \in landed
         /\ pc[c][a] = "resize" => next[c][a] < ResizeTxCount(PartLen(c, a))
         /\ pc[c][a] \in {"upload", "done"} =>
              \A k \in 0 .. UploadTxCount(PartLen(c, a)) - 1 :
                pc[c][a] = "done" \/ k < next[c][a] => UploadTx(c, a, k) \in landed

\* Finalizing comes after every part, publishing after finalizing.
FinalizeLast ==
  /\ \A c \in Call : call[c] \in {"finalizing", "resolved"} =>
       \A a \in Parts(c) : pc[c][a] = "done"
  /\ \A c \in Call : call[c] = "resolved" => FinalizeTx(c) \in landed
  /\ published # NoCall => FinalizeTx(published) \in landed
  /\ \A c \in Call : FinalizeTx(c) \in landed => published = c

IInv ==
  /\ TypeOK
  /\ WellSent
  /\ InitOwns
  /\ SingleWriter
  /\ UploadsKept
  /\ PartProgress
  /\ FinalizeLast
=============================================================================
