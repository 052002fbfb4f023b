------------------------------ MODULE TaskQueue ------------------------------
(***************************************************************************)
(* Queueing and monitoring of tasks in kit-plugin-tuktuk-task-scheduler.    *)
(* A task queue is a fixed number of slots on chain.  queueTask and         *)
(* createCronJob read the queue, choose a free slot and send a transaction  *)
(* that claims it; a cranker runs a task and frees its slot; monitorTask    *)
(* polls a slot until its task is gone.                                     *)
(*                                                                          *)
(* A read is answered by a node of the RPC provider, which may be behind    *)
(* the one that confirmed the last transaction: the sequence chain holds    *)
(* the states a read can still see, up to the latest confirmed one.         *)
(***************************************************************************)
EXTENDS Integers, Sequences

CONSTANTS
  TaskCall,    \* invocations of queueTask
  CronCall,    \* invocations of createCronJob by one user, of distinct names
  Free,        \* the occupant of a free slot
  Capacity,    \* slots of the queue
  BitmapBits,  \* bits of its bitmap: Capacity rounded up to whole bytes (external)
  MaxLag,      \* bound: states a node may be behind (0: there is one node)
  MaxReads     \* bound: reads of one monitor that the node has not answered

Call == TaskCall \cup CronCall
Slot == 0 .. Capacity - 1

ASSUME ConstantsAssumption ==
  /\ TaskCall \cap CronCall = {}
  /\ Free \notin Call
  /\ Capacity \in Nat \ {0}
  /\ BitmapBits \in Nat
  /\ BitmapBits >= Capacity
  /\ MaxLag \in Nat
  /\ MaxReads \in Nat \ {0}

VARIABLES
  chain,    \* states of the queue that a read may see, the latest last
  net,      \* calls whose transaction was sent and not executed
  failed,   \* calls whose transaction failed on chain
  ran,      \* calls whose task a cranker has run
  state,    \* state[c]: where call c is
  cronId,   \* cronId[c]: nextCronJobId as createCronJob c read it
  taskId,   \* taskId[c]: the slot c chose
  mon,      \* mon[c]: the monitor of the task of c: off, polling or how it settled
  timer,    \* timer[c]: its interval is armed
  expired,  \* expired[c]: more than timeoutMs have passed since it started
  reads,    \* reads[c]: its getAccountInfo requests under way
  sure      \* sure[c]: every node had the task of c when its monitor started

chainVars == <<chain, failed, ran>>
callVars == <<state, cronId, taskId>>
monVars == <<mon, timer, expired, reads, sure>>
vars == <<chain, net, failed, ran, state, cronId, taskId, mon, timer, expired, reads, sure>>

Seen == {chain[i] : i \in 1 .. Len(chain)}
Confirmed == chain[Len(chain)]

\* The cluster confirms a new state; no node stays more than MaxLag behind.
Confirm(s) ==
  chain' = Append(IF Len(chain) > MaxLag THEN Tail(chain) ELSE chain, s)

-----------------------------------------------------------------------------
\* A bit of the bitmap; those beyond the capacity stay clear.
BitSet(slots, i) == i \in Slot /\ slots[i] # Free

\* Mutant of FreeBits: the scan runs one bit too far.
FreeBitsTooFar(slots) == {i \in 0 .. BitmapBits : ~BitSet(slots, i)}

FreeBits(slots) == {i \in 0 .. BitmapBits - 1 : ~BitSet(slots, i)}

NoTaskId == -1

\* The lowest clear bit of the bitmap, or null.
nextAvailableTaskId(slots) ==
  IF FreeBits(slots) = {} THEN NoTaskId
  ELSE CHOOSE i \in FreeBits(slots) : \A j \in FreeBits(slots) : i <= j

-----------------------------------------------------------------------------
Init ==
  /\ chain = << [slots |-> [i \in Slot |-> Free], nextCronJobId |-> 0] >>
  /\ net = {}
  /\ failed = {}
  /\ ran = {}
  /\ state = [c \in Call |-> "idle"]
  /\ cronId = [c \in Call |-> 0]
  /\ taskId = [c \in Call |-> NoTaskId]
  /\ mon = [c \in TaskCall |-> "off"]
  /\ timer = [c \in TaskCall |-> FALSE]
  /\ expired = [c \in TaskCall |-> FALSE]
  /\ reads = [c \in TaskCall |-> 0]
  /\ sure = [c \in TaskCall |-> FALSE]

\* The queue has been read: throw when it is full, else send the transaction.
ChooseSlot(c) == \E q \in Seen :
  LET id == nextAvailableTaskId(q.slots)
  IN  /\ IF id = NoTaskId
           THEN /\ state' = [state EXCEPT ![c] = "rejected"]
                /\ UNCHANGED <<taskId, net>>
           ELSE /\ state' = [state EXCEPT ![c] = "sent"]
                /\ taskId' = [taskId EXCEPT ![c] = id]
                /\ net' = net \cup {c}
      /\ UNCHANGED <<chainVars, monVars>>

queueTask(c) ==
  /\ c \in TaskCall
  /\ state[c] = "idle"
  /\ ChooseSlot(c)
  /\ UNCHANGED cronId

\* Mutant of createCronJob: nextCronJobId is taken for the last id given out.
createCronJobAfterNext(c) ==
  /\ c \in CronCall
  /\ state[c] = "idle"
  /\ state' = [state EXCEPT ![c] = "counted"]
  /\ \E q \in Seen : cronId' = [cronId EXCEPT ![c] = q.nextCronJobId + 1]
  /\ UNCHANGED <<net, taskId, chainVars, monVars>>

\* createCronJob awaits the user's next cron job id, then the queue.
createCronJob(c) ==
  /\ c \in CronCall
  /\ state[c] = "idle"
  /\ state' = [state EXCEPT ![c] = "counted"]
  /\ \E q \in Seen : cronId' = [cronId EXCEPT ![c] = q.nextCronJobId]
  /\ UNCHANGED <<net, taskId, chainVars, monVars>>

QueueRead(c) ==
  /\ state[c] = "counted"
  /\ ChooseSlot(c)
  /\ UNCHANGED cronId

\* Mutant of Sent: the call returns without waiting for its transaction.
SentUnconfirmed(c) ==
  /\ state[c] = "sent"
  /\ state' = [state EXCEPT ![c] = "queued"]
  /\ UNCHANGED <<net, cronId, taskId, chainVars, monVars>>

\* The transaction is confirmed: the call fulfils with the slot it chose.
Sent(c) ==
  /\ state[c] = "sent"
  /\ c \notin net \cup failed
  /\ state' = [state EXCEPT ![c] = "queued"]
  /\ UNCHANGED <<net, cronId, taskId, chainVars, monVars>>

\* The first read of a call, or the second of createCronJob, fails.
ReadFailed(c) ==
  /\ state[c] \in {"idle", "counted"}
  /\ state' = [state EXCEPT ![c] = "rejected"]
  /\ UNCHANGED <<net, cronId, taskId, chainVars, monVars>>

\* The transaction is reported as failed; it may have landed, or may land later.
Rejected(c) ==
  /\ state[c] = "sent"
  /\ state' = [state EXCEPT ![c] = "rejected"]
  /\ UNCHANGED <<net, cronId, taskId, chainVars, monVars>>

-----------------------------------------------------------------------------
\* The cluster and the crankers.

\* The program accepts a slot that exists and is free, and for a cron job only
\* the next id of the user.
Acceptable(c) ==
  /\ taskId[c] \in Slot
  /\ Confirmed.slots[taskId[c]] = Free
  /\ c \in CronCall => cronId[c] = Confirmed.nextCronJobId

Execute(c) ==
  /\ c \in net
  /\ net' = net \ {c}
  /\ IF Acceptable(c)
       THEN /\ Confirm(
                 [slots |-> [Confirmed.slots EXCEPT ![taskId[c]] = c],
                  nextCronJobId |-> IF c \in CronCall THEN cronId[c] + 1
                                    ELSE Confirmed.nextCronJobId])
            /\ UNCHANGED failed
       ELSE /\ failed' = failed \cup {c}
            /\ UNCHANGED chain
  /\ UNCHANGED <<ran, callVars, monVars>>

\* A cranker runs the task in slot i and closes its account.
RunTask(i) ==
  /\ Confirmed.slots[i] # Free
  /\ ran' = ran \cup {Confirmed.slots[i]}
  /\ Confirm([Confirmed EXCEPT !.slots[i] = Free])
  /\ UNCHANGED <<net, failed, callVars, monVars>>

\* The nodes that are furthest behind catch up by a state.
CatchUp ==
  /\ Len(chain) > 1
  /\ chain' = Tail(chain)
  /\ UNCHANGED <<net, failed, ran, callVars, monVars>>

-----------------------------------------------------------------------------
\* monitorTask, called with the address that queueTask returned.

monitorTask(c) ==
  /\ state[c] = "queued"
  /\ mon[c] = "off"
  /\ mon' = [mon EXCEPT ![c] = "polling"]
  /\ timer' = [timer EXCEPT ![c] = TRUE]
  /\ sure' = [sure EXCEPT ![c] = 
       c \in ran \/ \A q \in Seen : q.slots[taskId[c]] = c]
  /\ UNCHANGED <<net, expired, reads, chainVars, callVars>>

\* clearInterval and resolve; only the first resolve of a promise counts.
Settle(c, how) ==
  /\ mon' = IF mon[c] = "polling" THEN [mon EXCEPT ![c] = how] ELSE mon
  /\ timer' = [timer EXCEPT ![c] = FALSE]

\* Mutant of Tick: a tick waits for the answer to the one before.
TickInTurn(c) ==
  /\ timer[c]
  /\ reads[c] = 0
  /\ IF expired[c]
       THEN Settle(c, "timedOut") /\ UNCHANGED reads
       ELSE /\ reads[c] < MaxReads
            /\ reads' = [reads EXCEPT ![c] = @ + 1]
            /\ UNCHANGED <<mon, timer>>
  /\ UNCHANGED <<net, expired, sure, chainVars, callVars>>

\* Mutant of Tick: the timeout resolves with true.
TickTimeoutTrue(c) ==
  /\ timer[c]
  /\ IF expired[c]
       THEN Settle(c, "gone") /\ UNCHANGED reads
       ELSE /\ reads[c] < MaxReads
            /\ reads' = [reads EXCEPT ![c] = @ + 1]
            /\ UNCHANGED <<mon, timer>>
  /\ UNCHANGED <<net, expired, sure, chainVars, callVars>>

\* The interval fires, whether or not earlier requests were answered.
Tick(c) ==
  /\ timer[c]
  /\ IF expired[c]
       THEN Settle(c, "timedOut") /\ UNCHANGED reads
       ELSE /\ reads[c] < MaxReads
            /\ reads' = [reads EXCEPT ![c] = @ + 1]
            /\ UNCHANGED <<mon, timer>>
  /\ UNCHANGED <<net, expired, sure, chainVars, callVars>>

\* An answer: true when the account does not exist, else keep polling.  (An
\* answer on the way too long finds the promise settled and changes nothing.)
Answer(c) ==
  /\ reads[c] > 0
  /\ reads' = [reads EXCEPT ![c] = @ - 1]
  /\ \E q \in Seen :
       IF q.slots[taskId[c]] = Free
         THEN Settle(c, "gone")
         ELSE UNCHANGED <<mon, timer>>
  /\ UNCHANGED <<net, expired, sure, chainVars, callVars>>

\* A request fails: the catch resolves with true as well.
ReadError(c) ==
  /\ reads[c] > 0
  /\ reads' = [reads EXCEPT ![c] = @ - 1]
  /\ Settle(c, "error")
  /\ UNCHANGED <<net, expired, sure, chainVars, callVars>>

Expire(c) ==
  /\ mon[c] = "polling"
  /\ ~expired[c]
  /\ expired' = [expired EXCEPT ![c] = TRUE]
  /\ UNCHANGED <<net, mon, timer, reads, sure, chainVars, callVars>>

-----------------------------------------------------------------------------
Next ==
  \/ \E c \in Call : \/ queueTask(c)
                     \/ createCronJob(c)
                     \/ QueueRead(c)
                     \/ ReadFailed(c)
                     \/ Sent(c)
                     \/ Rejected(c)
                     \/ Execute(c)
  \/ \E i \in Slot : RunTask(i)
  \/ CatchUp
  \/ \E c \in TaskCall : \/ monitorTask(c)
                         \/ Tick(c)
                         \/ Answer(c)
                         \/ ReadError(c)
                         \/ Expire(c)

\* Time passes and the interval fires; nothing is assumed of the cluster, the
\* crankers, or the answers to the monitor's requests.
Fairness == \A c \in TaskCall : WF_vars(Tick(c)) /\ WF_vars(Expire(c))

Spec == Init /\ [][Next]_vars /\ Fairness

-----------------------------------------------------------------------------
\* Properties.

ChainState == [slots : [Slot -> Call \cup {Free}], nextCronJobId : Nat]

TypeOK ==
  /\ chain \in Seq(ChainState)
  /\ chain # << >>
  /\ net \subseteq Call
  /\ failed \subseteq Call
  /\ ran \subseteq Call
  /\ state \in [Call -> {"idle", "counted", "sent", "queued", "rejected"}]
  /\ cronId \in [Call -> Nat]
  /\ taskId \in [Call -> {NoTaskId} \cup 0 .. BitmapBits - 1]
  /\ mon \in [TaskCall -> {"off", "polling", "gone", "error", "timedOut"}]
  /\ timer \in [TaskCall -> BOOLEAN]
  /\ expired \in [TaskCall -> BOOLEAN]
  /\ reads \in [TaskCall -> 0 .. MaxReads]
  /\ sure \in [TaskCall -> BOOLEAN]

\* A call that fulfilled owns the slot it returned until its task has run,
\* whatever the other callers chose from their equally stale reads of the
\* bitmap (queueTask returns taskId and taskAddress after the send).
QueuedIsPlaced ==
  \A c \in Call : state[c] = "queued" =>
    c \in ran \/ (taskId[c] \in Slot /\ Confirmed.slots[taskId[c]] = c)

\* A transaction that asks for a slot of the queue fails on chain only when
\* another call took the same slot or, between cron jobs, the same id: somebody
\* wins every race between callers that read the same bitmap, in a queue with
\* more bits than slots as well (tuktuk-client.ts:152).  A call that is offered
\* a slot beyond the last one has lost to nobody: OfferedSlotExists is about it.
LoserHasWinner ==
  \A c \in failed : taskId[c] \in Slot =>
    \E d \in Call \ {c} :
      /\ d \in ran \/ \E i \in Slot : Confirmed.slots[i] = d
      /\ \/ taskId[d] = taskId[c]
         \/ {c, d} \subseteq CronCall /\ cronId[d] = cronId[c]

\* When every node had the task as monitorTask started, an answer that the
\* account is gone means that the task has run, even if other tasks came before
\* and after it in the same slot.
SureIsRun ==
  \A c \in TaskCall : sure[c] /\ mon[c] = "gone" => c \in ran

\* Every monitor settles, even when the node never answers a request: the
\* timeout is tested before the request is sent and ticks do not wait.
EveryMonitorSettles ==
  \A c \in TaskCall : mon[c] = "polling" ~> mon[c] # "polling"

\* The slot a caller asks for exists: a full queue is reported by "No available
\* task slots in queue" and not by a transaction that cannot succeed.
OfferedSlotExists ==
  \A c \in net : taskId[c] \in Slot
=============================================================================
