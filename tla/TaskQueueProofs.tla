--------------------------- MODULE TaskQueueProofs ---------------------------
(***************************************************************************)
(* Theorems about TaskQueue, for every set of calls, every capacity and     *)
(* bitmap, and nodes that are behind by any number of states.               *)
(***************************************************************************)
EXTENDS TaskQueue, WellFoundedInduction, TLAPS

-----------------------------------------------------------------------------
\* The inductive invariant.

\* The slot that call c chose holds its task.
Placed(c) == taskId[c] \in Slot /\ Confirmed.slots[taskId[c]] = c

\* The transaction of c was executed and accepted.
Landed(c) == c \in ran \/ Placed(c)

\* A call that has chosen nothing has nothing on the way.
Unsent(c) == state[c] \in {"idle", "counted"}

\* No node shows a task anywhere but in the slot its call chose.
SlotsAreChosen ==
  \A q \in Seen : \A i \in Slot :
    q.slots[i] # Free => taskId[q.slots[i]] = i /\ ~Unsent(q.slots[i])

\* A transaction is executed at most once, and after it was sent.
SentOnce(c) ==
  /\ c \in net => taskId[c] # NoTaskId /\ ~Unsent(c) /\ c \notin failed /\ ~Landed(c)
  /\ c \in failed => taskId[c] # NoTaskId /\ ~Unsent(c) /\ ~Landed(c)
  /\ c \in ran => ~Unsent(c) /\ ~Placed(c)
  /\ state[c] = "sent" => c \in net \cup failed \/ Landed(c)

\* Cron job ids are given out in turn, each to a job that landed; nodes and
\* calls know ids no later than the program's next.
CronIdsAreTaken ==
  \A n \in 0 .. Confirmed.nextCronJobId - 1 :
    \E d \in CronCall : Landed(d) /\ cronId[d] = n

CronIdsAreBehind ==
  /\ \A q \in Seen : q.nextCronJobId <= Confirmed.nextCronJobId
  /\ \A c \in CronCall : cronId[c] <= Confirmed.nextCronJobId

\* What LoserHasWinner says, of the slot that the winner chose.
LosersLost ==
  \A c \in failed : taskId[c] \in Slot =>
    \E d \in Call \ {c} :
      /\ Landed(d)
      /\ \/ taskId[d] = taskId[c]
         \/ {c, d} \subseteq CronCall /\ cronId[d] = cronId[c]

\* A monitor that was sure is still, or its task has run.
SureStays ==
  \A c \in TaskCall : sure[c] =>
    /\ state[c] = "queued"
    /\ c \in ran \/ \A q \in Seen : q.slots[taskId[c]] = c

IInv ==
  /\ TypeOK
  /\ SlotsAreChosen
  /\ \A c \in Call : SentOnce(c)
  /\ QueuedIsPlaced
  /\ CronIdsAreTaken
  /\ CronIdsAreBehind
  /\ LosersLost
  /\ SureStays
  /\ SureIsRun

-----------------------------------------------------------------------------
\* The slot that is offered.

LEMMA LeastOfNat ==
  ASSUME NEW T, T \subseteq Nat, T # {}
  PROVE  \E i \in T : \A j \in T : i <= j
<1> DEFINE R == OpToRel(<, Nat)
<1>1. IsWellFoundedOn(R, Nat)
  BY NatLessThanWellFounded
<1>2. \A i, j \in Nat : <<j, i>> \in R <=> j < i
  BY DEF OpToRel
<1> HIDE DEF R
<1>3. PICK i \in T : \A j \in T : ~(<<j, i>> \in R)
  BY <1>1, WFMin
<1>4. \A j \in T : i \in Nat /\ j \in Nat /\ ~(j < i)
  BY <1>2, <1>3
<1>5. \A j \in T : i <= j
  BY <1>4
<1> QED BY <1>5

\* nextAvailableTaskId returns null or a clear bit of the bitmap.
LEMMA NextAvailable ==
  ASSUME NEW slots, NEW id, id = nextAvailableTaskId(slots), id # NoTaskId
  PROVE  id \in 0 .. BitmapBits - 1
<1>1. FreeBits(slots) # {} /\ id = CHOOSE i \in FreeBits(slots) : \A j \in FreeBits(slots) : i <= j
  BY DEF nextAvailableTaskId
<1>2. FreeBits(slots) \subseteq 0 .. BitmapBits - 1
  BY DEF FreeBits
<1>3. FreeBits(slots) \subseteq Nat
  BY <1>2
<1>4. \E i \in FreeBits(slots) : \A j \in FreeBits(slots) : i <= j
  BY <1>1, <1>3, LeastOfNat
<1>5. id \in FreeBits(slots)
  BY <1>1, <1>4
<1> QED BY <1>2, <1>5

-----------------------------------------------------------------------------
\* The states that nodes show.

LEMMA SeenFacts ==
  ASSUME TypeOK
  PROVE  /\ Confirmed \in Seen
         /\ \A q \in Seen : q \in ChainState
         /\ \A q \in Seen : /\ q.slots \in [Slot -> Call \cup {Free}]
                            /\ q.nextCronJobId \in Nat
<1>1. chain \in Seq(ChainState) /\ chain # << >>
  BY DEF TypeOK
<1>2. Len(chain) \in 1 .. Len(chain)
  BY <1>1
<1>3. Confirmed \in Seen
  BY <1>2 DEF Confirmed, Seen
<1>4. \A q \in Seen : q \in ChainState
  BY <1>1 DEF Seen
<1> QED BY <1>3, <1>4 DEF ChainState

LEMMA ConfirmFacts ==
  ASSUME TypeOK, NEW s \in ChainState, Confirm(s)
  PROVE  /\ chain' \in Seq(ChainState) /\ chain' # << >>
         /\ Confirmed' = s
         /\ \A q \in Seen' : q = s \/ q \in Seen
<1> DEFINE kept == IF Len(chain) > MaxLag THEN Tail(chain) ELSE chain
<1>1. chain \in Seq(ChainState) /\ chain # << >> /\ Len(chain) \in Nat
  BY DEF TypeOK
<1>2. /\ kept \in Seq(ChainState)
      /\ Len(kept) \in Nat
      /\ \A i \in 1 .. Len(kept) : \E j \in 1 .. Len(chain) : kept[i] = chain[j]
  <2>1. CASE kept = chain
    BY <1>1, <2>1
  <2>2. CASE kept = Tail(chain)
    <3>1. Tail(chain) \in Seq(ChainState) /\ Len(Tail(chain)) = Len(chain) - 1
      BY <1>1
    <3>2. \A i \in 1 .. Len(Tail(chain)) : i + 1 \in 1 .. Len(chain) /\ Tail(chain)[i] = chain[i + 1]
      BY <1>1, <3>1
    <3>3. Len(Tail(chain)) \in Nat
      BY <3>1
    <3> HIDE DEF kept
    <3>4. \A i \in 1 .. Len(kept) : i + 1 \in 1 .. Len(chain) /\ kept[i] = chain[i + 1]
      BY <2>2, <3>2
    <3> QED BY <2>2, <3>1, <3>3, <3>4
  <2>3. kept = chain \/ kept = Tail(chain)
    OBVIOUS
  <2> QED BY <2>1, <2>2, <2>3
<1> HIDE DEF kept
<1>3. chain' = Append(kept, s)
  BY DEF Confirm, kept
<1>4. /\ chain' \in Seq(ChainState)
      /\ Len(chain') = Len(kept) + 1
      /\ chain'[Len(kept) + 1] = s
      /\ \A i \in 1 .. Len(kept) : chain'[i] = kept[i]
  BY <1>2, <1>3
<1>5. chain' # << >> /\ Confirmed' = s
  BY <1>2, <1>4 DEF Confirmed
<1>6. \A i \in 1 .. Len(chain') : i = Len(kept) + 1 \/ i \in 1 .. Len(kept)
  BY <1>2, <1>4
<1>7. \A q \in Seen' : q = s \/ q \in Seen
  BY <1>2, <1>4, <1>6 DEF Seen
<1> QED BY <1>4, <1>5, <1>7

\* No call that has sent nothing is seen anywhere.
LEMMA UnsentIsNowhere ==
  ASSUME IInv, NEW c \in Call, Unsent(c)
  PROVE  ~Landed(c) /\ (\A q \in Seen : \A i \in Slot : q.slots[i] # c) /\ c \notin net \cup failed
<1>1. \A q \in Seen : \A i \in Slot : q.slots[i] # c
  BY ConstantsAssumption DEF IInv, SlotsAreChosen
<1>2. ~Placed(c)
  BY <1>1, SeenFacts DEF IInv, Placed
<1> QED BY <1>1, <1>2 DEF IInv, SentOnce, Landed

-----------------------------------------------------------------------------
\* Steps of the callers.

LEMMA ChooseStep ==
  ASSUME IInv, NEW c \in Call, Unsent(c), ChooseSlot(c), cronId' = cronId
  PROVE  IInv'
<1>0. TypeOK
  BY DEF IInv
<1>1. /\ UNCHANGED <<chain, failed, ran, cronId, mon, timer, expired, reads, sure>>
      /\ Seen' = Seen /\ Confirmed' = Confirmed
  BY DEF ChooseSlot, chainVars, monVars, Seen, Confirmed
<1>2. \/ /\ state' = [state EXCEPT ![c] = "rejected"]
         /\ UNCHANGED <<taskId, net>>
      \/ /\ state' = [state EXCEPT ![c] = "sent"]
         /\ net' = net \cup {c}
         /\ \E id \in 0 .. BitmapBits - 1 : taskId' = [taskId EXCEPT ![c] = id]
  BY NextAvailable DEF ChooseSlot
<1>3. TypeOK'
  BY <1>0, <1>1, <1>2 DEF TypeOK
<1>4. /\ \A d \in Call \ {c} : /\ state'[d] = state[d]
                               /\ taskId'[d] = taskId[d]
                               /\ d \in net' <=> d \in net
      /\ state'[c] \in {"sent", "rejected"}
      /\ state'[c] = "sent" => c \in net'
      /\ c \in net' => taskId'[c] # NoTaskId
  <2>1. \A id \in 0 .. BitmapBits - 1 : id # NoTaskId
    BY DEF NoTaskId
  <2>2. c \notin net
    BY UnsentIsNowhere
  <2> QED BY <1>0, <1>2, <2>1, <2>2 DEF TypeOK
<1>5. \A d \in Call : /\ Placed(d)' <=> Placed(d)
                      /\ Landed(d)' <=> Landed(d)
                      /\ Unsent(d)' => Unsent(d) /\ d # c
  BY <1>0, <1>1, <1>4, UnsentIsNowhere, SeenFacts DEF Placed, Landed, Unsent
<1>6. SlotsAreChosen'
  <2> SUFFICES ASSUME NEW q \in Seen, NEW i \in Slot, q.slots[i] # Free
               PROVE  taskId'[q.slots[i]] = i /\ ~Unsent(q.slots[i])'
    BY <1>1 DEF SlotsAreChosen, Unsent
  <2>1. q.slots[i] \in Call \ {c}
    BY <1>0, SeenFacts, UnsentIsNowhere
  <2>2. taskId[q.slots[i]] = i /\ ~Unsent(q.slots[i])
    BY DEF IInv, SlotsAreChosen
  <2> QED BY <1>4, <2>1, <2>2 DEF Unsent
<1>7. \A d \in Call : SentOnce(d)'
  <2> SUFFICES ASSUME NEW d \in Call PROVE SentOnce(d)'
    OBVIOUS
  <2>1. CASE d = c
    BY <1>1, <1>4, <1>5, <2>1, UnsentIsNowhere DEF SentOnce, Landed, Unsent
  <2>2. CASE d # c
    BY <1>1, <1>4, <1>5, <2>2 DEF IInv, SentOnce
  <2> QED BY <2>1, <2>2
<1>8. QueuedIsPlaced'
  BY <1>1, <1>4, <1>5 DEF IInv, QueuedIsPlaced, Placed, Landed
<1>9. CronIdsAreTaken' /\ CronIdsAreBehind'
  BY <1>1, <1>5, ConstantsAssumption DEF IInv, CronIdsAreTaken, CronIdsAreBehind, Call
<1>10. LosersLost'
  <2> SUFFICES ASSUME NEW e \in failed, taskId'[e] \in Slot
               PROVE  \E d \in Call \ {e} : /\ Landed(d)'
                                            /\ \/ taskId'[d] = taskId'[e]
                                               \/ {e, d} \subseteq CronCall /\ cronId'[d] = cronId'[e]
    BY <1>1 DEF LosersLost
  <2>1. e \in Call /\ e # c
    BY <1>0, UnsentIsNowhere DEF TypeOK
  <2>2. taskId[e] \in Slot
    BY <1>4, <2>1
  <2>3. PICK d \in Call \ {e} : /\ Landed(d)
                                /\ \/ taskId[d] = taskId[e]
                                   \/ {e, d} \subseteq CronCall /\ cronId[d] = cronId[e]
    BY <2>2 DEF IInv, LosersLost
  <2>4. d # c
    BY <1>0, <2>3, UnsentIsNowhere
  <2> QED BY <1>1, <1>4, <1>5, <2>1, <2>3, <2>4
<1>11. SureStays' /\ SureIsRun'
  <2>1. \A d \in TaskCall : sure[d] => d \in Call \ {c}
    BY DEF IInv, SureStays, Unsent, Call
  <2> QED BY <1>1, <1>4, <2>1 DEF IInv, SureStays, SureIsRun
<1> QED BY <1>3, <1>6, <1>7, <1>8, <1>9, <1>10, <1>11 DEF IInv

LEMMA CreateCronStep ==
  ASSUME IInv, NEW c \in CronCall, createCronJob(c)
  PROVE  IInv'
<1>0. TypeOK /\ c \in Call /\ Unsent(c)
  BY DEF IInv, Call, createCronJob, Unsent
<1>1. /\ UNCHANGED <<chain, net, failed, ran, taskId, mon, timer, expired, reads, sure>>
      /\ Seen' = Seen /\ Confirmed' = Confirmed
  BY DEF createCronJob, chainVars, monVars, Seen, Confirmed
<1>2. PICK q \in Seen : cronId' = [cronId EXCEPT ![c] = q.nextCronJobId]
  BY DEF createCronJob
<1>3. state' = [state EXCEPT ![c] = "counted"]
  BY DEF createCronJob
<1>4. q.nextCronJobId \in Nat /\ q.nextCronJobId <= Confirmed.nextCronJobId
  BY <1>0, SeenFacts DEF IInv, CronIdsAreBehind
<1>5. TypeOK'
  BY <1>0, <1>1, <1>2, <1>3, <1>4 DEF TypeOK
<1>6. \A d \in Call : /\ Placed(d)' <=> Placed(d)
                      /\ Landed(d)' <=> Landed(d)
                      /\ Unsent(d)' <=> Unsent(d)
                      /\ d # c => state'[d] = state[d] /\ cronId'[d] = cronId[d]
  BY <1>0, <1>1, <1>2, <1>3 DEF TypeOK, Placed, Landed, Unsent
<1>7. SlotsAreChosen' /\ \A d \in Call : SentOnce(d)'
  <2>1. \A q2 \in Seen : \A i \in Slot : q2.slots[i] # Free => q2.slots[i] \in Call
    BY <1>0, SeenFacts
  <2>2. SlotsAreChosen'
    BY <1>1, <1>6, <2>1 DEF IInv, SlotsAreChosen, Unsent
  <2>3. state'[c] = "counted"
    BY <1>0, <1>3 DEF TypeOK
  <2>4. \A d \in Call : SentOnce(d)'
    BY <1>1, <1>6, <2>3 DEF IInv, SentOnce
  <2> QED BY <2>2, <2>4
<1>8. QueuedIsPlaced' /\ SureStays' /\ SureIsRun'
  <2>1. state'[c] = "counted"
    BY <1>0, <1>3 DEF TypeOK
  <2>2. QueuedIsPlaced'
    BY <1>1, <1>6, <2>1 DEF IInv, QueuedIsPlaced, Placed, Landed
  <2>3. \A d \in TaskCall : d \in Call /\ state'[d] = state[d]
    BY <1>6, ConstantsAssumption DEF Call
  <2> QED BY <1>1, <2>2, <2>3 DEF IInv, SureStays, SureIsRun
<1>9. CronIdsAreTaken'
  <2>1. ~Landed(c)
    BY <1>0, UnsentIsNowhere
  <2> QED BY <1>1, <1>6, <2>1 DEF IInv, CronIdsAreTaken, Call
<1>10. CronIdsAreBehind'
  BY <1>0, <1>1, <1>2, <1>4 DEF TypeOK, IInv, CronIdsAreBehind, Call
<1>11. LosersLost'
  <2>1. ~Landed(c) /\ c \notin failed
    BY <1>0, UnsentIsNowhere
  <2>2. failed \subseteq Call
    BY <1>0 DEF TypeOK
  <2> QED BY <1>1, <1>6, <2>1, <2>2 DEF IInv, LosersLost
<1> QED BY <1>5, <1>7, <1>8, <1>9, <1>10, <1>11 DEF IInv

\* A call settles, before or after it has sent its transaction.
LEMMA SettleStep ==
  ASSUME IInv, NEW c \in Call, Sent(c) \/ ReadFailed(c) \/ Rejected(c)
  PROVE  IInv'
<1>0. TypeOK
  BY DEF IInv
<1>1. /\ UNCHANGED <<chain, net, failed, ran, cronId, taskId, mon, timer, expired, reads, sure>>
      /\ Seen' = Seen /\ Confirmed' = Confirmed
  BY DEF Sent, ReadFailed, Rejected, chainVars, monVars, Seen, Confirmed
<1>2. /\ state[c] \in {"idle", "counted", "sent"}
      /\ \/ state' = [state EXCEPT ![c] = "queued"] /\ state[c] = "sent" /\ c \notin net \cup failed
         \/ state' = [state EXCEPT ![c] = "rejected"]
  BY DEF Sent, ReadFailed, Rejected
<1>3. TypeOK'
  BY <1>0, <1>1, <1>2 DEF TypeOK
<1>4. \A d \in Call : /\ Placed(d)' <=> Placed(d)
                      /\ Landed(d)' <=> Landed(d)
                      /\ Unsent(d)' => Unsent(d)
                      /\ state'[d] = "sent" => state[d] = "sent"
                      /\ d # c => state'[d] = state[d]
  BY <1>0, <1>1, <1>2 DEF TypeOK, Placed, Landed, Unsent
<1>5. SlotsAreChosen'
  <2>1. \A q \in Seen : \A i \in Slot : q.slots[i] # Free => q.slots[i] \in Call
    BY <1>0, SeenFacts
  <2> QED BY <1>1, <1>4, <2>1 DEF IInv, SlotsAreChosen, Unsent
<1>6. \A d \in Call : SentOnce(d)'
  BY <1>1, <1>4 DEF IInv, SentOnce
<1>7. QueuedIsPlaced'
  <2>1. state'[c] = "queued" => Landed(c)
    BY <1>0, <1>2 DEF TypeOK, IInv, SentOnce
  <2>2. \A d \in Call : state'[d] = "queued" => Landed(d)
    BY <1>4, <2>1 DEF IInv, QueuedIsPlaced, Landed, Placed
  <2> QED BY <1>1, <2>2 DEF QueuedIsPlaced, Landed, Placed
<1>8. CronIdsAreTaken' /\ CronIdsAreBehind' /\ LosersLost'
  BY <1>1, <1>4 DEF IInv, CronIdsAreTaken, CronIdsAreBehind, LosersLost, Call
<1>9. SureStays' /\ SureIsRun'
  <2>1. \A d \in TaskCall : sure[d] => d \in Call /\ state'[d] = state[d]
    BY <1>2, <1>4 DEF IInv, SureStays, Call
  <2> QED BY <1>1, <2>1 DEF IInv, SureStays, SureIsRun
<1> QED BY <1>3, <1>5, <1>6, <1>7, <1>8, <1>9 DEF IInv

-----------------------------------------------------------------------------
\* Steps of the cluster and the crankers.

LEMMA ExecuteStep ==
  ASSUME IInv, NEW c \in Call, Execute(c)
  PROVE  IInv'
<1>0. TypeOK
  BY DEF IInv
<1>1. /\ c \in net /\ net' = net \ {c}
      /\ UNCHANGED <<ran, state, cronId, taskId, mon, timer, expired, reads, sure>>
  BY DEF Execute, callVars, monVars
<1>2. /\ taskId[c] # NoTaskId /\ ~Unsent(c) /\ c \notin failed /\ ~Landed(c) /\ c \notin ran
      /\ state[c] # "queued"
  BY <1>1 DEF IInv, SentOnce, Landed, QueuedIsPlaced, Placed
<1>3. CASE Acceptable(c)
  <2> DEFINE s == [slots |-> [Confirmed.slots EXCEPT ![taskId[c]] = c],
                   nextCronJobId |-> IF c \in CronCall THEN cronId[c] + 1 ELSE Confirmed.nextCronJobId]
  <2>1. Confirm(s) /\ failed' = failed
    BY <1>3 DEF Execute
  <2>2. /\ taskId[c] \in Slot
        /\ Confirmed.slots[taskId[c]] = Free
        /\ c \in CronCall => cronId[c] = Confirmed.nextCronJobId
    BY <1>3 DEF Acceptable
  <2>3. /\ Confirmed.slots \in [Slot -> Call \cup {Free}]
        /\ Confirmed.nextCronJobId \in Nat
    BY <1>0, SeenFacts
  <2>4. /\ s.slots \in [Slot -> Call \cup {Free}]
        /\ s.slots[taskId[c]] = c
        /\ \A i \in Slot : i # taskId[c] => s.slots[i] = Confirmed.slots[i]
        /\ s.nextCronJobId \in Nat
        /\ s.nextCronJobId = IF c \in CronCall THEN Confirmed.nextCronJobId + 1
                             ELSE Confirmed.nextCronJobId
    BY <2>2, <2>3
  <2>5. s \in ChainState
    BY <2>4 DEF ChainState
  <2>6. /\ chain' \in Seq(ChainState) /\ chain' # << >>
        /\ Confirmed' = s
        /\ \A q \in Seen' : q = s \/ q \in Seen
    BY <1>0, <2>1, <2>5, ConfirmFacts
  <2> HIDE DEF s
  <2>7. TypeOK'
    BY <1>0, <1>1, <2>1, <2>6 DEF TypeOK
  <2>8. \A d \in Call : /\ Placed(d)' <=> Placed(d) \/ d = c
                        /\ Landed(d)' <=> Landed(d) \/ d = c
    BY <1>1, <2>2, <2>4, <2>6, ConstantsAssumption DEF Placed, Landed
  <2>9. SlotsAreChosen'
    <3> SUFFICES ASSUME NEW q \in Seen', NEW i \in Slot, q.slots[i] # Free
                 PROVE  taskId[q.slots[i]] = i /\ ~Unsent(q.slots[i])
      BY <1>1 DEF SlotsAreChosen, Unsent
    <3>1. CASE q \in Seen
      BY <3>1 DEF IInv, SlotsAreChosen
    <3>2. CASE q = s
      <4>1. CASE i = taskId[c]
        BY <1>2, <2>4, <3>2, <4>1
      <4>2. CASE i # taskId[c]
        BY <1>0, <2>4, <3>2, <4>2, SeenFacts DEF IInv, SlotsAreChosen
      <4> QED BY <4>1, <4>2
    <3> QED BY <2>6, <3>1, <3>2
  <2>10. \A d \in Call : SentOnce(d)'
    BY <1>1, <1>2, <2>1, <2>8 DEF IInv, SentOnce, Unsent
  <2>11. QueuedIsPlaced'
    BY <1>1, <2>8 DEF IInv, QueuedIsPlaced, Placed, Landed
  <2>12. CronIdsAreTaken'
    <3> SUFFICES ASSUME NEW n \in 0 .. s.nextCronJobId - 1
                 PROVE  \E d \in CronCall : Landed(d)' /\ cronId[d] = n
      BY <1>1, <2>6 DEF CronIdsAreTaken
    <3>1. n \in 0 .. Confirmed.nextCronJobId - 1 \/ (c \in CronCall /\ n = Confirmed.nextCronJobId)
      BY <2>3, <2>4
    <3>2. CASE n \in 0 .. Confirmed.nextCronJobId - 1
      BY <2>8, <3>2 DEF IInv, CronIdsAreTaken, Call
    <3>3. CASE c \in CronCall /\ n = Confirmed.nextCronJobId
      BY <2>2, <2>8, <3>3
    <3> QED BY <3>1, <3>2, <3>3
  <2>13. CronIdsAreBehind'
    <3>1. \A q \in Seen : q.nextCronJobId \in Nat /\ q.nextCronJobId <= Confirmed.nextCronJobId
      BY <1>0, SeenFacts DEF IInv, CronIdsAreBehind
    <3>2. \A d \in CronCall : cronId[d] \in Nat /\ cronId[d] <= Confirmed.nextCronJobId
      BY <1>0 DEF IInv, CronIdsAreBehind, TypeOK, Call
    <3>3. Confirmed.nextCronJobId <= s.nextCronJobId
      BY <2>3, <2>4
    <3>4. \A q \in Seen' : q.nextCronJobId <= s.nextCronJobId
      BY <2>3, <2>4, <2>6, <3>1, <3>3
    <3>5. \A d \in CronCall : cronId[d] <= s.nextCronJobId
      BY <2>3, <2>4, <3>2, <3>3
    <3> QED BY <1>1, <2>6, <3>4, <3>5 DEF CronIdsAreBehind
  <2>14. LosersLost'
    <3>1. failed \subseteq Call
      BY <1>0 DEF TypeOK
    <3> QED BY <1>1, <2>1, <2>8, <3>1 DEF IInv, LosersLost
  <2>15. SureStays' /\ SureIsRun'
    <3> SUFFICES ASSUME NEW d \in TaskCall, sure[d], d \notin ran, NEW q \in Seen'
                 PROVE  q.slots[taskId[d]] = d
      BY <1>1 DEF IInv, SureStays, SureIsRun
    <3>1. state[d] = "queued" /\ d \in Call /\ d # c /\ \A q2 \in Seen : q2.slots[taskId[d]] = d
      BY <1>2 DEF IInv, SureStays, Call
    <3>2. Placed(d)
      BY <3>1 DEF IInv, QueuedIsPlaced, Placed
    <3>3. s.slots[taskId[d]] = d
      BY <2>2, <2>4, <3>1, <3>2, ConstantsAssumption DEF Placed
    <3> QED BY <2>6, <3>1, <3>3
  <2> QED BY <2>7, <2>9, <2>10, <2>11, <2>12, <2>13, <2>14, <2>15 DEF IInv
<1>4. CASE ~Acceptable(c)
  <2>1. failed' = failed \cup {c} /\ chain' = chain
    BY <1>4 DEF Execute
  <2>2. Seen' = Seen /\ Confirmed' = Confirmed
    BY <2>1 DEF Seen, Confirmed
  <2>3. TypeOK'
    BY <1>0, <1>1, <2>1 DEF TypeOK
  <2>4. \A d \in Call : /\ Placed(d)' <=> Placed(d)
                        /\ Landed(d)' <=> Landed(d)
                        /\ Unsent(d)' <=> Unsent(d)
    BY <1>1, <2>2 DEF Placed, Landed, Unsent
  <2>5. SlotsAreChosen' /\ QueuedIsPlaced' /\ SureStays' /\ SureIsRun'
    BY <1>1, <2>2 DEF IInv, SlotsAreChosen, QueuedIsPlaced, SureStays, SureIsRun, Unsent
  <2>6. CronIdsAreTaken' /\ CronIdsAreBehind'
    BY <1>1, <2>2, <2>4 DEF IInv, CronIdsAreTaken, CronIdsAreBehind, Call
  <2>7. \A d \in Call : SentOnce(d)'
    BY <1>1, <1>2, <2>1, <2>4 DEF IInv, SentOnce
  <2>8. LosersLost'
    <3> SUFFICES ASSUME taskId[c] \in Slot
                 PROVE  \E d \in Call \ {c} : /\ Landed(d)
                                              /\ \/ taskId[d] = taskId[c]
                                                 \/ {c, d} \subseteq CronCall /\ cronId[d] = cronId[c]
      <4>1. failed \subseteq Call
        BY <1>0 DEF TypeOK
      <4> QED BY <1>1, <2>1, <2>4, <4>1 DEF IInv, LosersLost
    <3>1. CASE Confirmed.slots[taskId[c]] # Free
      <4> DEFINE d == Confirmed.slots[taskId[c]]
      <4>1. d \in Call /\ taskId[d] = taskId[c]
        BY <1>0, <3>1, SeenFacts DEF IInv, SlotsAreChosen
      <4>2. Placed(d)
        BY <4>1 DEF Placed
      <4>3. d # c
        BY <1>2, <4>2 DEF Landed
      <4> HIDE DEF d
      <4> QED BY <4>1, <4>2, <4>3 DEF Landed
    <3>2. CASE Confirmed.slots[taskId[c]] = Free
      <4>1. c \in CronCall /\ cronId[c] # Confirmed.nextCronJobId
        BY <1>4, <3>2 DEF Acceptable
      <4>2. cronId[c] \in Nat /\ cronId[c] <= Confirmed.nextCronJobId /\ Confirmed.nextCronJobId \in Nat
        BY <1>0, <4>1, SeenFacts DEF IInv, CronIdsAreBehind, TypeOK
      <4>3. cronId[c] \in 0 .. Confirmed.nextCronJobId - 1
        BY <4>1, <4>2
      <4>4. PICK d \in CronCall : Landed(d) /\ cronId[d] = cronId[c]
        BY <4>3 DEF IInv, CronIdsAreTaken
      <4> QED BY <1>2, <4>1, <4>4 DEF Call
    <3> QED BY <3>1, <3>2
  <2> QED BY <2>3, <2>5, <2>6, <2>7, <2>8 DEF IInv
<1> QED BY <1>3, <1>4

LEMMA RunStep ==
  ASSUME IInv, NEW i \in Slot, RunTask(i)
  PROVE  IInv'
<1> DEFINE e == Confirmed.slots[i]
           s == [Confirmed EXCEPT !.slots[i] = Free]
<1>0. TypeOK
  BY DEF IInv
<1>1. /\ e # Free
      /\ ran' = ran \cup {e}
      /\ Confirm(s)
      /\ UNCHANGED <<net, failed, state, cronId, taskId, mon, timer, expired, reads, sure>>
  BY DEF RunTask, callVars, monVars
<1>2. /\ Confirmed \in ChainState
      /\ Confirmed.slots \in [Slot -> Call \cup {Free}]
      /\ Confirmed.nextCronJobId \in Nat
  BY <1>0, SeenFacts
<1>3. e \in Call /\ taskId[e] = i /\ ~Unsent(e)
  BY <1>0, <1>1, <1>2, SeenFacts DEF IInv, SlotsAreChosen
<1>4. /\ s.slots = [Confirmed.slots EXCEPT ![i] = Free]
      /\ s.nextCronJobId = Confirmed.nextCronJobId
      /\ s \in ChainState
  <2> DEFINE p == Confirmed
  <2>1. s = [p EXCEPT !.slots = [p.slots EXCEPT ![i] = Free]]
    BY <1>2 DEF ChainState
  <2>2. [p.slots EXCEPT ![i] = Free] \in [Slot -> Call \cup {Free}]
    BY <1>2
  <2> HIDE DEF p, s
  <2>3. p \in ChainState
    BY <1>2 DEF p
  <2> QED BY <2>1, <2>2, <2>3 DEF ChainState, p
<1>5. /\ s.slots[i] = Free
      /\ \A j \in Slot : j # i => s.slots[j] = Confirmed.slots[j]
  BY <1>2, <1>4
<1>6. /\ chain' \in Seq(ChainState) /\ chain' # << >>
      /\ Confirmed' = s
      /\ \A q \in Seen' : q = s \/ q \in Seen
  BY <1>0, <1>1, <1>4, ConfirmFacts
<1>7. Placed(e)
  BY <1>3 DEF Placed
<1> HIDE DEF s, e
<1>8. TypeOK'
  BY <1>0, <1>1, <1>3, <1>6 DEF TypeOK
<1>9. e = Confirmed.slots[i]
  BY DEF e
<1>10. \A d \in Call : /\ Placed(d)' <=> Placed(d) /\ d # e
                       /\ Landed(d)' <=> Landed(d)
  BY <1>1, <1>3, <1>5, <1>6, <1>7, <1>9, ConstantsAssumption DEF Placed, Landed
<1>11. SlotsAreChosen'
  <2> SUFFICES ASSUME NEW q \in Seen', NEW j \in Slot, q.slots[j] # Free
               PROVE  taskId[q.slots[j]] = j /\ ~Unsent(q.slots[j])
    BY <1>1 DEF SlotsAreChosen, Unsent
  <2>1. CASE q \in Seen
    BY <2>1 DEF IInv, SlotsAreChosen
  <2>2. CASE q = s
    <3>1. j # i /\ q.slots[j] = Confirmed.slots[j]
      BY <1>5, <2>2
    <3> QED BY <1>0, <3>1, SeenFacts DEF IInv, SlotsAreChosen
  <2> QED BY <1>6, <2>1, <2>2
<1>12. \A d \in Call : SentOnce(d)'
  BY <1>1, <1>3, <1>10 DEF IInv, SentOnce, Unsent
<1>13. QueuedIsPlaced'
  <2>1. \A d \in Call : state[d] = "queued" => Landed(d)'
    BY <1>10 DEF IInv, QueuedIsPlaced, Placed, Landed
  <2> QED BY <1>1, <2>1 DEF QueuedIsPlaced, Placed, Landed
<1>14. CronIdsAreTaken' /\ LosersLost'
  <2>1. failed \subseteq Call
    BY <1>0 DEF TypeOK
  <2> QED BY <1>1, <1>4, <1>6, <1>10, <2>1 DEF IInv, CronIdsAreTaken, LosersLost, Call
<1>15. CronIdsAreBehind'
  BY <1>1, <1>2, <1>4, <1>6 DEF IInv, CronIdsAreBehind
<1>16. SureStays' /\ SureIsRun'
  <2> SUFFICES ASSUME NEW d \in TaskCall, sure[d], d \notin ran', NEW q \in Seen'
               PROVE  q.slots[taskId[d]] = d
    BY <1>1 DEF IInv, SureStays, SureIsRun
  <2>1. /\ state[d] = "queued" /\ d \in Call /\ d # e /\ d \notin ran
        /\ \A q2 \in Seen : q2.slots[taskId[d]] = d
    BY <1>1 DEF IInv, SureStays, Call
  <2>2. Placed(d)
    BY <2>1 DEF IInv, QueuedIsPlaced, Placed
  <2>3. s.slots[taskId[d]] = d
    BY <1>5, <1>9, <2>1, <2>2 DEF Placed
  <2> QED BY <1>6, <2>1, <2>3
<1> QED BY <1>8, <1>11, <1>12, <1>13, <1>14, <1>15, <1>16 DEF IInv

\* Steps that show fewer states and change nothing else of what IInv is about.
LEMMA FewerSeen ==
  ASSUME IInv, TypeOK', Confirmed' = Confirmed, Seen' \subseteq Seen,
         UNCHANGED <<net, failed, ran, callVars>>,
         SureStays', SureIsRun'
  PROVE  IInv'
<1>1. UNCHANGED <<net, failed, ran, state, cronId, taskId>> /\ failed \subseteq Call
  BY DEF callVars, IInv, TypeOK
<1>2. \A d \in Call : /\ Placed(d)' <=> Placed(d)
                      /\ Landed(d)' <=> Landed(d)
                      /\ Unsent(d)' <=> Unsent(d)
  BY <1>1 DEF Placed, Landed, Unsent
<1>3. SlotsAreChosen' /\ QueuedIsPlaced'
  BY <1>1 DEF IInv, SlotsAreChosen, QueuedIsPlaced, Unsent
<1>4. \A d \in Call : SentOnce(d)'
  BY <1>1, <1>2 DEF IInv, SentOnce
<1>5. CronIdsAreTaken' /\ CronIdsAreBehind' /\ LosersLost'
  BY <1>1, <1>2 DEF IInv, CronIdsAreTaken, CronIdsAreBehind, LosersLost, Call
<1> QED BY <1>3, <1>4, <1>5 DEF IInv

LEMMA CatchUpStep ==
  ASSUME IInv, CatchUp
  PROVE  IInv'
<1>1. /\ chain \in Seq(ChainState) /\ Len(chain) > 1
      /\ chain' = Tail(chain)
      /\ UNCHANGED <<net, failed, ran, callVars, mon, timer, expired, reads, sure>>
  BY DEF IInv, TypeOK, CatchUp, monVars
<1>2. /\ chain' \in Seq(ChainState) /\ Len(chain') = Len(chain) - 1
      /\ \A i \in 1 .. Len(chain') : i + 1 \in 1 .. Len(chain) /\ chain'[i] = chain[i + 1]
  <2>1. Tail(chain) \in Seq(ChainState) /\ Len(Tail(chain)) = Len(chain) - 1 /\ Len(chain) \in Nat
    BY <1>1
  <2>2. \A i \in 1 .. Len(Tail(chain)) : i + 1 \in 1 .. Len(chain) /\ Tail(chain)[i] = chain[i + 1]
    BY <1>1, <2>1
  <2> QED BY <1>1, <2>1, <2>2
<1>3. Seen' \subseteq Seen
  BY <1>2 DEF Seen
<1>4. Len(chain') \in 1 .. Len(chain') /\ Len(chain') + 1 = Len(chain)
  BY <1>1, <1>2
<1>5. Confirmed' = Confirmed
  BY <1>2, <1>4 DEF Confirmed
<1>6. TypeOK'
  <2>1. chain' # << >>
    BY <1>4
  <2> QED BY <1>1, <1>2, <2>1 DEF IInv, TypeOK, callVars
<1>7. SureStays' /\ SureIsRun'
  BY <1>1, <1>3 DEF IInv, SureStays, SureIsRun, callVars
<1> QED BY <1>1, <1>3, <1>5, <1>6, <1>7, FewerSeen

-----------------------------------------------------------------------------
\* Steps of the monitors.

LEMMA MonitorStep ==
  ASSUME IInv, NEW c \in TaskCall,
         monitorTask(c) \/ Tick(c) \/ Answer(c) \/ ReadError(c) \/ Expire(c)
  PROVE  IInv'
<1>0. TypeOK /\ c \in Call
  BY DEF IInv, Call
<1>1. /\ UNCHANGED <<chain, net, failed, ran, callVars>>
      /\ Seen' = Seen /\ Confirmed' = Confirmed
  BY DEF monitorTask, Tick, Answer, ReadError, Expire, Settle, chainVars, Seen, Confirmed
<1>2. /\ state' = state /\ taskId' = taskId /\ cronId' = cronId
  BY <1>1 DEF callVars
<1>3. CASE monitorTask(c)
  <2>1. /\ state[c] = "queued" /\ mon[c] = "off"
        /\ mon' = [mon EXCEPT ![c] = "polling"]
        /\ timer' = [timer EXCEPT ![c] = TRUE]
        /\ sure' = [sure EXCEPT ![c] = c \in ran \/ \A q \in Seen : q.slots[taskId[c]] = c]
        /\ UNCHANGED <<expired, reads>>
    BY <1>3 DEF monitorTask
  <2>2. (c \in ran \/ \A q \in Seen : q.slots[taskId[c]] = c) \in BOOLEAN
    OBVIOUS
  <2>3. TypeOK'
    BY <1>0, <1>1, <1>2, <2>1, <2>2 DEF TypeOK
  <2>4. /\ sure'[c] => c \in ran \/ \A q \in Seen : q.slots[taskId[c]] = c
        /\ mon'[c] = "polling"
        /\ \A d \in TaskCall \ {c} : sure'[d] = sure[d] /\ mon'[d] = mon[d]
    BY <1>0, <2>1 DEF TypeOK
  <2>5. SureStays' /\ SureIsRun'
    BY <1>1, <1>2, <2>1, <2>4 DEF IInv, SureStays, SureIsRun
  <2> QED BY <1>1, <2>3, <2>5, FewerSeen
<1>4. ASSUME Tick(c) \/ Answer(c) \/ ReadError(c) \/ Expire(c)
      PROVE  IInv'
  <2>1. /\ sure' = sure
        /\ \/ mon' = mon
           \/ \E how \in {"timedOut", "error"} : mon' = [mon EXCEPT ![c] = how]
           \/ /\ mon' = [mon EXCEPT ![c] = "gone"]
              /\ \E q \in Seen : q.slots[taskId[c]] = Free
        /\ timer' = timer \/ timer' = [timer EXCEPT ![c] = FALSE]
        /\ expired' = expired \/ expired' = [expired EXCEPT ![c] = TRUE]
    BY <1>4 DEF Tick, Answer, ReadError, Expire, Settle
  <2>2. reads' \in [TaskCall -> 0 .. MaxReads]
    BY <1>0, <1>4, ConstantsAssumption DEF TypeOK, Tick, Answer, ReadError, Expire
  <2>3. TypeOK'
    BY <1>0, <1>1, <1>2, <2>1, <2>2 DEF TypeOK
  <2>4. \A d \in TaskCall : mon'[d] = "gone" =>
           mon[d] = "gone" \/ (d = c /\ \E q \in Seen : q.slots[taskId[c]] = Free)
    BY <1>0, <2>1 DEF TypeOK
  <2>5. SureStays'
    BY <1>1, <1>2, <2>1 DEF IInv, SureStays
  <2>6. SureIsRun'
    BY <1>0, <1>1, <2>1, <2>4, ConstantsAssumption DEF IInv, SureStays, SureIsRun
  <2> QED BY <1>1, <2>3, <2>5, <2>6, FewerSeen
<1> QED BY <1>3, <1>4

-----------------------------------------------------------------------------
\* Theorems.

LEMMA InitIInv == Init => IInv
<1> SUFFICES ASSUME Init PROVE IInv
  OBVIOUS
<1> DEFINE s == [slots |-> [i \in Slot |-> Free], nextCronJobId |-> 0]
<1>1. chain = << s >>
  BY DEF Init
<1>2. s \in ChainState /\ s.nextCronJobId = 0 /\ \A i \in Slot : s.slots[i] = Free
  BY DEF ChainState
<1> HIDE DEF s
<1>3. Seen = {s} /\ Confirmed = s /\ chain \in Seq(ChainState) /\ chain # << >>
  BY <1>1, <1>2 DEF Seen, Confirmed
<1>4. TypeOK
  BY <1>3, ConstantsAssumption DEF Init, TypeOK
<1>5. SlotsAreChosen /\ CronIdsAreTaken /\ CronIdsAreBehind
  BY <1>2, <1>3 DEF Init, SlotsAreChosen, CronIdsAreTaken, CronIdsAreBehind, Call
<1>6. \A c \in Call : ~Placed(c)
  BY <1>2, <1>3, ConstantsAssumption DEF Placed
<1>7. QueuedIsPlaced /\ (\A c \in Call : SentOnce(c))
  BY <1>6 DEF Init, QueuedIsPlaced, SentOnce, Landed
<1>8. LosersLost /\ SureStays /\ SureIsRun
  BY DEF Init, LosersLost, SureStays, SureIsRun
<1> QED BY <1>4, <1>5, <1>7, <1>8 DEF IInv

LEMMA NextIInv == IInv /\ [Next]_vars => IInv'
<1> SUFFICES ASSUME IInv, [Next]_vars PROVE IInv'
  OBVIOUS
<1>1. ASSUME NEW c \in Call, queueTask(c) \/ QueueRead(c)
      PROVE  IInv'
  BY <1>1, ChooseStep DEF queueTask, QueueRead, Unsent
<1>2. ASSUME NEW c \in Call, createCronJob(c)
      PROVE  IInv'
  BY <1>2, CreateCronStep DEF createCronJob
<1>3. ASSUME NEW c \in Call, Sent(c) \/ ReadFailed(c) \/ Rejected(c)
      PROVE  IInv'
  BY <1>3, SettleStep
<1>4. ASSUME NEW c \in Call, Execute(c)
      PROVE  IInv'
  BY <1>4, ExecuteStep
<1>5. ASSUME NEW i \in Slot, RunTask(i)
      PROVE  IInv'
  BY <1>5, RunStep
<1>6. CASE CatchUp
  BY <1>6, CatchUpStep
<1>7. ASSUME NEW c \in TaskCall,
             monitorTask(c) \/ Tick(c) \/ Answer(c) \/ ReadError(c) \/ Expire(c)
      PROVE  IInv'
  BY <1>7, MonitorStep
<1>8. CASE UNCHANGED vars
  <2>1. UNCHANGED <<chain, net, failed, ran, callVars, monVars>> /\ Seen' = Seen /\ Confirmed' = Confirmed
    BY <1>8 DEF vars, callVars, monVars, Seen, Confirmed
  <2>2. TypeOK' /\ SureStays' /\ SureIsRun'
    BY <2>1 DEF IInv, TypeOK, SureStays, SureIsRun, callVars, monVars
  <2> QED BY <2>1, <2>2, FewerSeen
<1> QED BY <1>1, <1>2, <1>3, <1>4, <1>5, <1>6, <1>7, <1>8 DEF Next

LEMMA LosersHaveWinners == IInv => LoserHasWinner
BY DEF IInv, LosersLost, LoserHasWinner, Landed, Placed

\* The invariant holds in every reachable state.
THEOREM Invariance == Spec => []IInv
BY InitIInv, NextIInv, PTL DEF Spec

\* Every variable keeps its type: whatever a call reads of the bitmap, the slot it asks
\* for is one of its bits.
THEOREM TypeCorrectness == Spec => []TypeOK
BY Invariance, PTL DEF IInv

\* A call that fulfilled owns its slot until its task has run, whatever others chose
\* from bitmaps as stale as its own.
THEOREM QueuedTasksArePlaced == Spec => []QueuedIsPlaced
BY Invariance, PTL DEF IInv

\* Of the callers that read the same bitmap one gets the slot: a transaction that asks
\* for a slot of the queue, however many more bits the bitmap has, fails only to
\* another that took its slot or its cron job id.
THEOREM LosersLoseToWinners == Spec => []LoserHasWinner
BY Invariance, LosersHaveWinners, PTL

\* A monitor that started when every node had the task reports it gone only after
\* it has run, however often its slot is used again.
THEOREM SureMonitorsAreRight == Spec => []SureIsRun
BY Invariance, PTL DEF IInv
=============================================================================
