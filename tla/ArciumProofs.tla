----------------------------- MODULE ArciumProofs -----------------------------
(***************************************************************************)
(* Theorems about two components of kit-plugin-arcium.  ComputationWatch:   *)
(* for every set of calls, every window, number of attempts and log.        *)
(* RescueCipher: for every odd prime order, block size, rate, capacity,     *)
(* number of rounds, stream of SHAKE256 and input.                          *)
(*                                                                         *)
(* The argument about the cipher: integers read off their bits wrap around  *)
(* a power of two, so constant-time arithmetic is that of the field; the    *)
(* field has inverses, sums and matrices obey their laws; by Fermat's       *)
(* little theorem the two exponents undo each other; the Cauchy matrix and  *)
(* its closed form are inverse, by divided differences; so a round and the  *)
(* inverse round, the permutations and the two modes undo each other.  The  *)
(* determinant is linear in each row and changes its sign with two of them; *)
(* so each round of the elimination keeps it up to its sign.                *)
(***************************************************************************)
EXTENDS ComputationWatch, CipherClaims, WellFoundedInduction, TLAPS

-----------------------------------------------------------------------------
\* ComputationWatch: the inductive invariant.

\* What an attempt had listed is still to be looked at or does not carry the event.
ListedIsLookedAt ==
  \A p \in Poll : state[p] # "resolved" =>
    \A i \in listed[p] :
      \/ ~Matches(log[i])
      \/ state[p] = "scanning" /\ \E j \in 1 .. Len(todo[p]) : todo[p][j] = i

ScanHasMore == \A p \in Poll : state[p] = "scanning" => todo[p] # << >>

\* A poll under way has attempts left.
AttemptsLeft ==
  \A p \in Poll :
    state[p] \in {"idle", "asking", "scanning", "pausing"} => attempt[p] < MaxAttempts

\* The awaited computation is finalized once.
FinalizedOnce ==
  \A i, j \in 1 .. Len(log) : Finalizes(i) /\ Finalizes(j) => i = j

\* A subscription that listens was not notified of the transaction it awaits.
ListensFrom ==
  \A s \in Sub : from[s] <= read[s]

IInv ==
  /\ TypeOK
  /\ ListedIsLookedAt
  /\ ScanHasMore
  /\ AttemptsLeft
  /\ PollMissesNothing
  /\ FinalizedOnce
  /\ ListensFrom
  /\ SubscriptionReturnsFirst

-----------------------------------------------------------------------------
\* The log.

LEMMA LogType ==
  ASSUME TypeOK
  PROVE  /\ Len(log) \in Nat
         /\ \A i \in 1 .. Len(log) : log[i] \in Tx
         /\ \A p \in Poll : /\ Len(todo[p]) \in Nat
                            /\ todo[p] \in Seq(1 .. Len(log))
                            /\ \A j \in 1 .. Len(todo[p]) : todo[p][j] \in 1 .. Len(log)
BY DEF TypeOK

\* The rest of a scan, when its head has been looked at.
LEMMA TailFacts ==
  ASSUME NEW S, NEW seq \in Seq(S), seq # << >>
  PROVE  /\ Head(seq) \in S
         /\ Head(seq) = seq[1]
         /\ Tail(seq) \in Seq(S)
         /\ \A j \in 1 .. Len(seq) : j = 1 \/ \E k \in 1 .. Len(Tail(seq)) : Tail(seq)[k] = seq[j]
<1>1. Len(Tail(seq)) = Len(seq) - 1 /\ Tail(seq) \in Seq(S) /\ Head(seq) = seq[1] /\ Len(seq) \in Nat \ {0}
  OBVIOUS
<1>2. \A j \in 2 .. Len(seq) : j - 1 \in 1 .. Len(Tail(seq)) /\ Tail(seq)[j - 1] = seq[j]
  BY <1>1
<1>3. \A j \in 1 .. Len(seq) : j = 1 \/ \E k \in 1 .. Len(Tail(seq)) : Tail(seq)[k] = seq[j]
  BY <1>1, <1>2
<1> QED BY <1>1, <1>3

-----------------------------------------------------------------------------
\* Steps of a poll.

\* A poll that goes on, pauses or settles leaves the subscriptions alone.
LEMMA SubscriptionsAreLeft ==
  ASSUME IInv, NEW p \in Poll, UNCHANGED <<log, subVars>>,
         \A w \in Wait \ {p} : state'[w] = state[w] /\ result'[w] = result[w]
  PROVE  FinalizedOnce' /\ ListensFrom' /\ SubscriptionReturnsFirst'
<1>1. \A s \in Sub : s \in Wait \ {p} /\ state'[s] = state[s] /\ result'[s] = result[s]
  BY ConstantsAssumption DEF Wait
<1>2. log' = log /\ from' = from /\ read' = read
  BY DEF subVars
<1> QED BY <1>1, <1>2 DEF IInv, FinalizedOnce, ListensFrom, SubscriptionReturnsFirst, Finalizes, Matches

\* An attempt goes on with signatures of the log; those it vouches for and has
\* passed over do not carry the event.
LEMMA AttemptGoesOn ==
  ASSUME IInv, NEW p \in Poll, state[p] \in {"asking", "scanning"},
         NEW rest \in Seq(1 .. Len(log)), NEW good \in SUBSET (1 .. Len(log)),
         \A i \in good : ~Matches(log[i]) \/ \E j \in 1 .. Len(rest) : rest[j] = i,
         GoOn(p, rest, good), UNCHANGED <<log, result, attempt, subVars>>
  PROVE  IInv'
<1>0. TypeOK /\ log' = log /\ result' = result /\ attempt' = attempt /\ p \in Wait
  BY DEF IInv, Wait
<1>1. /\ todo' = [todo EXCEPT ![p] = rest]
      /\ listed' = [listed EXCEPT ![p] = good]
      /\ state' = [state EXCEPT ![p] = IF rest # << >> THEN "scanning" ELSE "pausing"]
      /\ covered' = [covered EXCEPT ![p] = IF rest # << >> THEN @ ELSE @ \cup good]
  BY <1>0 DEF GoOn, TypeOK
<1>2. TypeOK'
  BY <1>0, <1>1 DEF TypeOK, Pending, subVars
<1>3. ListedIsLookedAt'
  <2> SUFFICES ASSUME NEW q \in Poll, state'[q] # "resolved", NEW i \in listed'[q]
               PROVE  \/ ~Matches(log[i])
                      \/ state'[q] = "scanning" /\ \E j \in 1 .. Len(todo'[q]) : todo'[q][j] = i
    BY <1>0 DEF ListedIsLookedAt, Matches
  <2>1. CASE q = p
    BY <1>0, <1>1, <2>1 DEF TypeOK
  <2>2. CASE q # p
    BY <1>0, <1>1, <2>2 DEF TypeOK, IInv, ListedIsLookedAt, Wait
  <2> QED BY <2>1, <2>2
<1>4. ScanHasMore'
  BY <1>0, <1>1 DEF TypeOK, IInv, ScanHasMore, Wait
<1>5. PollMissesNothing'
  <2> SUFFICES ASSUME NEW q \in Poll, state'[q] # "resolved", NEW i \in covered'[q]
               PROVE  ~Matches(log[i])
    BY <1>0 DEF PollMissesNothing, Matches
  <2>1. CASE q = p
    <3>1. i \in covered[p] \/ (rest = << >> /\ i \in good)
      BY <1>0, <1>1, <2>1 DEF TypeOK
    <3>2. rest = << >> => Len(rest) = 0
      OBVIOUS
    <3>3. i \in good /\ rest = << >> => ~Matches(log[i])
      BY <3>2
    <3> QED BY <3>1, <3>3 DEF IInv, PollMissesNothing
  <2>2. CASE q # p
    BY <1>0, <1>1, <2>2 DEF TypeOK, IInv, PollMissesNothing, Wait
  <2> QED BY <2>1, <2>2
<1>6. AttemptsLeft'
  BY <1>0, <1>1 DEF TypeOK, IInv, AttemptsLeft, Wait
<1>7. FinalizedOnce' /\ ListensFrom' /\ SubscriptionReturnsFirst'
  BY <1>0, <1>1, SubscriptionsAreLeft DEF TypeOK
<1> QED BY <1>2, <1>3, <1>4, <1>5, <1>6, <1>7 DEF IInv

\* The signatures that a request returns are of the log.
LEMMA SignaturesOfLog ==
  ASSUME TypeOK, NEW n \in 0 .. Len(log)
  PROVE  Signatures(n) \in Seq(1 .. Len(log))
<1> DEFINE size == IF n < Window THEN n ELSE Window
<1>1. n \in Nat /\ size \in 0 .. n /\ Len(log) \in Nat
  BY ConstantsAssumption, LogType
<1>2. \A j \in 1 .. size : n - j + 1 \in 1 .. Len(log)
  BY <1>1
<1> QED BY <1>1, <1>2 DEF Signatures

\* Every step of a poll keeps the invariant.
LEMMA PollSteps ==
  ASSUME IInv, NEW p \in Poll, awaitComputationFinalization(p) \/ ProceedPoll(p)
  PROVE  IInv'
<1>0. TypeOK /\ p \in Wait
  BY DEF IInv, Wait
<1>1. CASE SignaturesRead(p)
  <2>1. PICK n \in 0 .. Len(log) :
           GoOn(p, Signatures(n),
                IF n = Len(log) THEN {Signatures(n)[j] : j \in DOMAIN Signatures(n)} ELSE {})
    BY <1>1 DEF SignaturesRead
  <2> DEFINE good == IF n = Len(log) THEN {Signatures(n)[j] : j \in DOMAIN Signatures(n)} ELSE {}
  <2>2. Signatures(n) \in Seq(1 .. Len(log))
    BY <1>0, SignaturesOfLog
  <2>3. /\ good \in SUBSET (1 .. Len(log))
        /\ \A i \in good : \E j \in 1 .. Len(Signatures(n)) : Signatures(n)[j] = i
    BY <2>2
  <2> QED BY <1>0, <1>1, <2>1, <2>2, <2>3, AttemptGoesOn DEF SignaturesRead
<1>2. CASE TransactionMissing(p)
  <2>1. todo[p] # << >> /\ todo[p] \in Seq(1 .. Len(log))
    BY <1>0, <1>2, LogType DEF IInv, ScanHasMore, TransactionMissing
  <2>2. Tail(todo[p]) \in Seq(1 .. Len(log))
    BY <2>1, TailFacts
  <2> QED BY <1>0, <1>2, <2>2, AttemptGoesOn DEF TransactionMissing
<1>3. CASE TransactionRead(p)
  <2>1. todo[p] # << >> /\ todo[p] \in Seq(1 .. Len(log)) /\ state[p] = "scanning"
    BY <1>0, <1>3, LogType DEF IInv, ScanHasMore, TransactionRead
  <2>2. Head(todo[p]) \in 1 .. Len(log) /\ Tail(todo[p]) \in Seq(1 .. Len(log))
    BY <2>1, TailFacts
  <2>3. CASE Matches(log[Head(todo[p])])
    <3>1. /\ state' = [state EXCEPT ![p] = "resolved"]
          /\ result' = [result EXCEPT ![p] = Head(todo[p])]
          /\ UNCHANGED <<log, pollVars, subVars>>
      BY <1>3, <2>3 DEF TransactionRead, Return, pollVars
    <3>2. TypeOK'
      BY <1>0, <2>2, <3>1 DEF TypeOK, pollVars, subVars
    <3>3. ListedIsLookedAt' /\ ScanHasMore' /\ PollMissesNothing'
      BY <1>0, <3>1 DEF TypeOK, pollVars, IInv, ListedIsLookedAt, ScanHasMore, PollMissesNothing, Matches, Wait
    <3>4. AttemptsLeft'
      BY <1>0, <3>1 DEF TypeOK, pollVars, IInv, AttemptsLeft, Wait
    <3>5. FinalizedOnce' /\ ListensFrom' /\ SubscriptionReturnsFirst'
      BY <1>0, <3>1, SubscriptionsAreLeft DEF TypeOK
    <3> QED BY <3>2, <3>3, <3>4, <3>5 DEF IInv
  <2>4. CASE ~Matches(log[Head(todo[p])])
    <3>1. /\ GoOn(p, Tail(todo[p]), listed[p])
          /\ UNCHANGED <<log, result, attempt, subVars>>
      BY <1>3, <2>4 DEF TransactionRead
    <3>2. listed[p] \in SUBSET (1 .. Len(log))
      BY <1>0 DEF TypeOK
    <3>3. \A i \in listed[p] : \/ ~Matches(log[i])
                               \/ \E j \in 1 .. Len(Tail(todo[p])) : Tail(todo[p])[j] = i
      <4> SUFFICES ASSUME NEW i \in listed[p], Matches(log[i])
                   PROVE  \E j \in 1 .. Len(Tail(todo[p])) : Tail(todo[p])[j] = i
        OBVIOUS
      <4>1. PICK j \in 1 .. Len(todo[p]) : todo[p][j] = i
        BY <2>1 DEF IInv, ListedIsLookedAt
      <4>2. j # 1
        BY <2>1, <2>4, <4>1, TailFacts
      <4> QED BY <2>1, <4>1, <4>2, TailFacts
    <3> QED BY <2>1, <2>2, <3>1, <3>2, <3>3, AttemptGoesOn
  <2> QED BY <2>3, <2>4
<1>4. ASSUME awaitComputationFinalization(p) \/ PollError(p) \/ Paused(p)
      PROVE  IInv'
  <2>1. /\ state[p] \in {"idle", "asking", "scanning", "pausing"}
        /\ \E st \in {"asking", "pausing", "rejected"} : state' = [state EXCEPT ![p] = st]
        /\ \/ listed' = listed /\ state[p] # "scanning"
           \/ listed' = [listed EXCEPT ![p] = {}]
        /\ UNCHANGED <<log, result, todo, covered, subVars>>
    BY <1>4 DEF awaitComputationFinalization, PollError, Paused, pollVars
  <2>2. TypeOK'
    <3>1. \/ attempt' = attempt
          \/ attempt' = [attempt EXCEPT ![p] = @ + 1] /\ state[p] = "pausing"
      BY <1>4 DEF awaitComputationFinalization, PollError, Paused, pollVars
    <3>2. state[p] = "pausing" => attempt[p] + 1 \in 0 .. MaxAttempts
      BY <1>0, ConstantsAssumption DEF TypeOK, IInv, AttemptsLeft
    <3>3. attempt' \in [Poll -> 0 .. MaxAttempts]
      BY <1>0, <3>1, <3>2 DEF TypeOK
    <3> QED BY <1>0, <2>1, <3>3 DEF TypeOK, Pending, subVars
  <2>3. ListedIsLookedAt' /\ ScanHasMore' /\ PollMissesNothing'
    <3>1. \A q \in Poll :
            /\ state'[q] # "resolved" => state[q] # "resolved"
            /\ state'[q] = "scanning" => state[q] = "scanning"
            /\ \/ listed'[q] = listed[q] /\ (state[q] = "scanning" => state'[q] = "scanning")
               \/ listed'[q] = {}
      BY <1>0, <2>1 DEF TypeOK, Wait
    <3>2. ListedIsLookedAt'
      <4> SUFFICES ASSUME NEW q \in Poll, state'[q] # "resolved", NEW i \in listed'[q]
                   PROVE  \/ ~Matches(log[i])
                          \/ state'[q] = "scanning" /\ \E j \in 1 .. Len(todo[q]) : todo[q][j] = i
        BY <2>1 DEF ListedIsLookedAt, Matches
      <4>1. /\ state[q] # "resolved"
            /\ i \in listed[q]
            /\ state[q] = "scanning" => state'[q] = "scanning"
        BY <3>1
      <4> QED BY <4>1 DEF IInv, ListedIsLookedAt
    <3>3. ScanHasMore' /\ PollMissesNothing'
      BY <2>1, <3>1 DEF IInv, ScanHasMore, PollMissesNothing, Matches
    <3> QED BY <3>2, <3>3
  <2>4. AttemptsLeft'
    BY <1>0, <1>4, ConstantsAssumption
    DEF awaitComputationFinalization, PollError, Paused, pollVars, TypeOK, IInv, AttemptsLeft, Wait
  <2>5. FinalizedOnce' /\ ListensFrom' /\ SubscriptionReturnsFirst'
    BY <1>0, <2>1, SubscriptionsAreLeft DEF TypeOK
  <2> QED BY <2>2, <2>3, <2>4, <2>5 DEF IInv
<1> QED BY <1>1, <1>2, <1>3, <1>4 DEF ProceedPoll

-----------------------------------------------------------------------------
\* Steps of a subscription and of the Arcium program.

\* A subscription leaves the polls alone.
LEMMA PollsAreLeft ==
  ASSUME IInv, NEW s \in Sub, UNCHANGED <<log, pollVars>>,
         \A w \in Wait \ {s} : state'[w] = state[w]
  PROVE  ListedIsLookedAt' /\ ScanHasMore' /\ AttemptsLeft' /\ PollMissesNothing' /\ FinalizedOnce'
<1>1. \A p \in Poll : p \in Wait \ {s} /\ state'[p] = state[p]
  BY ConstantsAssumption DEF Wait
<1>2. log' = log /\ attempt' = attempt /\ todo' = todo /\ listed' = listed /\ covered' = covered
  BY DEF pollVars
<1> QED BY <1>1, <1>2 DEF IInv, ListedIsLookedAt, ScanHasMore, AttemptsLeft, PollMissesNothing,
                          FinalizedOnce, Finalizes, Matches

\* The call is made, the stream ends or fails, or the time is over.
SubscriptionPasses(s) ==
  \/ awaitComputationFinalizationSubscription(s)
  \/ StreamEnded(s)
  \/ StreamFailed(s)
  \/ Timeout(s)

\* Every step of a subscription keeps the invariant.
LEMMA SubscriptionSteps ==
  ASSUME IInv, NEW s \in Sub, SubscriptionPasses(s) \/ Subscribed(s) \/ Notified(s)
  PROVE  IInv'
<1>0. TypeOK /\ s \in Wait /\ Len(log) \in Nat
  BY LogType DEF IInv, Wait
<1>1. CASE SubscriptionPasses(s)
  <2>1. /\ \E st \in {"subscribing", "closed", "rejected"} : state' = [state EXCEPT ![s] = st]
        /\ \E b \in BOOLEAN : timer' = [timer EXCEPT ![s] = b]
        /\ UNCHANGED <<log, result, from, read, pollVars>>
    <3>1. CASE awaitComputationFinalizationSubscription(s)
      BY <3>1 DEF awaitComputationFinalizationSubscription
    <3>2. CASE StreamEnded(s)
      <4>1. timer' = [timer EXCEPT ![s] = timer[s]] /\ timer[s] \in BOOLEAN
        BY <1>0, <3>2 DEF StreamEnded, TypeOK, subVars
      <4> QED BY <3>2, <4>1 DEF StreamEnded, subVars
    <3>3. CASE StreamFailed(s)
      BY <3>3 DEF StreamFailed
    <3>4. CASE Timeout(s)
      BY <3>4 DEF Timeout
    <3> QED BY <1>1, <3>1, <3>2, <3>3, <3>4 DEF SubscriptionPasses
  <2>2. TypeOK'
    BY <1>0, <2>1 DEF TypeOK, Pending, pollVars
  <2>3. ListedIsLookedAt' /\ ScanHasMore' /\ AttemptsLeft' /\ PollMissesNothing' /\ FinalizedOnce'
    BY <1>0, <2>1, PollsAreLeft DEF TypeOK
  <2>4. ListensFrom' /\ SubscriptionReturnsFirst'
    BY <1>0, <2>1 DEF IInv, TypeOK, ListensFrom, SubscriptionReturnsFirst, Finalizes, Matches, Wait
  <2> QED BY <2>2, <2>3, <2>4 DEF IInv
<1>2. CASE Subscribed(s)
  <2>1. /\ state' = [state EXCEPT ![s] = "listening"]
        /\ from' = [from EXCEPT ![s] = Len(log)]
        /\ read' = [read EXCEPT ![s] = Len(log)]
        /\ UNCHANGED <<log, result, timer, pollVars>>
    BY <1>2 DEF Subscribed
  <2>2. TypeOK'
    BY <1>0, <2>1 DEF TypeOK, Pending, pollVars
  <2>3. ListedIsLookedAt' /\ ScanHasMore' /\ AttemptsLeft' /\ PollMissesNothing' /\ FinalizedOnce'
    BY <1>0, <2>1, PollsAreLeft DEF TypeOK
  <2>4. ListensFrom' /\ SubscriptionReturnsFirst'
    <3> SUFFICES ASSUME NEW r \in Sub
                 PROVE  /\ from'[r] <= read'[r]
                        /\ \A i \in from'[r] + 1 .. read'[r] : Finalizes(i) => i = result[r]
                        /\ state'[r] = "resolved" => from'[r] < result[r] /\ Finalizes(result[r])
      BY <2>1 DEF ListensFrom, SubscriptionReturnsFirst, Finalizes, Matches
    <3>1. CASE r = s
      BY <1>0, <2>1, <3>1 DEF TypeOK
    <3>2. CASE r # s
      BY <1>0, <2>1, <3>2 DEF TypeOK, IInv, ListensFrom, SubscriptionReturnsFirst, Wait
    <3> QED BY <3>1, <3>2
  <2> QED BY <2>2, <2>3, <2>4 DEF IInv
<1>3. CASE Notified(s)
  <2> DEFINE n == read[s] + 1
  <2>1. /\ state[s] = "listening"
        /\ read[s] < Len(log)
        /\ read' = [read EXCEPT ![s] = n]
        /\ UNCHANGED <<log, from, pollVars>>
        /\ IF Finalizes(n)
             THEN /\ state' = [state EXCEPT ![s] = "resolved"]
                  /\ result' = [result EXCEPT ![s] = n]
                  /\ timer' = [timer EXCEPT ![s] = FALSE]
             ELSE UNCHANGED <<state, result, timer>>
    BY <1>3 DEF Notified, Return, Finalizes
  <2>2. n \in 1 .. Len(log) /\ from[s] < n /\ from[s] \in Nat /\ read[s] \in Nat
    BY <1>0, <2>1 DEF TypeOK, IInv, ListensFrom
  <2>3. TypeOK'
    <3>1. read' \in [Sub -> 0 .. Len(log)]
      BY <1>0, <2>1, <2>2 DEF TypeOK
    <3>2. /\ state' \in [Wait -> Pending \cup {"idle", "resolved", "rejected"}]
          /\ result' \in [Wait -> 0 .. Len(log)]
          /\ timer' \in [Sub -> BOOLEAN]
      <4>1. CASE Finalizes(n)
        <5>1. /\ state' = [state EXCEPT ![s] = "resolved"]
              /\ result' = [result EXCEPT ![s] = n]
              /\ timer' = [timer EXCEPT ![s] = FALSE]
          BY <2>1, <4>1
        <5>2. n \in 0 .. Len(log)
          BY <1>0, <2>2
        <5> HIDE DEF n
        <5> QED BY <1>0, <5>1, <5>2 DEF TypeOK
      <4>2. CASE ~Finalizes(n)
        BY <1>0, <2>1, <4>2 DEF TypeOK
      <4> QED BY <4>1, <4>2
    <3> QED BY <1>0, <2>1, <3>1, <3>2 DEF TypeOK, pollVars
  <2>4. ListedIsLookedAt' /\ ScanHasMore' /\ AttemptsLeft' /\ PollMissesNothing' /\ FinalizedOnce'
    BY <1>0, <2>1, PollsAreLeft DEF TypeOK
  <2>5. ListensFrom' /\ SubscriptionReturnsFirst'
    <3> SUFFICES ASSUME NEW r \in Sub
                 PROVE  /\ from[r] <= read'[r]
                        /\ \A i \in from[r] + 1 .. read'[r] : Finalizes(i) => i = result'[r]
                        /\ state'[r] = "resolved" => from[r] < result'[r] /\ Finalizes(result'[r])
      BY <2>1 DEF ListensFrom, SubscriptionReturnsFirst, Finalizes, Matches
    <3>1. CASE r = s
      <4>1. read'[s] = n
        BY <1>0, <2>1 DEF TypeOK
      <4>2. \A i \in from[s] + 1 .. n : i \in 1 .. Len(log) /\ (i = n \/ i \in from[s] + 1 .. read[s])
        BY <1>0, <2>2
      <4>3. CASE Finalizes(n)
        <5>1. state'[s] = "resolved" /\ result'[s] = n
          BY <1>0, <2>1, <4>3 DEF TypeOK
        <5>2. \A i \in from[s] + 1 .. n : Finalizes(i) => i = n
          BY <2>2, <4>2, <4>3 DEF IInv, FinalizedOnce
        <5> QED BY <2>2, <3>1, <4>1, <4>3, <5>1, <5>2
      <4>4. CASE ~Finalizes(n)
        <5>1. state'[s] = "listening" /\ result'[s] = result[s]
          BY <2>1, <4>4
        <5>2. \A i \in from[s] + 1 .. n : Finalizes(i) => i = result[s]
          BY <4>2, <4>4 DEF IInv, SubscriptionReturnsFirst
        <5> QED BY <2>2, <3>1, <4>1, <5>1, <5>2
      <4> QED BY <4>3, <4>4
    <3>2. CASE r # s
      <4>1. read'[r] = read[r] /\ state'[r] = state[r] /\ result'[r] = result[r]
        BY <1>0, <2>1, <3>2 DEF TypeOK, Wait
      <4> QED BY <4>1 DEF IInv, ListensFrom, SubscriptionReturnsFirst
    <3> QED BY <3>1, <3>2
  <2> QED BY <2>3, <2>4, <2>5 DEF IInv
<1> QED BY <1>1, <1>2, <1>3

\* A transaction that lands keeps the invariant: no second one finalizes.
LEMMA ConfirmStep ==
  ASSUME IInv, NEW t \in Tx, Confirm(t)
  PROVE  IInv'
<1>0. TypeOK /\ Len(log) \in Nat /\ log \in Seq(Tx)
  BY LogType DEF IInv, TypeOK
<1>1. /\ log' = Append(log, t)
      /\ Len(log) < MaxTx
      /\ UNCHANGED <<state, result, attempt, todo, listed, covered, from, read, timer>>
  BY DEF Confirm, pollVars, subVars
<1>2. /\ log' \in Seq(Tx)
      /\ Len(log') = Len(log) + 1
      /\ \A i \in 1 .. Len(log) : log'[i] = log[i]
      /\ log'[Len(log) + 1] = t
  BY <1>0, <1>1
<1>3. TypeOK'
  <2>1. 1 .. Len(log) \subseteq 1 .. Len(log') /\ 0 .. Len(log) \subseteq 0 .. Len(log')
    BY <1>0, <1>2
  <2>2. \A seq \in Seq(1 .. Len(log)) : seq \in Seq(1 .. Len(log'))
    <3> SUFFICES ASSUME NEW seq \in Seq(1 .. Len(log)) PROVE seq \in Seq(1 .. Len(log'))
      OBVIOUS
    <3>1. seq \in [1 .. Len(seq) -> 1 .. Len(log)] /\ Len(seq) \in Nat
      OBVIOUS
    <3>2. seq \in [1 .. Len(seq) -> 1 .. Len(log')]
      BY <2>1, <3>1
    <3> QED BY <3>1, <3>2
  <2>3. todo' \in [Poll -> Seq(1 .. Len(log'))]
    BY <1>0, <1>1, <2>2 DEF TypeOK
  <2>4. listed' \in [Poll -> SUBSET (1 .. Len(log'))] /\ covered' \in [Poll -> SUBSET (1 .. Len(log'))]
    BY <1>0, <1>1, <2>1 DEF TypeOK
  <2>5. result' \in [Wait -> 0 .. Len(log')]
    BY <1>0, <1>1, <2>1 DEF TypeOK
  <2>6. from' \in [Sub -> 0 .. Len(log')] /\ read' \in [Sub -> 0 .. Len(log')]
    BY <1>0, <1>1, <2>1 DEF TypeOK
  <2>7. Len(log') <= MaxTx
    BY <1>0, <1>1, <1>2, ConstantsAssumption
  <2> QED BY <1>0, <1>1, <1>2, <2>3, <2>4, <2>5, <2>6, <2>7 DEF TypeOK
<1>4. \A i \in 1 .. Len(log) : (Matches(log[i]) <=> Matches(log'[i])) /\ (Finalizes(i)' <=> Finalizes(i))
  BY <1>2 DEF Finalizes, Matches
<1>5. ListedIsLookedAt' /\ PollMissesNothing'
  <2>1. \A p \in Poll : listed[p] \subseteq 1 .. Len(log) /\ covered[p] \subseteq 1 .. Len(log)
    BY <1>0 DEF TypeOK
  <2>2. ListedIsLookedAt'
    BY <1>1, <1>2, <2>1 DEF IInv, ListedIsLookedAt, Matches
  <2>3. PollMissesNothing'
    BY <1>1, <1>2, <2>1 DEF IInv, PollMissesNothing, Matches
  <2> QED BY <2>2, <2>3
<1>6. ScanHasMore' /\ AttemptsLeft' /\ ListensFrom'
  BY <1>1 DEF IInv, ScanHasMore, AttemptsLeft, ListensFrom
<1>7. FinalizedOnce'
  <2> DEFINE n == Len(log) + 1
  <2>1. ~t.err /\ Matches(t) => \A i \in 1 .. Len(log) : ~Finalizes(i)
    BY DEF Confirm, Finalizes
  <2>2. \A i \in 1 .. Len(log') : i = n \/ i \in 1 .. Len(log)
    BY <1>0, <1>2
  <2> SUFFICES ASSUME NEW i \in 1 .. Len(log'), NEW j \in 1 .. Len(log'), Finalizes(i)', Finalizes(j)'
               PROVE  i = j
    BY DEF FinalizedOnce
  <2>3. \A k \in {i, j} : k = n => ~t.err /\ Matches(t)
    BY <1>2 DEF Finalizes, Matches
  <2>4. \A k \in {i, j} : k = n \/ (k \in 1 .. Len(log) /\ Finalizes(k))
    BY <1>4, <2>2
  <2> HIDE DEF n
  <2> QED BY <2>1, <2>3, <2>4 DEF IInv, FinalizedOnce
<1>8. SubscriptionReturnsFirst'
  <2> SUFFICES ASSUME NEW s \in Sub
               PROVE  /\ \A i \in from[s] + 1 .. read[s] : Finalizes(i)' => i = result[s]
                      /\ state[s] = "resolved" =>
                           from[s] < result[s] /\ ~log'[result[s]].err /\ Matches(log'[result[s]])
    BY <1>1 DEF SubscriptionReturnsFirst, Finalizes, Matches
  <2>1. from[s] \in Nat /\ read[s] \in 0 .. Len(log) /\ result[s] \in 0 .. Len(log)
    BY <1>0, ConstantsAssumption DEF TypeOK, Wait
  <2>2. \A i \in from[s] + 1 .. read[s] : i \in 1 .. Len(log)
    BY <1>0, <2>1
  <2>3. from[s] < result[s] => result[s] \in 1 .. Len(log)
    BY <1>0, <2>1
  <2>4. \A i \in from[s] + 1 .. read[s] : Finalizes(i)' => i = result[s]
    BY <1>4, <2>2 DEF IInv, SubscriptionReturnsFirst
  <2>5. state[s] = "resolved" => from[s] < result[s] /\ Finalizes(result[s])
    BY DEF IInv, SubscriptionReturnsFirst
  <2>6. result[s] \in 1 .. Len(log) => log'[result[s]] = log[result[s]]
    BY <1>2
  <2> QED BY <2>3, <2>4, <2>5, <2>6 DEF Finalizes
<1> QED BY <1>3, <1>5, <1>6, <1>7, <1>8 DEF IInv

-----------------------------------------------------------------------------
\* Theorems.

LEMMA InitIInv == Init => IInv
<1> SUFFICES ASSUME Init PROVE IInv
  OBVIOUS
<1>1. Len(log) = 0 /\ log \in Seq(Tx)
  BY DEF Init
<1>2. TypeOK
  BY <1>1, ConstantsAssumption DEF Init, TypeOK, Pending
<1>3. FinalizedOnce
  BY <1>1 DEF FinalizedOnce
<1>4. ListedIsLookedAt /\ ScanHasMore /\ AttemptsLeft /\ PollMissesNothing
  BY ConstantsAssumption DEF Init, ListedIsLookedAt, ScanHasMore, AttemptsLeft, PollMissesNothing, Wait
<1>5. ListensFrom /\ SubscriptionReturnsFirst
  BY DEF Init, ListensFrom, SubscriptionReturnsFirst, Wait
<1> QED BY <1>2, <1>3, <1>4, <1>5 DEF IInv

\* Every step keeps the invariant.
LEMMA NextIInv == IInv /\ [Next]_vars => IInv'
<1> SUFFICES ASSUME IInv, [Next]_vars PROVE IInv'
  OBVIOUS
<1>1. ASSUME NEW p \in Poll, awaitComputationFinalization(p) \/ ProceedPoll(p)
      PROVE  IInv'
  BY <1>1, PollSteps
<1>2. ASSUME NEW s \in Sub, SubscriptionPasses(s) \/ Subscribed(s) \/ Notified(s)
      PROVE  IInv'
  BY <1>2, SubscriptionSteps
<1>3. ASSUME NEW t \in Tx, Confirm(t)
      PROVE  IInv'
  BY <1>3, ConfirmStep
<1>4. CASE UNCHANGED vars
  BY <1>4 DEF vars, IInv, TypeOK, ListedIsLookedAt, ScanHasMore, AttemptsLeft, PollMissesNothing,
              FinalizedOnce, ListensFrom, SubscriptionReturnsFirst, Finalizes, Matches
<1> QED BY <1>1, <1>2, <1>3, <1>4 DEF Next, SubscriptionPasses

\* The invariant holds in every reachable state.
THEOREM Invariance == Spec => []IInv
BY InitIInv, NextIInv, PTL DEF Spec

\* Every variable of the two waits keeps its type: the index of the poll never passes
\* the attempts, and every signature kept is of the log.
THEOREM TypeCorrectness == Spec => []TypeOK
BY Invariance, PTL DEF IInv

\* A poll that has not resolved was never shown the event by an attempt that went
\* through without an error, whatever nodes, windows and logs.
THEOREM PollsMissNothing == Spec => []PollMissesNothing
BY Invariance, PTL DEF IInv

\* A subscription returns the first transaction after it was established that finalizes
\* the computation, and none passes it by.
THEOREM SubscriptionsReturnFirst == Spec => []SubscriptionReturnsFirst
BY Invariance, PTL DEF IInv

-----------------------------------------------------------------------------
\* RescueCipher: bits.

\* A set of natural numbers that is not empty has a least one.
LEMMA LeastOfNat ==
  ASSUME NEW T, T \subseteq Nat, T # {}
  PROVE  \E i \in T : \A j \in T : i <= j
<1> DEFINE R == OpToRel(<, Nat)
<1>1. IsWellFoundedOn(R, Nat)
  BY NatLessThanWellFounded
<1>2. \A i, j \in Nat : <<j, i>> \in R <=> j < i
  BY DEF OpToRel
<1> HIDE DEF R
<1>3. PICK i \in T : \A j \in T : ~(<<j, i>> \in R)
  BY <1>1, WFMin
<1>4. \A j \in T : i \in Nat /\ j \in Nat /\ ~(j < i)
  BY <1>2, <1>3
<1> QED BY <1>4

\* Induction over the naturals, for a set in the place of a predicate.
LEMMA InductionOfNat ==
  ASSUME NEW T, 0 \in T, \A n \in Nat : n \in T => n + 1 \in T
  PROVE  Nat \subseteq T
<1> SUFFICES ASSUME Nat \ T # {} PROVE FALSE
  OBVIOUS
<1>1. PICK i \in Nat \ T : \A j \in Nat \ T : i <= j
  BY LeastOfNat
<1>2. i # 0 /\ i - 1 \in Nat
  BY <1>1
<1>3. i - 1 \in T
  BY <1>1, <1>2
<1>4. (i - 1) + 1 \in T
  BY <1>2, <1>3
<1> QED BY <1>1, <1>4

\* Value i + 1 of a sequence in V from its value i, for every i.
Steps(V) == [Nat -> [V -> V]]

\* f is the iteration of G from c.
Iterates(f, c, G) == f[0] = c /\ \A i \in Nat : f[i + 1] = G[i][f[i]]

\* A function can be defined by its value at 0 and that at i + 1 given that at i.
LEMMA IterationOfNat ==
  ASSUME NEW V, NEW c \in V, NEW G \in Steps(V)
  PROVE  \E f \in [Nat -> V] : Iterates(f, c, G)
<1> USE DEF Steps, Iterates
<1> DEFINE Starts(f, n) == /\ f \in [0 .. n -> V]
                           /\ f[0] = c
                           /\ \A i \in 0 .. n - 1 : f[i + 1] = G[i][f[i]]
<1>1. ASSUME NEW n \in Nat, NEW f, Starts(f, n)
      PROVE  \E g : Starts(g, n + 1)
  <2> DEFINE g == [i \in 0 .. n + 1 |-> IF i <= n THEN f[i] ELSE G[n][f[n]]]
  <2>1. f[n] \in V /\ G[n][f[n]] \in V
    BY <1>1
  <2>2. g \in [0 .. n + 1 -> V]
    BY <1>1, <2>1
  <2>3. ASSUME NEW i \in 0 .. n PROVE g[i + 1] = G[i][g[i]]
    <3>1. CASE i < n
      <4>1. g[i] = f[i] /\ g[i + 1] = f[i + 1] /\ i \in 0 .. n - 1
        BY <3>1
      <4> QED BY <1>1, <4>1
    <3>2. CASE i = n
      BY <3>2
    <3> QED BY <3>1, <3>2
  <2>4. g[0] = c
    BY <1>1
  <2>5. (n + 1) - 1 = n
    OBVIOUS
  <2> HIDE DEF g
  <2>6. Starts(g, n + 1)
    BY <2>2, <2>3, <2>4, <2>5
  <2> QED BY <2>6
<1>2. \A n \in Nat : \E f : Starts(f, n)
  <2> DEFINE T == {n \in Nat : \E f : Starts(f, n)}
  <2>1. Starts([i \in 0 .. 0 |-> c], 0)
    OBVIOUS
  <2>2. 0 \in T
    BY <2>1
  <2> HIDE DEF Starts
  <2>3. \A n \in Nat : n \in T => n + 1 \in T
    BY <1>1
  <2> HIDE DEF T
  <2>4. Nat \subseteq T
    BY <2>2, <2>3, InductionOfNat
  <2> QED BY <2>4 DEF T
<1>3. ASSUME NEW n \in Nat, NEW m \in Nat, m <= n, NEW f, Starts(f, n), NEW g, Starts(g, m)
      PROVE  \A i \in 0 .. m : f[i] = g[i]
  <2> DEFINE T == {i \in Nat : i <= m => f[i] = g[i]}
  <2>1. 0 \in T
    BY <1>3
  <2>2. ASSUME NEW i \in Nat, i \in T PROVE i + 1 \in T
    <3>1. CASE i + 1 <= m
      <4>1. f[i] = g[i] /\ i \in 0 .. m - 1 /\ i \in 0 .. n - 1
        BY <1>3, <2>2, <3>1
      <4>2. f[i + 1] = G[i][f[i]] /\ g[i + 1] = G[i][g[i]]
        BY <1>3, <4>1
      <4> QED BY <4>1, <4>2
    <3> QED BY <3>1
  <2> HIDE DEF T
  <2>3. Nat \subseteq T
    BY <2>1, <2>2, InductionOfNat
  <2> QED BY <2>3 DEF T
<1> DEFINE F == [n \in Nat |-> CHOOSE f : Starts(f, n)]
<1> DEFINE f == [n \in Nat |-> F[n][n]]
<1>4. \A n \in Nat : Starts(F[n], n)
  <2> HIDE DEF Starts
  <2> QED BY <1>2
<1> HIDE DEF F
<1>5. f \in [Nat -> V]
  BY <1>4
<1>6. f[0] = c
  BY <1>4
<1>7. ASSUME NEW i \in Nat PROVE f[i + 1] = G[i][f[i]]
  <2>1. F[i + 1][i] = F[i][i]
    <3>1. i + 1 \in Nat /\ i <= i + 1 /\ i \in 0 .. i
      OBVIOUS
    <3>2. Starts(F[i + 1], i + 1) /\ Starts(F[i], i)
      BY <1>4, <3>1
    <3> HIDE DEF Starts
    <3> QED BY <1>3, <3>1, <3>2
  <2>2. F[i + 1][i + 1] = G[i][F[i + 1][i]]
    BY <1>4
  <2> QED BY <2>1, <2>2
<1> QED BY <1>5, <1>6, <1>7

\* 2^n is the double of 2^(n - 1).
LEMMA TwoToIsIterated ==
  /\ TwoTo \in [Nat -> Nat]
  /\ TwoTo[0] = 1
  /\ \A n \in Nat : TwoTo[n + 1] = 2 * TwoTo[n]
<1> DEFINE Def(f) == [n \in Nat |-> IF n = 0 THEN 1 ELSE 2 * f[n - 1]]
<1> DEFINE G == [n \in Nat |-> [v \in Nat |-> 2 * v]]
<1>1. PICK f \in [Nat -> Nat] : Iterates(f, 1, G)
  <2>1. G \in Steps(Nat) /\ 1 \in Nat
    BY DEF Steps
  <2> HIDE DEF G
  <2> QED BY <2>1, IterationOfNat
<1>2. \A i \in Nat : f[i + 1] = 2 * f[i]
  BY <1>1 DEF Iterates
<1>3. ASSUME NEW n \in Nat PROVE f[n] = IF n = 0 THEN 1 ELSE 2 * f[n - 1]
  <2>1. CASE n # 0
    <3>1. n - 1 \in Nat /\ (n - 1) + 1 = n
      BY <2>1
    <3> QED BY <1>2, <2>1, <3>1
  <2> QED BY <1>1, <2>1 DEF Iterates
<1>4. f = Def(f)
  BY <1>1, <1>3
<1>5. TwoTo = CHOOSE g : g = Def(g)
  BY DEF TwoTo
<1>6. TwoTo = Def(TwoTo)
  BY <1>4, <1>5
<1>7. \A n \in Nat : TwoTo[n] = IF n = 0 THEN 1 ELSE 2 * TwoTo[n - 1]
  BY <1>6
<1>8. \A n \in Nat : TwoTo[n + 1] = 2 * TwoTo[n]
  BY <1>7
<1>9. \A n \in Nat : TwoTo[n] \in Nat
  <2> DEFINE T == {n \in Nat : TwoTo[n] \in Nat}
  <2>1. 0 \in T
    BY <1>7
  <2>2. \A n \in Nat : n \in T => n + 1 \in T
    BY <1>8
  <2> HIDE DEF T
  <2>3. Nat \subseteq T
    BY <2>1, <2>2, InductionOfNat
  <2> QED BY <2>3 DEF T
<1> QED BY <1>6, <1>7, <1>8, <1>9

\* Powers of two are positive, outgrow their exponents and do not decrease.
LEMMA PowersGrow ==
  /\ \A n \in Nat : TwoTo[n] \in Nat /\ TwoTo[n] > n
  /\ \A m, n \in Nat : m <= n => TwoTo[m] <= TwoTo[n]
<1>1. \A n \in Nat : TwoTo[n] \in Nat
  BY TwoToIsIterated
<1>2. \A n \in Nat : TwoTo[n] > n
  <2> DEFINE T == {n \in Nat : TwoTo[n] > n}
  <2>1. 0 \in T
    BY TwoToIsIterated
  <2>2. \A n \in Nat : n \in T => n + 1 \in T
    BY TwoToIsIterated
  <2> HIDE DEF T
  <2>3. Nat \subseteq T
    BY <2>1, <2>2, InductionOfNat
  <2> QED BY <2>3 DEF T
<1>3. ASSUME NEW m \in Nat PROVE \A n \in Nat : m <= n => TwoTo[m] <= TwoTo[n]
  <2> DEFINE T == {n \in Nat : m <= n => TwoTo[m] <= TwoTo[n]}
  <2>1. 0 \in T
    <3>1. m <= 0 => m = 0
      OBVIOUS
    <3> QED BY <3>1, TwoToIsIterated
  <2>2. \A n \in Nat : n \in T => n + 1 \in T
    <3> SUFFICES ASSUME NEW n \in Nat, n \in T, m <= n + 1 PROVE TwoTo[m] <= TwoTo[n + 1]
      OBVIOUS
    <3>1. TwoTo[n + 1] = 2 * TwoTo[n] /\ TwoTo[n] \in Nat /\ TwoTo[m] \in Nat
      BY TwoToIsIterated
    <3>2. CASE m <= n
      BY <3>1, <3>2
    <3>3. CASE m = n + 1
      BY <3>1, <3>3
    <3> QED BY <3>2, <3>3
  <2> HIDE DEF T
  <2>3. Nat \subseteq T
    BY <2>1, <2>2, InductionOfNat
  <2> QED BY <2>3 DEF T
<1> QED BY <1>1, <1>2, <1>3

\* Log2 lies between two powers.
LEMMA LogIsBetween ==
  ASSUME NEW n \in Nat \ {0}
  PROVE  Log2(n) \in Nat /\ TwoTo[Log2(n)] <= n /\ n < TwoTo[Log2(n) + 1]
<1> DEFINE T == {k \in Nat : n < TwoTo[k + 1]}
<1>1. n \in T
  BY PowersGrow, TwoToIsIterated
<1>2. PICK k \in T : \A j \in T : k <= j
  BY <1>1, LeastOfNat
<1>3. k \in 0 .. n
  BY <1>1, <1>2
<1>4. TwoTo[k] <= n
  <2>1. CASE k = 0
    BY <2>1, TwoToIsIterated
  <2>2. CASE k # 0
    <3>1. k - 1 \in Nat /\ k - 1 \notin T /\ (k - 1) + 1 = k
      BY <1>2, <2>2
    <3>2. ~(n < TwoTo[k])
      BY <3>1
    <3> QED BY <1>3, <3>2, TwoToIsIterated
  <2> QED BY <2>1, <2>2
<1>5. \E l \in 0 .. n : TwoTo[l] <= n /\ n < TwoTo[l + 1]
  BY <1>2, <1>3, <1>4
<1> QED BY <1>5 DEF Log2

-----------------------------------------------------------------------------
\* One bit.
Bit(b) == IF b THEN 1 ELSE 0

\* What division is.
LEMMA Division ==
  ASSUME NEW x \in Int, NEW d \in Nat \ {0}
  PROVE  x \div d \in Int /\ x % d \in 0 .. d - 1 /\ x = d * (x \div d) + (x % d)
OBVIOUS

\* Quotient and remainder are the only ones.
LEMMA Divided ==
  ASSUME NEW x \in Int, NEW d \in Nat \ {0}, NEW q \in Int, NEW r \in 0 .. d - 1, x = d * q + r
  PROVE  q = x \div d /\ r = x % d
OBVIOUS

\* A bit is what division by one more power of two leaves.
LEMMA BitIsRemainder ==
  ASSUME NEW x \in Int, NEW i \in Nat
  PROVE  /\ x \div TwoTo[i] \in Int /\ x \div TwoTo[i + 1] \in Int
         /\ x \div TwoTo[i] = 2 * (x \div TwoTo[i + 1]) + Bit(ctSignBit(x, i))
         /\ x % TwoTo[i + 1] = (x % TwoTo[i]) + Weight(ctSignBit(x, i), i)
         /\ x % TwoTo[i] \in 0 .. TwoTo[i] - 1
<1> DEFINE d == TwoTo[i]
<1> DEFINE q == x \div d
<1>1. d \in Nat \ {0} /\ TwoTo[i + 1] = 2 * d
  BY PowersGrow, TwoToIsIterated, SMTT(40)
<1> HIDE DEF d
<1>2. q \in Int /\ x % d \in 0 .. d - 1 /\ x = d * q + (x % d)
  BY <1>1
<1> HIDE DEF q
<1>3. q \div 2 \in Int /\ q % 2 \in 0 .. 1 /\ q = 2 * (q \div 2) + (q % 2)
  BY <1>2
<1>4. x = (2 * d) * (q \div 2) + (d * (q % 2) + (x % d))
  <2>1. \A a, b, c \in Int : a * (2 * b + c) = (2 * a) * b + a * c
    OBVIOUS
  <2>2. d * q = (2 * d) * (q \div 2) + d * (q % 2)
    BY <1>1, <1>3, <2>1
  <2>3. d * q \in Int /\ (2 * d) * (q \div 2) \in Int /\ d * (q % 2) \in Int
    BY <1>1, <1>2, <1>3
  <2> QED BY <1>2, <2>2, <2>3
<1>5. d * (q % 2) + (x % d) \in 0 .. (2 * d) - 1
  <2>1. CASE q % 2 = 0
    BY <1>1, <1>2, <2>1
  <2>2. CASE q % 2 = 1
    BY <1>1, <1>2, <2>2
  <2> QED BY <1>3, <2>1, <2>2
<1>6. q \div 2 = x \div (2 * d) /\ x % (2 * d) = d * (q % 2) + (x % d)
  <2> DEFINE e == 2 * d
  <2> DEFINE k == q \div 2
  <2> DEFINE r == d * (q % 2) + (x % d)
  <2>1. e \in Nat \ {0} /\ k \in Int /\ r \in 0 .. e - 1 /\ x = e * k + r
    BY <1>1, <1>3, <1>4, <1>5
  <2> HIDE DEF e, k, r
  <2>2. k = x \div e /\ r = x % e
    BY <2>1, Divided
  <2> QED BY <2>2 DEF e, k, r
<1>7. ctSignBit(x, i) <=> q % 2 = 1
  BY DEF ctSignBit, q, d
<1>8. Weight(ctSignBit(x, i), i) = d * (q % 2) /\ Bit(ctSignBit(x, i)) = q % 2
  BY <1>1, <1>3, <1>7 DEF Weight, Bit, d
<1> QED BY <1>1, <1>2, <1>3, <1>6, <1>8 DEF q, d

\* One digit of an addition on paper.
LEMMA FullAdder ==
  ASSUME NEW p \in BOOLEAN, NEW q \in BOOLEAN, NEW c \in BOOLEAN
  PROVE  Bit(p) + Bit(q) + Bit(c) = 2 * Bit(q # ((q # c) /\ p # q)) + Bit(p # (q # c))
<1> DEFINE d == q # ((q # c) /\ p # q)
<1> DEFINE s == p # (q # c)
<1>1. d <=> (p /\ q) \/ (p /\ c) \/ (q /\ c)
  BY Zenon
<1>2. s <=> (p <=> (q <=> c))
  BY Zenon
<1> HIDE DEF d, s
<1>3. Bit(p) + Bit(q) + Bit(c) = 2 * Bit(d) + Bit(s)
  BY <1>1, <1>2 DEF Bit
<1> QED BY <1>3 DEF d, s

\* The carries of an addition, one after the other.
Carries(carry, xBin, yBin, b, n) ==
  /\ carry[0] = b
  /\ \A i \in 0 .. n - 1 :
       carry[i + 1] = (yBin[i] # ((yBin[i] # carry[i]) /\ xBin[i] # yBin[i]))
  /\ adder(xBin, yBin, b, n) = [i \in 0 .. n - 1 |-> xBin[i] # (yBin[i] # carry[i])]

\* The carries that adder defines exist: one for each position.
LEMMA AdderCarries ==
  ASSUME NEW xBin, NEW yBin, NEW b \in BOOLEAN, NEW n \in Nat
  PROVE  \E carry \in [0 .. n -> BOOLEAN] : Carries(carry, xBin, yBin, b, n)
<1> DEFINE Carry(i, c) == yBin[i] # ((yBin[i] # c) /\ xBin[i] # yBin[i])
<1> DEFINE Def(f) == [i \in 0 .. n |-> IF i = 0 THEN b ELSE Carry(i - 1, f[i - 1])]
<1> DEFINE G == [i \in Nat |-> [c \in BOOLEAN |-> Carry(i, c)]]
<1> DEFINE carry == CHOOSE f : f = Def(f)
<1>1. PICK f \in [Nat -> BOOLEAN] : Iterates(f, b, G)
  <2>1. G \in Steps(BOOLEAN)
    BY DEF Steps
  <2> HIDE DEF G
  <2> QED BY <2>1, IterationOfNat
<1> HIDE DEF Carry
<1>2. \A i \in Nat : f[i + 1] = Carry(i, f[i])
  BY <1>1 DEF Iterates
<1> DEFINE g == [i \in 0 .. n |-> f[i]]
<1>3. g = Def(g)
  <2>1. ASSUME NEW i \in 0 .. n PROVE g[i] = IF i = 0 THEN b ELSE Carry(i - 1, g[i - 1])
    <3>1. CASE i # 0
      <4>1. i - 1 \in Nat /\ i - 1 \in 0 .. n /\ (i - 1) + 1 = i
        BY <3>1
      <4> QED BY <1>2, <3>1, <4>1
    <3> QED BY <1>1, <3>1 DEF Iterates
  <2> QED BY <2>1
<1> HIDE DEF g
<1>4. carry = Def(carry)
  BY <1>3
<1> HIDE DEF carry
<1>5. carry[0] = b /\ \A i \in 0 .. n - 1 : carry[i + 1] = Carry(i, carry[i])
  BY <1>4
<1>6. carry \in [0 .. n -> BOOLEAN]
  BY <1>4 DEF Carry
<1>7. adder(xBin, yBin, b, n) = [i \in 0 .. n - 1 |-> xBin[i] # (yBin[i] # carry[i])]
  BY DEF adder, carry, Carry
<1> QED BY <1>5, <1>6, <1>7 DEF Carry, Carries

\* The bits that the adder returns are those of the sum: what is carried into
\* bit i is what the sum above bit i is more than those of the operands.
LEMMA AdderAdds ==
  ASSUME NEW x \in Int, NEW y \in Int, NEW b \in BOOLEAN, NEW n \in Nat
  PROVE  adder(toBinLE(x, n), toBinLE(y, n), b, n) = toBinLE(x + y + Bit(b), n)
<1> DEFINE z == x + y + Bit(b)
<1> DEFINE X(i) == x \div TwoTo[i]
<1> DEFINE Y(i) == y \div TwoTo[i]
<1> DEFINE Z(i) == z \div TwoTo[i]
<1> DEFINE xBin == toBinLE(x, n)
<1> DEFINE yBin == toBinLE(y, n)
<1> HIDE DEF xBin, yBin
<1>1. PICK carry \in [0 .. n -> BOOLEAN] : Carries(carry, xBin, yBin, b, n)
  BY AdderCarries
<1>2. z \in Int
  BY DEF Bit
<1> HIDE DEF z
<1>3. ASSUME NEW i \in 0 .. n - 1
      PROVE  xBin[i] = ctSignBit(x, i) /\ yBin[i] = ctSignBit(y, i)
  BY DEF toBinLE, xBin, yBin
<1>4. ASSUME NEW i \in 0 .. n - 1, Z(i) = X(i) + Y(i) + Bit(carry[i])
      PROVE  /\ Z(i + 1) = X(i + 1) + Y(i + 1) + Bit(carry[i + 1])
             /\ ctSignBit(z, i) = (ctSignBit(x, i) # (ctSignBit(y, i) # carry[i]))
  <2> DEFINE xBit == ctSignBit(x, i)
  <2> DEFINE yBit == ctSignBit(y, i)
  <2> DEFINE zBit == ctSignBit(z, i)
  <2>1. i \in Nat
    OBVIOUS
  <2>2. xBit \in BOOLEAN /\ yBit \in BOOLEAN /\ zBit \in BOOLEAN
    BY DEF ctSignBit
  <2>3. X(i + 1) \in Int /\ X(i) = 2 * X(i + 1) + Bit(xBit)
    BY <2>1, BitIsRemainder
  <2>4. Y(i + 1) \in Int /\ Y(i) = 2 * Y(i + 1) + Bit(yBit)
    BY <2>1, BitIsRemainder
  <2>5. Z(i + 1) \in Int /\ Z(i) = 2 * Z(i + 1) + Bit(zBit)
    BY <1>2, <2>1, BitIsRemainder
  <2> DEFINE c == carry[i]
  <2> DEFINE d == carry[i + 1]
  <2>6. c \in BOOLEAN /\ d \in BOOLEAN
    BY <1>1
  <2>7. d = (yBit # ((yBit # c) /\ xBit # yBit))
    BY <1>1, <1>3 DEF Carries
  <2> HIDE DEF X, Y, Z, xBit, yBit, zBit, c, d
  <2>8. Z(i) = X(i) + Y(i) + Bit(c)
    BY <1>4 DEF c
  <2> DEFINE s == (xBit # (yBit # c))
  <2>9. Bit(xBit) + Bit(yBit) + Bit(c) = 2 * Bit(d) + Bit(s)
    BY <2>2, <2>6, <2>7, FullAdder
  <2>10. /\ Bit(xBit) \in Int /\ Bit(yBit) \in Int /\ Bit(c) \in Int /\ Bit(d) \in Int
         /\ Bit(s) \in 0 .. 1 /\ Bit(zBit) \in 0 .. 1
    BY DEF Bit
  <2> HIDE DEF s
  <2>11. Z(i + 1) = X(i + 1) + Y(i + 1) + Bit(d) /\ Bit(zBit) = Bit(s)
    <3> DEFINE xi == Bit(xBit)
    <3> DEFINE yi == Bit(yBit)
    <3> DEFINE zi == Bit(zBit)
    <3> DEFINE ci == Bit(c)
    <3> DEFINE di == Bit(d)
    <3> DEFINE si == Bit(s)
    <3>1. /\ X(i + 1) \in Int /\ Y(i + 1) \in Int /\ Z(i + 1) \in Int
          /\ 2 * Z(i + 1) + zi = (2 * X(i + 1) + xi) + (2 * Y(i + 1) + yi) + ci
          /\ xi + yi + ci = 2 * di + si
          /\ xi \in Int /\ yi \in Int /\ ci \in Int /\ di \in Int /\ si \in 0 .. 1 /\ zi \in 0 .. 1
      BY <2>3, <2>4, <2>5, <2>8, <2>9, <2>10
    <3> HIDE DEF xi, yi, zi, ci, di, si
    <3> DEFINE p == X(i + 1)
    <3> DEFINE q == Y(i + 1)
    <3> DEFINE r == Z(i + 1)
    <3>2. /\ p \in Int /\ q \in Int /\ r \in Int
          /\ 2 * r + zi = (2 * p + xi) + (2 * q + yi) + ci
          /\ xi + yi + ci = 2 * di + si
          /\ xi \in Int /\ yi \in Int /\ ci \in Int /\ di \in Int /\ si \in 0 .. 1 /\ zi \in 0 .. 1
      BY <3>1
    <3> HIDE DEF p, q, r
    <3>3. r = p + q + di /\ zi = si
      BY <3>2
    <3> QED BY <3>3 DEF di, zi, si, p, q, r
  <2>12. zBit = s
    <3>1. s \in BOOLEAN
      BY DEF s
    <3> QED BY <2>2, <2>11, <3>1 DEF Bit
  <2> QED BY <2>11, <2>12 DEF xBit, yBit, zBit, c, d, s
<1>5. \A i \in 0 .. n : Z(i) = X(i) + Y(i) + Bit(carry[i])
  <2> DEFINE T == {i \in Nat : i <= n => Z(i) = X(i) + Y(i) + Bit(carry[i])}
  <2>1. x \div 1 = x /\ y \div 1 = y /\ z \div 1 = z
    BY <1>2
  <2>2. Z(0) = X(0) + Y(0) + Bit(carry[0])
    BY <1>1, <2>1, TwoToIsIterated DEF z, Carries
  <2>3. 0 \in T
    BY <2>2
  <2> HIDE DEF X, Y, Z
  <2>4. \A i \in Nat : i \in T => i + 1 \in T
    BY <1>4
  <2> HIDE DEF T
  <2>5. Nat \subseteq T
    BY <2>3, <2>4, InductionOfNat
  <2> QED BY <2>5 DEF T
<1>6. ASSUME NEW i \in 0 .. n - 1
      PROVE  (xBin[i] # (yBin[i] # carry[i])) = ctSignBit(z, i)
  <2>1. Z(i) = X(i) + Y(i) + Bit(carry[i])
    BY <1>5
  <2> HIDE DEF X, Y, Z
  <2> QED BY <1>3, <1>4, <2>1
<1>7. adder(xBin, yBin, b, n) = [i \in 0 .. n - 1 |-> ctSignBit(z, i)]
  BY <1>1, <1>6 DEF Carries
<1> QED BY <1>7 DEF toBinLE, z, xBin, yBin

\* The number that the bits stand for, bit after bit.
LEMMA BitsAddUp ==
  ASSUME NEW z \in Int, NEW n \in Nat \ {0}
  PROVE  fromBinLE(toBinLE(z, n), n) = (z % TwoTo[n - 1]) - Weight(ctSignBit(z, n - 1), n - 1)
<1> DEFINE bin == toBinLE(z, n)
<1> DEFINE Def(f) == [i \in 0 .. n - 1 |-> IF i = 0 THEN 0 ELSE f[i - 1] + Weight(bin[i - 1], i - 1)]
<1> DEFINE g == [i \in 0 .. n - 1 |-> z % TwoTo[i]]
<1> DEFINE res == CHOOSE f : f = Def(f)
<1>1. ASSUME NEW i \in 0 .. n - 1 PROVE bin[i] = ctSignBit(z, i)
  BY DEF toBinLE
<1> HIDE DEF bin
<1>2. TwoTo[0] = 1 /\ z % 1 = 0
  BY TwoToIsIterated
<1>3. ASSUME NEW f, f = Def(f), NEW i \in 0 .. n - 1, i # 0, f[i - 1] = z % TwoTo[i - 1]
      PROVE  f[i] = z % TwoTo[i]
  <2>1. i - 1 \in Nat /\ i - 1 \in 0 .. n - 1 /\ (i - 1) + 1 = i
    BY <1>3
  <2>2. f[i] = f[i - 1] + Weight(bin[i - 1], i - 1)
    BY <1>3
  <2>3. z % TwoTo[i] = (z % TwoTo[i - 1]) + Weight(ctSignBit(z, i - 1), i - 1)
    BY <2>1, BitIsRemainder
  <2> QED BY <1>1, <1>3, <2>1, <2>2, <2>3
<1>4. g = Def(g)
  <2>1. ASSUME NEW i \in 0 .. n - 1
        PROVE  g[i] = IF i = 0 THEN 0 ELSE g[i - 1] + Weight(bin[i - 1], i - 1)
    <3>1. CASE i # 0
      <4>1. i - 1 \in Nat /\ i - 1 \in 0 .. n - 1 /\ (i - 1) + 1 = i
        BY <3>1
      <4>2. z % TwoTo[i] = (z % TwoTo[i - 1]) + Weight(ctSignBit(z, i - 1), i - 1)
        BY <4>1, BitIsRemainder
      <4>3. bin[i - 1] = ctSignBit(z, i - 1)
        BY <1>1, <4>1
      <4> QED BY <3>1, <4>1, <4>2, <4>3
    <3>2. CASE i = 0
      BY <1>2, <3>2
    <3> QED BY <3>1, <3>2
  <2> QED BY <2>1
<1>5. res = Def(res)
  <2> HIDE DEF g
  <2> QED BY <1>4
<1> HIDE DEF res
<1>6. \A i \in 0 .. n - 1 : res[i] = z % TwoTo[i]
  <2> DEFINE T == {i \in Nat : i <= n - 1 => res[i] = z % TwoTo[i]}
  <2>1. 0 \in T
    BY <1>2, <1>5
  <2>2. ASSUME NEW i \in Nat, i \in T PROVE i + 1 \in T
    <3>1. CASE i + 1 <= n - 1
      <4>1. res[i] = z % TwoTo[i] /\ i + 1 \in 0 .. n - 1 /\ i + 1 # 0 /\ (i + 1) - 1 = i
        BY <2>2, <3>1
      <4> HIDE DEF Def
      <4>2. res[i + 1] = z % TwoTo[i + 1]
        BY <1>3, <1>5, <4>1
      <4> QED BY <4>2
    <3> QED BY <3>1
  <2> HIDE DEF T
  <2>3. Nat \subseteq T
    BY <2>1, <2>2, InductionOfNat
  <2> QED BY <2>3 DEF T
<1>7. fromBinLE(bin, n) = res[n - 1] - Weight(bin[n - 1], n - 1)
  BY DEF fromBinLE, res
<1> QED BY <1>1, <1>6, <1>7 DEF bin

\* What n bits make of z.
Wrapped(z, n) == fromBinLE(toBinLE(z, n), n)

\* A number that n bits have room for is itself, and one just outside of their
\* range comes back at the other end.
LEMMA BitsWrap ==
  ASSUME NEW n \in Nat \ {0}, NEW z \in Int, NEW h, h = TwoTo[n - 1]
  PROVE  /\ h \in Nat \ {0} /\ TwoTo[n] = 2 * h
         /\ z \in -h .. h - 1 => Wrapped(z, n) = z
         /\ z \in h .. 2 * h - 1 => Wrapped(z, n) = z - 2 * h
         /\ z \in -(2 * h) .. -h - 1 => Wrapped(z, n) = z + 2 * h
<1>1. n - 1 \in Nat /\ (n - 1) + 1 = n
  OBVIOUS
<1>2. h \in Nat \ {0} /\ TwoTo[n] = 2 * h
  BY <1>1, PowersGrow, TwoToIsIterated
<1>3. Wrapped(z, n) = (z % h) - Weight(ctSignBit(z, n - 1), n - 1)
  BY BitsAddUp DEF Wrapped
<1> DEFINE low == z % h
<1> DEFINE high == z \div h
<1> DEFINE odd == high % 2
<1>4. Wrapped(z, n) = low - (IF odd = 1 THEN h ELSE 0)
  <2>1. Weight(ctSignBit(z, n - 1), n - 1) = IF odd = 1 THEN h ELSE 0
    BY DEF Weight, ctSignBit
  <2> QED BY <1>3, <2>1
<1>5. ASSUME NEW q \in Int, NEW r \in 0 .. h - 1, z = h * q + r
      PROVE  high = q /\ low = r /\ odd = q % 2
  <2>1. q = high /\ r = low
    BY <1>2, <1>5, Divided
  <2> QED BY <2>1
<1> HIDE DEF low, high, odd
<1>6. ASSUME z \in 0 .. h - 1 PROVE Wrapped(z, n) = z
  <2>1. 0 \in Int /\ z = h * 0 + z /\ 0 % 2 = 0
    BY <1>2
  <2>2. low = z /\ odd = 0
    BY <1>5, <1>6, <2>1
  <2> QED BY <1>2, <1>4, <2>2
<1>7. ASSUME z \in -h .. -1 PROVE Wrapped(z, n) = z
  <2> DEFINE q == -1
  <2> DEFINE r == z + h
  <2>1. q \in Int /\ q + 1 = 0 /\ z = h * q + r /\ r \in 0 .. h - 1
    BY <1>2, <1>7
  <2> HIDE DEF q
  <2>2. q % 2 = 1
    BY <2>1
  <2>3. low = r /\ odd = 1
    <3> HIDE DEF r
    <3> QED BY <1>5, <2>1, <2>2
  <2> QED BY <1>2, <1>4, <2>3
<1>8. ASSUME z \in h .. 2 * h - 1 PROVE Wrapped(z, n) = z - 2 * h
  <2> DEFINE r == z - h
  <2>1. 1 \in Int /\ z = h * 1 + r /\ r \in 0 .. h - 1 /\ 1 % 2 = 1
    BY <1>2, <1>8
  <2>2. low = r /\ odd = 1
    <3> HIDE DEF r
    <3> QED BY <1>5, <2>1
  <2> QED BY <1>2, <1>4, <2>2
<1>9. ASSUME z \in -(2 * h) .. -h - 1 PROVE Wrapped(z, n) = z + 2 * h
  <2> DEFINE q == -2
  <2> DEFINE r == z + 2 * h
  <2>1. q \in Int /\ q + 2 = 0 /\ z = h * q + r /\ r \in 0 .. h - 1
    BY <1>2, <1>9
  <2> HIDE DEF q
  <2>2. q % 2 = 0
    BY <2>1
  <2>3. low = r /\ odd = 0
    <3> HIDE DEF r
    <3> QED BY <1>5, <2>1, <2>2
  <2> QED BY <1>2, <1>4, <2>3
<1>10. z \in -h .. h - 1 => Wrapped(z, n) = z
  BY <1>2, <1>6, <1>7
<1> QED BY <1>2, <1>8, <1>9, <1>10

\* ctAdd and ctSub are sum and difference, as far as the bits go.
LEMMA BitwiseAdds ==
  ASSUME NEW x \in Int, NEW y \in Int, NEW n \in Nat \ {0}
  PROVE  ctAdd(x, y, n) = Wrapped(x + y, n) /\ ctSub(x, y, n) = Wrapped(x - y, n)
<1>1. ctAdd(x, y, n) = Wrapped(x + y, n)
  <2>1. adder(toBinLE(x, n), toBinLE(y, n), FALSE, n) = toBinLE(x + y + Bit(FALSE), n)
    BY AdderAdds
  <2>2. x + y + Bit(FALSE) = x + y
    BY DEF Bit
  <2> QED BY <2>1, <2>2 DEF ctAdd, Wrapped
<1>2. ctSub(x, y, n) = Wrapped(x - y, n)
  <2> DEFINE y1 == -y - 1
  <2>1. ASSUME NEW i \in 0 .. n - 1 PROVE ctSignBit(y1, i) = ~ctSignBit(y, i)
    <3> DEFINE d == TwoTo[i]
    <3> DEFINE q == y \div d
    <3> DEFINE r == y % d
    <3>1. d \in Nat \ {0}
      BY PowersGrow
    <3> HIDE DEF d
    <3>2. q \in Int /\ r \in 0 .. d - 1 /\ y = d * q + r
      BY <3>1
    <3> HIDE DEF q, r
    <3>3. y1 = d * (-q - 1) + (d - 1 - r) /\ d - 1 - r \in 0 .. d - 1 /\ -q - 1 \in Int
      BY <3>1, <3>2
    <3>4. y1 \div d = -q - 1
      BY <3>1, <3>2, <3>3, Divided
    <3>5. (-q - 1) % 2 = 1 <=> ~(q % 2 = 1)
      BY <3>2
    <3>6. ctSignBit(y1, i) <=> ~ctSignBit(y, i)
      BY <3>4, <3>5 DEF ctSignBit, d, q
    <3> QED BY <3>6 DEF ctSignBit
  <2>2. [i \in 0 .. n - 1 |-> ~ctSignBit(y, i)] = toBinLE(y1, n)
    BY <2>1 DEF toBinLE
  <2>3. y1 \in Int /\ x + y1 + Bit(TRUE) = x - y
    BY DEF Bit
  <2> HIDE DEF y1
  <2>4. adder(toBinLE(x, n), toBinLE(y1, n), TRUE, n) = toBinLE(x + y1 + Bit(TRUE), n)
    BY <2>3, AdderAdds
  <2> QED BY <2>2, <2>3, <2>4 DEF ctSub, Wrapped
<1> QED BY <1>1, <1>2

\* The bit after the last one is the sign of what the bits have room for.
LEMMA SignIsOnTop ==
  ASSUME NEW n \in Nat \ {0}, NEW z \in Int, NEW h, h = TwoTo[n - 1], z \in -(2 * h) .. 2 * h - 1
  PROVE  ctSignBit(z, n) <=> z < 0
<1>1. h \in Nat \ {0} /\ TwoTo[n] = 2 * h
  BY BitsWrap
<1>2. CASE z < 0
  <2>1. z = (2 * h) * (-1) + (z + 2 * h) /\ z + 2 * h \in 0 .. 2 * h - 1
    BY <1>1, <1>2
  <2>2. (z \div (2 * h)) % 2 = 1
    <3> DEFINE e == 2 * h
    <3> DEFINE q == -1
    <3> DEFINE r == z + 2 * h
    <3>1. e \in Nat \ {0} /\ q \in Int /\ q + 1 = 0 /\ z = e * q + r /\ r \in 0 .. e - 1
      BY <1>1, <2>1
    <3> HIDE DEF e, q, r
    <3>2. q = z \div e
      BY <3>1, Divided
    <3>3. q % 2 = 1
      BY <3>1
    <3> QED BY <3>2, <3>3 DEF e
  <2> QED BY <1>1, <1>2, <2>2 DEF ctSignBit
<1>3. CASE ~(z < 0)
  <2>1. z \div (2 * h) = 0
    BY <1>1, <1>3
  <2> QED BY <1>1, <1>3, <2>1 DEF ctSignBit
<1> QED BY <1>2, <1>3

\* The order is a prime greater than two.
LEMMA OrderIsOdd ==
  Order \in Nat /\ Order > 2 /\ Order % 2 = 1
<1>1. Order \in Nat /\ Order > 2 /\ 2 \in 2 .. Order - 1
  BY OrderAssumption
<1>2. Order % 2 # 0
  BY <1>1, OrderAssumption
<1> QED BY <1>1, <1>2

\* getBinSize leaves room for twice the order on both sides of zero, also when
\* the double is the next power of two.
LEMMA BinSizeIsEnough ==
  /\ BinSize \in Nat \ {0}
  /\ TwoTo[BinSize - 1] \in Nat
  /\ 2 * Order < TwoTo[BinSize - 1]
<1> DEFINE l == Log2(Order - 1)
<1> DEFINE d == Double(Order - 1)
<1> DEFINE k == Log2(d)
<1>1. Order - 1 \in Nat \ {0} /\ Order \in Nat /\ Order % 2 = 1
  BY OrderIsOdd
<1>2. l \in Nat /\ Order - 1 < TwoTo[l + 1]
  BY <1>1, LogIsBetween
<1>3. d \in TwoTo[l] .. TwoTo[l + 1]
  BY OrderAssumption
<1> HIDE DEF l, d
<1>4. TwoTo[l] \in Nat \ {0} /\ TwoTo[l + 1] = 2 * TwoTo[l] /\ TwoTo[l + 2] = 4 * TwoTo[l]
  <2>1. TwoTo[(l + 1) + 1] = 2 * TwoTo[l + 1] /\ (l + 1) + 1 = l + 2
    BY <1>2, TwoToIsIterated
  <2>2. TwoTo[l + 1] = 2 * TwoTo[l]
    BY <1>2, TwoToIsIterated
  <2>3. TwoTo[l] \in Nat /\ TwoTo[l] > l
    BY <1>2, PowersGrow
  <2>4. TwoTo[l] \in Nat \ {0}
    BY <1>2, <2>3
  <2> QED BY <2>1, <2>2, <2>4
<1>5. d \in Nat \ {0}
  BY <1>3, <1>4
<1>6. k \in Nat /\ d < TwoTo[k + 1]
  BY <1>5, LogIsBetween
<1> HIDE DEF k
<1>7. l <= k
  <2>1. CASE k + 1 <= l
    <3>1. TwoTo[k + 1] <= TwoTo[l]
      BY <1>2, <1>6, <2>1, PowersGrow
    <3>2. TwoTo[k + 1] \in Nat
      BY <1>6, PowersGrow
    <3> QED BY <1>3, <1>4, <1>5, <1>6, <3>1, <3>2
  <2> QED BY <1>2, <1>6, <2>1
<1>8. BinSize = k + 3
  BY DEF BinSize, getBinSize, k, d
<1>9. BinSize \in Nat \ {0} /\ BinSize - 1 = k + 2
  BY <1>6, <1>8
<1>10. TwoTo[k + 2] \in Nat /\ TwoTo[l + 2] <= TwoTo[k + 2]
  BY <1>2, <1>6, <1>7, PowersGrow
<1>11. 2 * Order < TwoTo[l + 2]
  <2>1. Order <= 2 * TwoTo[l]
    BY <1>1, <1>2, <1>4
  <2>2. Order # 2 * TwoTo[l]
    BY <1>1, <1>4
  <2> QED BY <1>1, <1>4, <2>1, <2>2
<1> QED BY <1>1, <1>4, <1>9, <1>10, <1>11

\* In that room the operations on bits are those of the integers.
Room == -(2 * Order) .. 2 * Order

\* In the room that BinSize leaves, the operations on bits are those on integers.
LEMMA ExactInRoom ==
  /\ \A x, y \in Int : x + y \in Room => ctAdd(x, y, BinSize) = x + y
  /\ \A x, y \in Int : x - y \in Room => ctSub(x, y, BinSize) = x - y
  /\ \A x, y \in Int : x - y \in Room => (ctLt(x, y, BinSize) <=> x < y)
  /\ \A x \in Room : ctSignBit(x, BinSize) <=> x < 0
<1> DEFINE n == BinSize
<1> DEFINE h == TwoTo[n - 1]
<1>1. n \in Nat \ {0} /\ h \in Nat /\ 2 * Order < h /\ Order \in Nat
  BY BinSizeIsEnough, OrderAssumption
<1> HIDE DEF n
<1>2. ASSUME NEW z \in Room
      PROVE  z \in Int /\ Wrapped(z, n) = z /\ (ctSignBit(z, n) <=> z < 0)
  <2>1. z \in Int /\ z \in -h .. h - 1 /\ z \in -(2 * h) .. 2 * h - 1
    BY <1>1 DEF Room
  <2>2. Wrapped(z, n) = z
    BY <1>1, <2>1, BitsWrap
  <2>3. ctSignBit(z, n) <=> z < 0
    BY <1>1, <2>1, SignIsOnTop
  <2> QED BY <2>1, <2>2, <2>3
<1>3. ASSUME NEW x \in Int, NEW y \in Int, x + y \in Room PROVE ctAdd(x, y, n) = x + y
  BY <1>1, <1>2, <1>3, BitwiseAdds
<1>4. ASSUME NEW x \in Int, NEW y \in Int, x - y \in Room
      PROVE  ctSub(x, y, n) = x - y /\ (ctLt(x, y, n) <=> x < y)
  <2>1. ctSub(x, y, n) = x - y
    BY <1>1, <1>2, <1>4, BitwiseAdds
  <2>2. ctSignBit(x - y, n) <=> x - y < 0
    BY <1>2, <1>4
  <2> QED BY <2>1, <2>2 DEF ctLt
<1> QED BY <1>2, <1>3, <1>4 DEF n

\* ctSelect selects.
LEMMA SelectsInRoom ==
  ASSUME NEW b \in BOOLEAN, NEW x \in Room, NEW y \in Room, x - y \in Room
  PROVE  ctSelect(b, x, y, BinSize) = IF b THEN x ELSE y
<1>1. x \in Int /\ y \in Int
  BY OrderAssumption DEF Room
<1>2. ctSub(x, y, BinSize) = x - y
  BY <1>1, ExactInRoom
<1>3. CASE b = TRUE
  <2>1. (IF b THEN 1 ELSE 0) * ctSub(x, y, BinSize) = x - y
    BY <1>1, <1>2, <1>3
  <2>2. y + (x - y) = x
    BY <1>1
  <2>3. ctAdd(y, x - y, BinSize) = x
    BY <1>1, <2>2, ExactInRoom
  <2> QED BY <1>3, <2>1, <2>3 DEF ctSelect
<1>4. CASE b = FALSE
  <2>1. (IF b THEN 1 ELSE 0) * ctSub(x, y, BinSize) = 0
    BY <1>1, <1>2, <1>4
  <2>2. y + 0 = y
    BY <1>1
  <2>3. ctAdd(y, 0, BinSize) = y
    BY <1>1, <2>2, ExactInRoom
  <2> QED BY <1>4, <2>1, <2>3 DEF ctSelect
<1> QED BY <1>3, <1>4

\* A number that passes verifyBinSize is one that all bits but one have room for.
LEMMA VerifiedFits ==
  ASSUME NEW x \in Int, NEW h, h = TwoTo[BinSize - 1]
  PROVE  verifyBinSize(x, BinSize - 1) <=> x \in -h .. h - 1
<1>1. h \in Nat \ {0}
  BY BinSizeIsEnough, OrderAssumption
<1> DEFINE q == x \div h
<1>2. q \in Int /\ x % h \in 0 .. h - 1 /\ x = h * q + (x % h)
  BY <1>1, Division
<1>3. verifyBinSize(x, BinSize - 1) <=> q = 0 \/ q + 1 = 0
  BY <1>2 DEF verifyBinSize
<1> HIDE DEF q
<1>4. q >= 1 => h * q >= h
  <2>1. \A a \in Nat : \A b \in Int : b >= 1 => a * b >= a
    OBVIOUS
  <2> QED BY <1>1, <1>2, <2>1
<1>5. q <= -2 => h * q <= -(2 * h)
  <2>1. \A a \in Nat : \A b \in Int : b <= -2 => a * b <= -(2 * a)
    OBVIOUS
  <2> QED BY <1>1, <1>2, <2>1
<1>6. q = 0 => h * q = 0
  BY <1>1
<1>7. q + 1 = 0 => h * q = -h
  BY <1>1, <1>2
<1>8. q = 0 \/ q + 1 = 0 <=> x \in -h .. h - 1
  <2> DEFINE p == h * q
  <2> DEFINE r == x % h
  <2>1. /\ p \in Int /\ r \in 0 .. h - 1 /\ x = p + r
        /\ (q >= 1 => p >= h) /\ (q <= -2 => p <= -(2 * h)) /\ (q = 0 => p = 0) /\ (q + 1 = 0 => p = -h)
    BY <1>1, <1>2, <1>4, <1>5, <1>6, <1>7
  <2> HIDE DEF p, r
  <2> QED BY <1>1, <1>2, <2>1
<1> QED BY <1>3, <1>8

-----------------------------------------------------------------------------
\* Arithmetic of the field in constant time.

\* ctLt beyond the room for a difference, on either side.
LEMMA LessThanWraps ==
  ASSUME NEW x \in Int, NEW y \in Int, NEW h, h = TwoTo[BinSize - 1]
  PROVE  /\ x - y \in -h .. h - 1 => (ctLt(x, y, BinSize) <=> x < y)
         /\ x - y \in h .. 2 * h - 1 => ctLt(x, y, BinSize)
         /\ x - y \in -(2 * h) .. -h - 1 => ~ctLt(x, y, BinSize)
<1> DEFINE n == BinSize
<1> DEFINE z == x - y
<1>1. n \in Nat \ {0} /\ z \in Int /\ h = TwoTo[n - 1] /\ h \in Nat
  BY BinSizeIsEnough
<1> DEFINE w == Wrapped(z, n)
<1>2. ctLt(x, y, n) <=> ctSignBit(w, n)
  BY <1>1, BitwiseAdds DEF ctLt
<1> HIDE DEF n, z
<1>3. z \in -h .. h - 1 => w = z
  BY <1>1, BitsWrap
<1>4. z \in h .. 2 * h - 1 => w = z - 2 * h
  BY <1>1, BitsWrap
<1>5. z \in -(2 * h) .. -h - 1 => w = z + 2 * h
  BY <1>1, BitsWrap
<1> HIDE DEF w
<1>6. w \in -(2 * h) .. 2 * h - 1 => (ctSignBit(w, n) <=> w < 0)
  BY <1>1, SignIsOnTop
<1>7. z \in -h .. h - 1 => (ctLt(x, y, n) <=> z < 0)
  BY <1>1, <1>2, <1>3, <1>6
<1>8. z \in h .. 2 * h - 1 => ctLt(x, y, n)
  BY <1>1, <1>2, <1>4, <1>6
<1>9. z \in -(2 * h) .. -h - 1 => ~ctLt(x, y, n)
  BY <1>1, <1>2, <1>5, <1>6
<1>10. z < 0 <=> x < y
  BY DEF z
<1> QED BY <1>7, <1>8, <1>9, <1>10 DEF n, z

\* What is left of a sum or a difference of two elements in the field.
LEMMA RemainderOfSum ==
  ASSUME NEW z \in -Order .. 2 * Order - 1
  PROVE  /\ z \in 0 .. Order - 1 => z % Order = z
         /\ z \in Order .. 2 * Order - 1 => z % Order = z - Order
         /\ z \in -Order .. -1 => z % Order = z + Order
<1> DEFINE p == Order
<1>1. p \in Nat \ {0}
  BY OrderIsOdd
<1> HIDE DEF p
<1>2. ASSUME z \in 0 .. p - 1 PROVE z % p = z
  BY <1>1, <1>2
<1>3. ASSUME z \in p .. 2 * p - 1 PROVE z % p = z - p
  <2> DEFINE q == 1
  <2> DEFINE r == z - p
  <2>1. z \in Int /\ q \in Int /\ r \in 0 .. p - 1 /\ z = p * q + r
    BY <1>1, <1>3
  <2> HIDE DEF q, r
  <2>2. r = z % p
    BY <1>1, <2>1, Divided
  <2> QED BY <2>2 DEF r
<1>4. ASSUME z \in -p .. -1 PROVE z % p = z + p
  <2> DEFINE q == -1
  <2> DEFINE r == z + p
  <2>1. z \in Int /\ q \in Int /\ r \in 0 .. p - 1 /\ z = p * q + r
    BY <1>1, <1>4
  <2> HIDE DEF q, r
  <2>2. r = z % p
    BY <1>1, <2>1, Divided
  <2> QED BY <2>2 DEF r
<1> QED BY <1>2, <1>3, <1>4 DEF p

\* addition and subtraction of CurveField in constant time are those of the field.
LEMMA AddCTAdds ==
  ASSUME NEW x \in Element, NEW y \in Element
  PROVE  AddCT(x, y) = add(x, y) /\ SubCT(x, y) = sub(x, y)
<1>1. Order \in Nat /\ Order > 2 /\ x \in 0 .. Order - 1 /\ y \in 0 .. Order - 1
  BY OrderIsOdd DEF Element
<1>2. AddCT(x, y) = add(x, y)
  <2> DEFINE s == x + y
  <2> DEFINE d == s - Order
  <2> DEFINE less == ctLt(s, Order, BinSize)
  <2>1. s \in Int /\ s \in 0 .. 2 * Order - 1 /\ d \in -Order .. Order
    BY <1>1
  <2>2. s \in Room /\ d \in Room /\ s - d \in Room
    BY <1>1, <2>1 DEF Room
  <2>3. ctAdd(x, y, BinSize) = s /\ ctSub(s, Order, BinSize) = d
    BY <1>1, <2>1, <2>2, ExactInRoom
  <2>4. less <=> s < Order
    BY <1>1, <2>1, <2>2, ExactInRoom
  <2>5. AddCT(x, y) = ctSelect(less, s, d, BinSize)
    BY <2>3 DEF AddCT
  <2>6. less \in BOOLEAN
    BY DEF ctLt, ctSignBit
  <2> HIDE DEF s, d, less
  <2>7. ctSelect(less, s, d, BinSize) = IF less THEN s ELSE d
    BY <2>2, <2>6, SelectsInRoom
  <2>8. s % Order = IF s < Order THEN s ELSE s - Order
    BY <1>1, <2>1, RemainderOfSum
  <2>9. d = s - Order /\ add(x, y) = s % Order
    BY DEF d, s, add
  <2> QED BY <2>4, <2>5, <2>7, <2>8, <2>9
<1>3. SubCT(x, y) = sub(x, y)
  <2> DEFINE d == x - y
  <2> DEFINE s == d + Order
  <2> DEFINE negative == ctSignBit(d, BinSize)
  <2>1. d \in Int /\ d \in -Order .. Order - 1 /\ s \in 0 .. 2 * Order
    BY <1>1
  <2>2. s \in Room /\ d \in Room /\ s - d \in Room
    BY <1>1, <2>1 DEF Room
  <2>3. ctSub(x, y, BinSize) = d /\ ctAdd(d, Order, BinSize) = s
    BY <1>1, <2>1, <2>2, ExactInRoom
  <2>4. negative <=> d < 0
    BY <2>2, ExactInRoom
  <2>5. SubCT(x, y) = ctSelect(negative, s, d, BinSize)
    BY <2>3 DEF SubCT
  <2>6. negative \in BOOLEAN
    BY DEF ctSignBit
  <2>7. s = d + Order /\ sub(x, y) = d % Order
    BY DEF sub
  <2> HIDE DEF s, d, negative
  <2>8. ctSelect(negative, s, d, BinSize) = IF negative THEN s ELSE d
    BY <2>2, <2>6, SelectsInRoom
  <2>9. d % Order = IF d < 0 THEN d + Order ELSE d
    BY <1>1, <2>1, RemainderOfSum
  <2> QED BY <2>4, <2>5, <2>7, <2>8, <2>9
<1> QED BY <1>2, <1>3

\* The guards of encrypt_raw let the elements of the field through and nothing else.
LEMMA EncryptsElements ==
  ASSUME NEW v \in Int
  PROVE  /\ verifyBinSize(v, BinSize - 1)
         /\ ~ctSignBit(v, BinSize)
         /\ ctLt(v, Order, BinSize)
         <=> v \in Element
<1> DEFINE h == TwoTo[BinSize - 1]
<1>1. h \in Nat /\ 2 * Order < h /\ BinSize \in Nat \ {0} /\ Order \in Nat /\ Order > 2
  BY BinSizeIsEnough, OrderIsOdd
<1>2. verifyBinSize(v, BinSize - 1) <=> v \in -h .. h - 1
  BY VerifiedFits
<1>3. v \in -h .. h - 1 => (ctSignBit(v, BinSize) <=> v < 0)
  <2>1. v \in -h .. h - 1 => v \in -(2 * h) .. 2 * h - 1
    BY <1>1
  <2> QED BY <1>1, <2>1, SignIsOnTop
<1>4. v - Order \in -h .. h - 1 => (ctLt(v, Order, BinSize) <=> v < Order)
  BY <1>1, LessThanWraps
<1> HIDE DEF h
<1> QED BY <1>1, <1>2, <1>3, <1>4 DEF Element

\* encodeAsRescueEncryptable takes what is smaller than the order in absolute value.
LEMMA EncryptableIsBetween ==
  ASSUME NEW v \in Int
  PROVE  Encryptable(v) <=> v \in 1 - Order .. Order - 1
<1> DEFINE h == TwoTo[BinSize - 1]
<1> DEFINE least == -(Order - 1)
<1>1. h \in Nat /\ 2 * Order < h /\ Order \in Nat /\ Order > 2 /\ least \in Int
  BY BinSizeIsEnough, OrderIsOdd
<1>2. verifyBinSize(v, BinSize - 1) <=> v \in -h .. h - 1
  BY VerifiedFits
<1>3. /\ v - least \in -h .. h - 1 => (ctLt(v, least, BinSize) <=> v < least)
      /\ v - least \in h .. 2 * h - 1 => ctLt(v, least, BinSize)
  BY <1>1, LessThanWraps
<1>4. /\ v - Order \in -h .. h - 1 => (ctLt(v, Order, BinSize) <=> v < Order)
      /\ v - Order \in -(2 * h) .. -h - 1 => ~ctLt(v, Order, BinSize)
  BY <1>1, LessThanWraps
<1>5. Encryptable(v) <=>
        v \in -h .. h - 1 /\ ~ctLt(v, least, BinSize) /\ ctLt(v, Order, BinSize)
  BY <1>2 DEF Encryptable
<1> DEFINE low == ctLt(v, least, BinSize)
<1> DEFINE high == ctLt(v, Order, BinSize)
<1>6. least = 1 - Order
  BY <1>1
<1> HIDE DEF h, least, low, high
<1>7. v \in -h .. h - 1 /\ ~low /\ high <=> v \in 1 - Order .. Order - 1
  <2>1. ASSUME v \in 1 - Order .. Order - 1 PROVE v \in -h .. h - 1 /\ ~low /\ high
    <3>1. v \in -h .. h - 1 /\ v - least \in -h .. h - 1 /\ v - Order \in -h .. h - 1
      BY <1>1, <1>6, <2>1
    <3>2. ~low
      BY <1>1, <1>3, <1>6, <2>1, <3>1 DEF low
    <3>3. high
      BY <1>1, <1>4, <2>1, <3>1 DEF high
    <3> QED BY <3>1, <3>2, <3>3
  <2>2. ASSUME v \in -h .. h - 1, ~low, high PROVE v \in 1 - Order .. Order - 1
    <3>1. v >= 1 - Order
      <4>1. CASE v - least \in -h .. h - 1
        BY <1>1, <1>3, <1>6, <2>2, <4>1 DEF low
      <4>2. CASE v - least \notin -h .. h - 1
        BY <1>1, <1>3, <1>6, <2>2, <4>2 DEF low
      <4> QED BY <4>1, <4>2
    <3>2. v <= Order - 1
      <4>1. CASE v - Order \in -h .. h - 1
        BY <1>1, <1>4, <2>2, <4>1 DEF high
      <4>2. CASE v - Order \notin -h .. h - 1
        BY <1>1, <1>4, <2>2, <4>2 DEF high
      <4> QED BY <4>1, <4>2
    <3> QED BY <3>1, <3>2
  <2> QED BY <2>1, <2>2
<1> QED BY <1>5, <1>7 DEF low, high

\* Numbers are encoded by their remainders, and the lower half is decoded again.
LEMMA EncodeDecode ==
  ASSUME NEW v \in 1 - Order .. Order - 1, NEW half, half = (Order - 1) \div 2
  PROVE  LET e == encodeAsRescueEncryptable(v)
         IN  /\ e = v % Order
             /\ decodeRescueDecryptedToBigInt(e) = v <=> v \in -half .. half
<1> DEFINE e == encodeAsRescueEncryptable(v)
<1>1. Order \in Nat /\ Order > 2 /\ v \in Int /\ half \in Nat /\ Order = 2 * half + 1
  BY OrderIsOdd
<1>2. e = v % Order /\ e = (IF v < 0 THEN v + Order ELSE v)
  <2> DEFINE s == v + Order
  <2> DEFINE negative == ctSignBit(v, BinSize)
  <2>1. v \in Room /\ s \in Room /\ s - v \in Room
    BY <1>1 DEF Room
  <2>2. ctAdd(v, Order, BinSize) = s
    BY <1>1, <2>1, ExactInRoom
  <2>3. negative <=> v < 0
    BY <2>1, ExactInRoom
  <2>4. e = ctSelect(negative, s, v, BinSize)
    BY <2>2 DEF encodeAsRescueEncryptable
  <2>5. negative \in BOOLEAN /\ s = v + Order
    BY DEF ctSignBit
  <2> HIDE DEF e, s, negative
  <2>6. ctSelect(negative, s, v, BinSize) = IF negative THEN s ELSE v
    BY <2>1, <2>5, SelectsInRoom
  <2>7. v % Order = IF v < 0 THEN v + Order ELSE v
    BY <1>1, RemainderOfSum
  <2> QED BY <2>3, <2>4, <2>5, <2>6, <2>7
<1> HIDE DEF e
<1>3. e \in 0 .. Order - 1
  BY <1>1, <1>2
<1>4. decodeRescueDecryptedToBigInt(e) = IF e < half + 1 THEN e ELSE e - Order
  <2> DEFINE d == e - Order
  <2> DEFINE less == ctLt(e, half + 1, BinSize)
  <2>1. (Order + 1) \div 2 = half + 1
    BY <1>1
  <2>2. e \in Room /\ d \in Room /\ e - d \in Room /\ e - (half + 1) \in Room /\ half + 1 \in Int
    BY <1>1, <1>3 DEF Room
  <2>3. ctSub(e, Order, BinSize) = d
    BY <1>1, <1>3, <2>2, ExactInRoom
  <2>4. less <=> e < half + 1
    BY <1>1, <1>3, <2>2, ExactInRoom
  <2>5. decodeRescueDecryptedToBigInt(e) = ctSelect(less, e, d, BinSize)
    BY <2>1, <2>3 DEF decodeRescueDecryptedToBigInt
  <2>6. less \in BOOLEAN
    BY DEF ctLt, ctSignBit
  <2> HIDE DEF d, less
  <2>7. ctSelect(less, e, d, BinSize) = IF less THEN e ELSE d
    BY <2>2, <2>6, SelectsInRoom
  <2> QED BY <2>4, <2>5, <2>7 DEF d
<1>5. decodeRescueDecryptedToBigInt(e) = v <=> v \in -half .. half
  BY <1>1, <1>2, <1>3, <1>4
<1> QED BY <1>2, <1>5 DEF e

-----------------------------------------------------------------------------
\* The laws of the field.

\* What a multiple of the divisor adds is not seen in the remainder.
LEMMA RemainderOfMultiple ==
  ASSUME NEW x \in Int, NEW d \in Nat \ {0}, NEW k \in Int
  PROVE  (x + d * k) % d = x % d
<1> DEFINE q == x \div d
<1> DEFINE r == x % d
<1>1. q \in Int /\ r \in 0 .. d - 1 /\ x = d * q + r
  OBVIOUS
<1> HIDE DEF q, r
<1>2. x + d * k = d * (q + k) + r
  BY <1>1
<1> DEFINE y == x + d * k
<1>3. y \in Int /\ q + k \in Int /\ y = d * (q + k) + r
  BY <1>1, <1>2
<1> HIDE DEF y
<1>4. r = y % d
  BY <1>1, <1>3, Divided
<1> QED BY <1>4 DEF y, r

\* Remainders can be taken before adding, subtracting and multiplying.
LEMMA RemaindersFirst ==
  ASSUME NEW x \in Int, NEW y \in Int
  PROVE  /\ x % Order \in Element
         /\ ((x % Order) + y) % Order = (x + y) % Order
         /\ (x + (y % Order)) % Order = (x + y) % Order
         /\ ((x % Order) * y) % Order = (x * y) % Order
         /\ (x * (y % Order)) % Order = (x * y) % Order
<1> DEFINE p == Order
<1>1. p \in Nat \ {0}
  BY OrderIsOdd
<1> HIDE DEF p
<1>2. ASSUME NEW a \in Int, NEW b \in Int
      PROVE  /\ a % p \in 0 .. p - 1
             /\ ((a % p) + b) % p = (a + b) % p
             /\ ((a % p) * b) % p = (a * b) % p
  <2> DEFINE q == a \div p
  <2> DEFINE r == a % p
  <2>1. q \in Int /\ r \in 0 .. p - 1 /\ a = p * q + r
    BY <1>1
  <2> HIDE DEF q, r
  <2>2. r + b \in Int /\ r * b \in Int /\ q * b \in Int /\ a + b \in Int /\ a * b \in Int
    BY <2>1
  <2>3. a + b = (r + b) + p * q
    BY <1>1, <2>1
  <2>4. a * b = (r * b) + p * (q * b)
    <3>1. \A k, l, m, n \in Int : (k * l + m) * n = m * n + k * (l * n)
      OBVIOUS
    <3> QED BY <1>1, <2>1, <3>1
  <2>5. ((r + b) + p * q) % p = (r + b) % p
    BY <1>1, <2>1, <2>2, RemainderOfMultiple, ZenonT(40)
  <2>6. ((r * b) + p * (q * b)) % p = (r * b) % p
    BY <1>1, <2>1, <2>2, RemainderOfMultiple, ZenonT(40)
  <2> QED BY <2>1, <2>3, <2>4, <2>5, <2>6 DEF r
<1>3. x + y = y + x /\ x * y = y * x
  OBVIOUS
<1>4. x + (y % p) = (y % p) + x /\ x * (y % p) = (y % p) * x
  <2>1. y % p \in Int
    BY <1>2
  <2> QED BY <2>1
<1> QED BY <1>2, <1>3, <1>4 DEF p, Element

\* The operations of the field.
LEMMA FieldLaws ==
  /\ \A x, y \in Element : /\ add(x, y) \in Element /\ sub(x, y) \in Element /\ mul(x, y) \in Element
                           /\ add(x, y) = add(y, x) /\ mul(x, y) = mul(y, x)
                           /\ add(sub(x, y), y) = x /\ sub(add(x, y), y) = x
  /\ \A x, y, z \in Element : /\ add(add(x, y), z) = add(x, add(y, z))
                              /\ mul(mul(x, y), z) = mul(x, mul(y, z))
                              /\ mul(add(x, y), z) = add(mul(x, z), mul(y, z))
                              /\ mul(z, add(x, y)) = add(mul(z, x), mul(z, y))
  /\ 0 \in Element /\ 1 \in Element
  /\ \A x \in Element : add(0, x) = x /\ add(x, 0) = x /\ mul(1, x) = x /\ mul(0, x) = 0 /\ mul(x, 0) = 0
<1> DEFINE p == Order
<1>1. p \in Nat /\ p > 2 /\ Element = 0 .. p - 1 /\ \A x \in Element : x \in Int
  BY OrderIsOdd DEF Element
<1>2. \A x, y \in Element : x + y \in Int /\ x - y \in Int /\ x * y \in Int
  BY <1>1
<1>3. \A x \in Element : x % p = x
  BY <1>1
<1> HIDE DEF p
<1>4. ASSUME NEW x \in Element, NEW y \in Element
      PROVE  /\ add(x, y) \in Element /\ sub(x, y) \in Element /\ mul(x, y) \in Element
             /\ add(x, y) = add(y, x) /\ mul(x, y) = mul(y, x)
  <2>1. x + y = y + x /\ x * y = y * x
    BY <1>1
  <2> QED BY <1>2, <2>1, RemaindersFirst DEF add, sub, mul
<1>5. ASSUME NEW x \in Element, NEW y \in Element
      PROVE  add(sub(x, y), y) = x /\ sub(add(x, y), y) = x
  <2>1. add(sub(x, y), y) = ((x - y) + y) % p
    BY <1>1, <1>2, RemaindersFirst DEF add, sub, p
  <2>2. -y \in Int /\ (x - y) + y = x /\ (x + y) + (-y) = x
    BY <1>1
  <2>3. ((x + y) % p) + (-y) = ((x + y) % p) - y
    <3>1. (x + y) % p \in Int
      BY <1>1, <1>2, <1>4 DEF add, p
    <3> QED BY <1>1, <3>1
  <2>4. sub(add(x, y), y) = ((x + y) + (-y)) % p
    BY <1>2, <2>2, <2>3, RemaindersFirst DEF add, sub, p
  <2> QED BY <1>3, <2>1, <2>2, <2>4
<1>6. ASSUME NEW x \in Element, NEW y \in Element, NEW z \in Element
      PROVE  /\ add(add(x, y), z) = add(x, add(y, z))
             /\ mul(mul(x, y), z) = mul(x, mul(y, z))
             /\ mul(add(x, y), z) = add(mul(x, z), mul(y, z))
  <2>1. (x + y) + z = x + (y + z)
    BY <1>1
  <2>2. (x * y) * z = x * (y * z) /\ (x + y) * z = x * z + y * z
    <3>1. \A k, l, m \in Int : (k * l) * m = k * (l * m) /\ (k + l) * m = k * m + l * m
      OBVIOUS
    <3> QED BY <1>1, <3>1
  <2>3. add(add(x, y), z) = ((x + y) + z) % p /\ add(x, add(y, z)) = (x + (y + z)) % p
    BY <1>1, <1>2, RemaindersFirst DEF add, p
  <2>4. mul(mul(x, y), z) = ((x * y) * z) % p /\ mul(x, mul(y, z)) = (x * (y * z)) % p
    BY <1>1, <1>2, RemaindersFirst DEF mul, p
  <2>5. mul(add(x, y), z) = ((x + y) * z) % p
    BY <1>1, <1>2, RemaindersFirst DEF add, mul, p
  <2>6. add(mul(x, z), mul(y, z)) = (x * z + y * z) % p
    <3>1. x * z \in Int /\ y * z \in Int
      BY <1>2
    <3> HIDE DEF p
    <3>2. mul(y, z) \in Int /\ mul(x, z) \in Int
      BY <1>1, <1>4
    <3>3. add(mul(x, z), mul(y, z)) = (x * z + mul(y, z)) % p
      BY <3>1, <3>2, RemaindersFirst DEF add, mul, p
    <3>4. (x * z + mul(y, z)) % p = (x * z + y * z) % p
      BY <3>1, RemaindersFirst DEF mul, p
    <3> QED BY <3>3, <3>4
  <2> QED BY <2>1, <2>2, <2>3, <2>4, <2>5, <2>6
<1>7. 0 \in Element /\ 1 \in Element
  BY <1>1
<1>8. ASSUME NEW x \in Element
      PROVE  add(0, x) = x /\ add(x, 0) = x /\ mul(1, x) = x /\ mul(0, x) = 0 /\ mul(x, 0) = 0
  <2>1. 0 + x = x /\ x + 0 = x /\ 1 * x = x /\ 0 * x = 0 /\ x * 0 = 0
    BY <1>1
  <2> QED BY <1>3, <1>7, <2>1 DEF add, mul, p
<1>9. ASSUME NEW x \in Element, NEW y \in Element, NEW z \in Element
      PROVE  mul(z, add(x, y)) = add(mul(z, x), mul(z, y))
  BY <1>4, <1>6
<1>10. \A x, y \in Element : /\ add(x, y) \in Element /\ sub(x, y) \in Element /\ mul(x, y) \in Element
                            /\ add(x, y) = add(y, x) /\ mul(x, y) = mul(y, x)
                            /\ add(sub(x, y), y) = x /\ sub(add(x, y), y) = x
  BY <1>4, <1>5
<1>11. \A x, y, z \in Element : /\ add(add(x, y), z) = add(x, add(y, z))
                               /\ mul(mul(x, y), z) = mul(x, mul(y, z))
                               /\ mul(add(x, y), z) = add(mul(x, z), mul(y, z))
                               /\ mul(z, add(x, y)) = add(mul(z, x), mul(z, y))
  BY <1>6, <1>9
<1> QED BY <1>7, <1>8, <1>10, <1>11

\* The operations of the field return elements.
LEMMA FieldClosed ==
  /\ 0 \in Element /\ 1 \in Element
  /\ \A x, y \in Element : add(x, y) \in Element /\ sub(x, y) \in Element /\ mul(x, y) \in Element
BY FieldLaws

\* Two numbers with no common divisor but one: the least positive sum of multiples of
\* both divides both and is one.
LEMMA OneIsASum ==
  ASSUME NEW x \in Nat \ {0}, NEW p \in Nat \ {0},
         \A g \in Nat \ {0} : x % g = 0 /\ p % g = 0 => g = 1
  PROVE  \E a, b \in Int : 1 = x * a + p * b
<1> DEFINE T == {g \in Nat : g # 0 /\ \E a, b \in Int : g = x * a + p * b}
<1>1. x \in T
  <2>1. x = x * 1 + p * 0 /\ x \in Nat /\ x # 0
    OBVIOUS
  <2>2. \E a, b \in Int : x = x * a + p * b
    <3> WITNESS 1 \in Int
    <3> WITNESS 0 \in Int
    <3> QED BY <2>1
  <2> QED BY <2>1, <2>2
<1>2. PICK g \in T : \A h \in T : g <= h
  BY <1>1, LeastOfNat
<1>3. PICK a \in Int, b \in Int : g = x * a + p * b
  BY <1>2
<1>4. g \in Nat \ {0}
  BY <1>2
<1>5. ASSUME NEW z \in Int, \E c, d \in Int : z = x * c + p * d PROVE z % g = 0
  <2>0. PICK c \in Int, d \in Int : z = x * c + p * d
    BY <1>5
  <2> DEFINE q == z \div g
  <2> DEFINE r == z % g
  <2>1. q \in Int /\ r \in 0 .. g - 1 /\ z = g * q + r
    BY <1>4
  <2> HIDE DEF q, r
  <2> SUFFICES ASSUME r # 0 PROVE FALSE
    BY DEF r
  <2>2. r = x * (c - a * q) + p * (d - b * q)
    <3>1. \A k, l, m, n, o, s, t, u \in Int : k * l + m * n = (k * o + m * s) * t + u
                                          => u = k * (l - o * t) + m * (n - s * t)
      OBVIOUS
    <3>2. p \in Int /\ x \in Int /\ r \in Int
      BY <2>1
    <3> QED BY <1>3, <2>0, <2>1, <3>1, <3>2
  <2>3. c - a * q \in Int /\ d - b * q \in Int /\ r \in Nat
    BY <1>3, <1>4, <2>0, <2>1
  <2>4. r \in T
    BY <2>2, <2>3
  <2> HIDE DEF T
  <2>5. g <= r
    BY <1>2, <2>4
  <2> QED BY <1>4, <2>1, <2>5
<1>6. x % g = 0
  <2>1. x = x * 1 + p * 0 /\ x \in Int
    OBVIOUS
  <2>2. \E c, d \in Int : x = x * c + p * d
    <3> WITNESS 1 \in Int
    <3> WITNESS 0 \in Int
    <3> QED BY <2>1
  <2> HIDE DEF T
  <2> QED BY <1>5, <2>1, <2>2
<1>7. p % g = 0
  <2>1. p = x * 0 + p * 1 /\ p \in Int
    OBVIOUS
  <2>2. \E c, d \in Int : p = x * c + p * d
    <3> WITNESS 0 \in Int
    <3> WITNESS 1 \in Int
    <3> QED BY <2>1
  <2> HIDE DEF T
  <2> QED BY <1>5, <2>1, <2>2
<1>8. g = 1
  BY <1>4, <1>6, <1>7
<1> HIDE DEF T
<1> QED BY <1>3, <1>8

\* So each has an inverse modulo the other.
LEMMA InverseModulo ==
  ASSUME NEW x \in Nat \ {0}, NEW p \in Nat, p > 1,
         \A g \in Nat \ {0} : x % g = 0 /\ p % g = 0 => g = 1
  PROVE  \E y \in 1 .. p - 1 : (x * y) % p = 1
<1>1. PICK a \in Int, b \in Int : 1 = x * a + p * b
  <2>1. p \in Nat \ {0}
    OBVIOUS
  <2> QED BY <2>1, OneIsASum
<1> DEFINE q == a \div p
<1> DEFINE y == a % p
<1>2. q \in Int /\ y \in 0 .. p - 1 /\ a = p * q + y
  BY Division
<1> HIDE DEF q, y
<1>3. x * y = 1 + p * (-b - x * q)
  <2>1. \A k, l, m, n, o \in Int : 1 = k * (l * m + n) + l * o => k * n = 1 + l * (-o - k * m)
    OBVIOUS
  <2>2. x \in Int /\ p \in Int /\ y \in Int
    BY <1>2
  <2> QED BY <1>1, <1>2, <2>1, <2>2
<1>4. (1 + p * (-b - x * q)) % p = 1 % p
  <2> DEFINE k == -b - x * q
  <2>1. k \in Int /\ 1 \in Int /\ p \in Nat \ {0}
    BY <1>1, <1>2
  <2> HIDE DEF k
  <2>2. (1 + p * k) % p = 1 % p
    BY <2>1, RemainderOfMultiple
  <2> QED BY <2>2 DEF k
<1>5. (x * y) % p = 1
  BY <1>3, <1>4
<1>6. y # 0
  <2>1. x * 0 = 0 /\ 0 % p = 0
    OBVIOUS
  <2> QED BY <1>5, <2>1
<1> QED BY <1>2, <1>5, <1>6

\* What is not zero has an inverse in the field.
LEMMA InverseExists ==
  ASSUME NEW x \in Element, x # 0
  PROVE  inv(x) \in Element /\ mul(x, inv(x)) = 1 /\ inv(x) # 0
<1> DEFINE p == Order
<1>1. p \in Nat /\ p > 1 /\ x \in Nat \ {0} /\ x < p /\ \A d \in 2 .. p - 1 : p % d # 0
  BY OrderAssumption DEF Element
<1> HIDE DEF p
<1>2. ASSUME NEW g \in Nat \ {0}, x % g = 0, p % g = 0 PROVE g = 1
  <2>1. g \notin 2 .. p - 1
    BY <1>1, <1>2
  <2>2. g >= p => x % g = x
    BY <1>1
  <2> QED BY <1>1, <1>2, <2>1, <2>2
<1>3. PICK y \in 1 .. p - 1 : (x * y) % p = 1
  BY <1>1, <1>2, InverseModulo
<1>4. inv(x) \in Element /\ (x * inv(x)) % p = 1
  <2>1. y \in Element /\ (x * y) % Order = 1
    BY <1>1, <1>3 DEF p, Element
  <2> QED BY <2>1 DEF inv, p
<1>5. inv(x) # 0
  <2>1. x * 0 = 0 /\ 0 % p = 0
    BY <1>1
  <2> QED BY <1>4, <2>1
<1> QED BY <1>4, <1>5 DEF mul, p

-----------------------------------------------------------------------------
\* Loops.

\* A loop of n rounds that starts with c.
Loops(f, n, c, G) == f[0] = c /\ \A i \in 0 .. n - 1 : f[i + 1] = G[i][f[i]]

\* A loop whose rounds stay in V exists.
LEMMA LoopExists ==
  ASSUME NEW V, NEW c \in V, NEW n \in Nat, NEW G \in Steps(V)
  PROVE  \E f \in [0 .. n -> V] : Loops(f, n, c, G)
<1>1. PICK g \in [Nat -> V] : Iterates(g, c, G)
  BY IterationOfNat
<1> DEFINE f == [i \in 0 .. n |-> g[i]]
<1>2. f \in [0 .. n -> V]
  OBVIOUS
<1>3. f[0] = c
  BY <1>1 DEF Iterates
<1>4. ASSUME NEW i \in 0 .. n - 1 PROVE f[i + 1] = G[i][f[i]]
  <2>1. i \in Nat /\ f[i] = g[i] /\ f[i + 1] = g[i + 1]
    OBVIOUS
  <2> QED BY <1>1, <2>1 DEF Iterates
<1> HIDE DEF f
<1> QED BY <1>2, <1>3, <1>4 DEF Loops

\* What a loop does to values in V it does from start to end.
LEMMA LoopStays ==
  ASSUME NEW V, NEW n \in Nat, NEW f, f[0] \in V,
         \A i \in 0 .. n - 1 : f[i] \in V => f[i + 1] \in V
  PROVE  \A i \in 0 .. n : f[i] \in V
<1> DEFINE T == {i \in Nat : i <= n => f[i] \in V}
<1>1. 0 \in T
  OBVIOUS
<1>2. \A i \in Nat : i \in T => i + 1 \in T
  OBVIOUS
<1> HIDE DEF T
<1>3. Nat \subseteq T
  BY <1>1, <1>2, InductionOfNat
<1> QED BY <1>3 DEF T

\* Pow multiplies.
Powers(power, x, e) ==
  /\ power \in [0 .. e -> Element]
  /\ power[0] = 1
  /\ \A k \in 0 .. e - 1 : power[k + 1] = mul(x, power[k])
  /\ Pow(x, e) = power[e]

\* Pow is the end of its loop.
LEMMA PowLoops ==
  ASSUME NEW x \in Element, NEW e \in Nat
  PROVE  \E power : Powers(power, x, e)
<1> DEFINE Def(f) == [k \in 0 .. e |-> IF k = 0 THEN 1 ELSE mul(x, f[k - 1])]
<1> DEFINE G == [i \in Nat |-> [v \in Element |-> mul(x, v)]]
<1> DEFINE power == CHOOSE f : f = Def(f)
<1>1. G \in Steps(Element) /\ 1 \in Element
  BY FieldClosed DEF Steps
<1>2. PICK f \in [0 .. e -> Element] : Loops(f, e, 1, G)
  <2> HIDE DEF G
  <2> QED BY <1>1, LoopExists
<1>3. f = Def(f)
  <2>1. ASSUME NEW k \in 0 .. e PROVE f[k] = IF k = 0 THEN 1 ELSE mul(x, f[k - 1])
    <3>1. CASE k # 0
      <4>1. k - 1 \in Nat /\ k - 1 \in 0 .. e - 1 /\ (k - 1) + 1 = k /\ f[k - 1] \in Element
        BY <3>1
      <4> QED BY <1>2, <3>1, <4>1 DEF Loops
    <3> QED BY <1>2, <3>1 DEF Loops
  <2> QED BY <2>1
<1>4. power = Def(power)
  BY <1>3
<1> HIDE DEF power
<1>5. power[0] = 1 /\ \A k \in 0 .. e - 1 : power[k + 1] = mul(x, power[k])
  BY <1>4
<1>6. \A k \in 0 .. e : power[k] \in Element
  <2>1. power[0] \in Element
    BY <1>5, FieldClosed
  <2>2. ASSUME NEW k \in 0 .. e - 1, power[k] \in Element PROVE power[k + 1] \in Element
    BY <1>5, <2>2, FieldClosed
  <2> HIDE DEF Def
  <2> QED BY <2>1, <2>2, LoopStays
<1>7. power \in [0 .. e -> Element]
  BY <1>4, <1>6
<1>8. Pow(x, e) = power[e]
  BY DEF Pow, power
<1> QED BY <1>5, <1>7, <1>8 DEF Powers

-----------------------------------------------------------------------------
\* Sums and matrices.

\* The sums of the first elements of u.
Sums(c, u, n) ==
  /\ c \in [0 .. n -> Element]
  /\ c[0] = 0
  /\ \A k \in 0 .. n - 1 : c[k + 1] = add(c[k], u[k + 1])

\* The sum of the first n elements of u.
SumUpTo(u, n) == (CHOOSE c : Sums(c, u, n))[n]

\* There are sums of elements.
LEMMA SumsExist ==
  ASSUME NEW n \in Nat, NEW u, \A k \in 1 .. n : u[k] \in Element
  PROVE  \E c : Sums(c, u, n)
<1> DEFINE G == [i \in Nat |-> [v \in Element |-> IF i < n THEN add(v, u[i + 1]) ELSE 0]]
<1>1. G \in Steps(Element) /\ 0 \in Element
  <2>1. ASSUME NEW i \in Nat, NEW v \in Element
        PROVE  (IF i < n THEN add(v, u[i + 1]) ELSE 0) \in Element
    BY FieldClosed
  <2> QED BY <2>1, FieldClosed DEF Steps
<1>2. PICK c \in [0 .. n -> Element] : Loops(c, n, 0, G)
  <2> HIDE DEF G
  <2> QED BY <1>1, LoopExists
<1>3. ASSUME NEW k \in 0 .. n - 1 PROVE c[k + 1] = add(c[k], u[k + 1])
  <2>1. c[k] \in Element /\ k \in Nat /\ k < n
    OBVIOUS
  <2> QED BY <1>2, <2>1 DEF Loops
<1> HIDE DEF G
<1> QED BY <1>2, <1>3 DEF Loops, Sums

\* Two loops with the same start and the same rounds agree.
LEMMA LoopsAgree ==
  ASSUME NEW n \in Nat, NEW c, NEW d,
         c[0] = d[0], \A k \in 0 .. n - 1 : c[k] = d[k] => c[k + 1] = d[k + 1]
  PROVE  \A k \in 0 .. n : c[k] = d[k]
<1> DEFINE T == {k \in Nat : k <= n => c[k] = d[k]}
<1>1. 0 \in T
  OBVIOUS
<1>2. \A i \in Nat : i \in T => i + 1 \in T
  OBVIOUS
<1> HIDE DEF T
<1>3. Nat \subseteq T
  BY <1>1, <1>2, InductionOfNat
<1> QED BY <1>3 DEF T

\* Sum adds one element after the other.
LEMMA SumSteps ==
  ASSUME NEW n \in Nat, NEW u, \A k \in 1 .. n : u[k] \in Element
  PROVE  /\ \E c : Sums(c, u, n)
         /\ \A c : Sums(c, u, n) => c[n] = SumUpTo(u, n)
         /\ SumUpTo(u, n) \in Element
<1>1. \E c : Sums(c, u, n)
  BY SumsExist
<1> DEFINE d == CHOOSE c : Sums(c, u, n)
<1>2. Sums(d, u, n)
  BY <1>1
<1> HIDE DEF d
<1>3. ASSUME NEW c, Sums(c, u, n) PROVE c[n] = d[n]
  <2>1. c[0] = d[0] /\ \A k \in 0 .. n - 1 : c[k] = d[k] => c[k + 1] = d[k + 1]
    BY <1>2, <1>3 DEF Sums
  <2>2. \A k \in 0 .. n : c[k] = d[k]
    BY <2>1, LoopsAgree
  <2> QED BY <2>2
<1>4. SumUpTo(u, n) = d[n]
  BY DEF SumUpTo, d
<1>5. d[n] \in Element
  BY <1>2 DEF Sums
<1> QED BY <1>1, <1>3, <1>4, <1>5

\* The sum is zero at first and grows by one element at a time.
LEMMA SumNext ==
  ASSUME NEW n \in Nat, NEW u, \A k \in 1 .. n : u[k] \in Element
  PROVE  /\ SumUpTo(u, 0) = 0
         /\ \A k \in 0 .. n : SumUpTo(u, k) \in Element
         /\ \A k \in 0 .. n - 1 : SumUpTo(u, k + 1) = add(SumUpTo(u, k), u[k + 1])
<1>1. PICK c : Sums(c, u, n)
  BY SumsExist
<1>2. ASSUME NEW k \in 0 .. n PROVE SumUpTo(u, k) = c[k] /\ SumUpTo(u, k) \in Element
  <2> DEFINE d == [i \in 0 .. k |-> c[i]]
  <2>1. k \in Nat /\ \A i \in 1 .. k : u[i] \in Element
    OBVIOUS
  <2>2. d \in [0 .. k -> Element] /\ d[0] = 0 /\ d[k] = c[k]
    BY <1>1 DEF Sums
  <2>3. ASSUME NEW i \in 0 .. k - 1 PROVE d[i + 1] = add(d[i], u[i + 1])
    BY <1>1 DEF Sums
  <2> HIDE DEF d
  <2>4. Sums(d, u, k)
    BY <2>2, <2>3 DEF Sums
  <2> QED BY <2>1, <2>2, <2>4, SumSteps
<1>3. ASSUME NEW k \in 0 .. n - 1 PROVE SumUpTo(u, k + 1) = add(SumUpTo(u, k), u[k + 1])
  <2>1. k \in 0 .. n /\ k + 1 \in 0 .. n /\ c[k + 1] = add(c[k], u[k + 1])
    BY <1>1 DEF Sums
  <2> QED BY <1>2, <2>1
<1>4. SumUpTo(u, 0) = 0
  BY <1>1, <1>2 DEF Sums
<1> QED BY <1>2, <1>3, <1>4

\* Sums of the same elements are equal.
LEMMA SumCongruent ==
  ASSUME NEW n \in Nat, NEW u, NEW v, \A k \in 1 .. n : u[k] \in Element /\ v[k] = u[k]
  PROVE  SumUpTo(u, n) = SumUpTo(v, n)
<1>1. /\ SumUpTo(u, 0) = 0 /\ SumUpTo(v, 0) = 0
      /\ \A k \in 0 .. n - 1 : /\ SumUpTo(u, k + 1) = add(SumUpTo(u, k), u[k + 1])
                             /\ SumUpTo(v, k + 1) = add(SumUpTo(v, k), v[k + 1])
  BY SumNext
<1> DEFINE T == {k \in Nat : k <= n => SumUpTo(u, k) = SumUpTo(v, k)}
<1>2. 0 \in T
  BY <1>1
<1>3. ASSUME NEW k \in Nat, k \in T PROVE k + 1 \in T
  BY <1>1, <1>3
<1> HIDE DEF T
<1>4. Nat \subseteq T
  BY <1>2, <1>3, InductionOfNat
<1> QED BY <1>4 DEF T

\* The sum of multiples is the multiple of the sum.
LEMMA SumOfMultiples ==
  ASSUME NEW n \in Nat, NEW u, NEW v, NEW x \in Element,
         \A k \in 1 .. n : u[k] \in Element /\ v[k] = mul(x, u[k])
  PROVE  SumUpTo(v, n) = mul(x, SumUpTo(u, n))
<1>1. \A k \in 1 .. n : u[k] \in Element /\ v[k] \in Element /\ v[k] = mul(x, u[k])
  BY FieldClosed
<1>2. /\ SumUpTo(u, 0) = 0 /\ SumUpTo(v, 0) = 0
      /\ \A k \in 0 .. n : SumUpTo(u, k) \in Element
      /\ \A k \in 0 .. n - 1 : /\ SumUpTo(u, k + 1) = add(SumUpTo(u, k), u[k + 1])
                             /\ SumUpTo(v, k + 1) = add(SumUpTo(v, k), v[k + 1])
  BY <1>1, SumNext
<1> DEFINE T == {k \in Nat : k <= n => SumUpTo(v, k) = mul(x, SumUpTo(u, k))}
<1>3. 0 \in T
  BY <1>2, FieldLaws
<1>4. ASSUME NEW k \in Nat, k \in T PROVE k + 1 \in T
  <2> SUFFICES ASSUME k + 1 <= n PROVE SumUpTo(v, k + 1) = mul(x, SumUpTo(u, k + 1))
    OBVIOUS
  <2> DEFINE su == SumUpTo(u, k)
  <2> DEFINE y == u[k + 1]
  <2>1. su \in Element /\ y \in Element /\ SumUpTo(u, k + 1) = add(su, y)
    BY <1>1, <1>2
  <2>2. SumUpTo(v, k + 1) = add(mul(x, su), mul(x, y))
    BY <1>1, <1>2, <1>4
  <2> HIDE DEF su, y
  <2>3. mul(x, add(su, y)) = add(mul(x, su), mul(x, y))
    BY <2>1, FieldLaws
  <2> QED BY <2>1, <2>2, <2>3
<1> HIDE DEF T
<1>5. Nat \subseteq T
  BY <1>3, <1>4, InductionOfNat
<1> QED BY <1>5 DEF T

\* The sum of sums is the sum of both.
LEMMA SumOfSums ==
  ASSUME NEW n \in Nat, NEW u, NEW v, NEW w,
         \A k \in 1 .. n : u[k] \in Element /\ v[k] \in Element /\ w[k] = add(u[k], v[k])
  PROVE  SumUpTo(w, n) = add(SumUpTo(u, n), SumUpTo(v, n))
<1>1. \A k \in 1 .. n : u[k] \in Element /\ v[k] \in Element /\ w[k] \in Element /\ w[k] = add(u[k], v[k])
  BY FieldClosed
<1>2. /\ SumUpTo(u, 0) = 0 /\ SumUpTo(v, 0) = 0 /\ SumUpTo(w, 0) = 0
      /\ \A k \in 0 .. n : SumUpTo(u, k) \in Element /\ SumUpTo(v, k) \in Element
      /\ \A k \in 0 .. n - 1 : /\ SumUpTo(u, k + 1) = add(SumUpTo(u, k), u[k + 1])
                             /\ SumUpTo(v, k + 1) = add(SumUpTo(v, k), v[k + 1])
                             /\ SumUpTo(w, k + 1) = add(SumUpTo(w, k), w[k + 1])
  BY <1>1, SumNext
<1> DEFINE T == {k \in Nat : k <= n => SumUpTo(w, k) = add(SumUpTo(u, k), SumUpTo(v, k))}
<1>3. 0 \in T
  BY <1>2, FieldLaws
<1>4. ASSUME NEW k \in Nat, k \in T PROVE k + 1 \in T
  <2> SUFFICES ASSUME k + 1 <= n PROVE SumUpTo(w, k + 1) = add(SumUpTo(u, k + 1), SumUpTo(v, k + 1))
    OBVIOUS
  <2> DEFINE su == SumUpTo(u, k)
  <2> DEFINE sv == SumUpTo(v, k)
  <2> DEFINE x == u[k + 1]
  <2> DEFINE y == v[k + 1]
  <2>1. /\ su \in Element /\ sv \in Element /\ x \in Element /\ y \in Element
        /\ SumUpTo(u, k + 1) = add(su, x) /\ SumUpTo(v, k + 1) = add(sv, y)
    BY <1>1, <1>2
  <2>2. SumUpTo(w, k + 1) = add(add(su, sv), add(x, y))
    BY <1>1, <1>2, <1>4
  <2> HIDE DEF su, sv, x, y
  <2>3. add(add(su, sv), add(x, y)) = add(su, add(sv, add(x, y)))
    BY <2>1, FieldLaws
  <2>4. add(sv, add(x, y)) = add(x, add(sv, y))
    <3>1. add(sv, add(x, y)) = add(add(sv, x), y) /\ add(sv, x) = add(x, sv)
      BY <2>1, FieldLaws, SMTT(40)
    <3>2. add(add(x, sv), y) = add(x, add(sv, y))
      BY <2>1, FieldLaws
    <3> QED BY <3>1, <3>2
  <2>5. add(su, add(x, add(sv, y))) = add(add(su, x), add(sv, y))
    BY <2>1, FieldLaws
  <2> QED BY <2>1, <2>2, <2>3, <2>4, <2>5
<1> HIDE DEF T
<1>5. Nat \subseteq T
  BY <1>3, <1>4, InductionOfNat
<1> QED BY <1>5 DEF T

\* Matrices of field elements.
Matrix(m, w) == [1 .. m -> [1 .. w -> Element]]

\* Rows first or columns first.
Down(t, j, m) == [i \in 1 .. m |-> t[i][j]]

\* The elements of a matrix add up to the same by rows and by columns.
LEMMA SumOfRowsIsSumOfColumns ==
  ASSUME NEW m \in Nat, NEW n \in Nat, NEW t \in Matrix(m, n),
         NEW rows, NEW columns,
         \A i \in 1 .. m : rows[i] = SumUpTo(t[i], n),
         \A j \in 1 .. n : columns[j] = SumUpTo(Down(t, j, m), m)
  PROVE  SumUpTo(rows, m) = SumUpTo(columns, n)
<1> USE DEF Matrix
<1> DEFINE Col(j) == Down(t, j, m)
<1> DEFINE S == [r \in 0 .. m |-> [j \in 1 .. n |-> SumUpTo(Col(j), r)]]
<1>1. \A j \in 1 .. n : \A i \in 1 .. m : Col(j)[i] = t[i][j] /\ Col(j)[i] \in Element
  BY DEF Down
<1> HIDE DEF Col
<1>2. ASSUME NEW j \in 1 .. n
      PROVE  /\ S[0][j] = 0
             /\ \A r \in 0 .. m : S[r][j] \in Element
             /\ \A r \in 0 .. m - 1 : S[r + 1][j] = add(S[r][j], t[r + 1][j])
  <2>1. /\ SumUpTo(Col(j), 0) = 0
        /\ \A r \in 0 .. m : SumUpTo(Col(j), r) \in Element
        /\ \A r \in 0 .. m - 1 : SumUpTo(Col(j), r + 1) = add(SumUpTo(Col(j), r), Col(j)[r + 1])
    BY <1>1, SumNext
  <2>2. \A r \in 0 .. m : S[r][j] = SumUpTo(Col(j), r)
    OBVIOUS
  <2> HIDE DEF S
  <2>3. ASSUME NEW r \in 0 .. m - 1 PROVE S[r + 1][j] = add(S[r][j], t[r + 1][j])
    <3>1. r \in 0 .. m /\ r + 1 \in 0 .. m /\ r + 1 \in 1 .. m
      OBVIOUS
    <3> QED BY <1>1, <2>1, <2>2, <3>1
  <2>4. S[0][j] = 0
    <3>1. 0 \in 0 .. m
      OBVIOUS
    <3> QED BY <2>1, <2>2, <3>1
  <2> QED BY <2>1, <2>2, <2>3, <2>4
<1>3. \A j \in 1 .. n : S[m][j] = columns[j]
  BY DEF Col
<1> HIDE DEF S
<1>4. \A i \in 1 .. m : rows[i] \in Element
  <2>1. ASSUME NEW i \in 1 .. m PROVE SumUpTo(t[i], n) \in Element
    <3> DEFINE u == t[i]
    <3>1. \A k \in 1 .. n : u[k] \in Element
      OBVIOUS
    <3> HIDE DEF u
    <3>2. \A k \in 0 .. n : SumUpTo(u, k) \in Element
      BY <3>1, SumNext
    <3>3. SumUpTo(u, n) \in Element
      BY <3>2
    <3> QED BY <3>3 DEF u
  <2> QED BY <2>1
<1>5. /\ SumUpTo(rows, 0) = 0
      /\ \A r \in 0 .. m : SumUpTo(rows, r) \in Element
      /\ \A r \in 0 .. m - 1 : SumUpTo(rows, r + 1) = add(SumUpTo(rows, r), rows[r + 1])
  BY <1>4, SumNext
<1> DEFINE T == {r \in Nat : r <= m => SumUpTo(rows, r) = SumUpTo(S[r], n)}
<1>6. 0 \in T
  <2> DEFINE z == S[0]
  <2>1. \A j \in 1 .. n : z[j] = 0 /\ z[j] \in Element
    BY <1>2, FieldClosed
  <2> HIDE DEF z
  <2>2. \A k \in 1 .. n : z[k] \in Element /\ z[k] = mul(0, z[k])
    BY <2>1, FieldLaws
  <2>3. SumUpTo(z, n) = mul(0, SumUpTo(z, n))
    BY <2>2, FieldClosed, SumOfMultiples
  <2>5. \A k \in 0 .. n : SumUpTo(z, k) \in Element
    BY <2>1, SumNext
  <2>4. SumUpTo(z, n) = 0
    BY <2>3, <2>5, FieldLaws
  <2> QED BY <1>5, <2>4 DEF z
<1>7. ASSUME NEW r \in Nat, r \in T PROVE r + 1 \in T
  <2> SUFFICES ASSUME r + 1 <= m PROVE SumUpTo(rows, r + 1) = SumUpTo(S[r + 1], n)
    OBVIOUS
  <2> DEFINE u == S[r]
  <2> DEFINE v == t[r + 1]
  <2> DEFINE w == S[r + 1]
  <2>1. r \in 0 .. m /\ r \in 0 .. m - 1 /\ r + 1 \in 1 .. m
    OBVIOUS
  <2>2. \A j \in 1 .. n : u[j] \in Element /\ v[j] \in Element /\ w[j] = add(u[j], v[j])
    BY <1>2, <2>1
  <2>3. SumUpTo(rows, r + 1) = add(SumUpTo(u, n), SumUpTo(v, n))
    BY <1>5, <1>7, <2>1
  <2> HIDE DEF u, v, w
  <2>4. SumUpTo(w, n) = add(SumUpTo(u, n), SumUpTo(v, n))
    BY <2>2, SumOfSums
  <2> QED BY <2>3, <2>4 DEF w
<1> HIDE DEF T
<1>8. Nat \subseteq T
  BY <1>6, <1>7, InductionOfNat
<1>9. SumUpTo(rows, m) = SumUpTo(S[m], n)
  BY <1>8 DEF T
<1>10. SumUpTo(S[m], n) = SumUpTo(columns, n)
  <2> DEFINE u == S[m]
  <2>1. \A j \in 1 .. n : u[j] \in Element /\ columns[j] = u[j]
    BY <1>2, <1>3
  <2> HIDE DEF u
  <2>2. SumUpTo(u, n) = SumUpTo(columns, n)
    BY <2>1, SumCongruent
  <2> QED BY <2>2 DEF u
<1> QED BY <1>9, <1>10

-----------------------------------------------------------------------------
\* A function on 1 to m is a sequence of length m.
LEMMA RowsAndLength ==
  ASSUME NEW m \in Nat, NEW S, NEW A \in [1 .. m -> S]
  PROVE  Len(A) = m /\ DOMAIN A = 1 .. m /\ A \in Seq(S)
<1>1. A \in Seq(S)
  OBVIOUS
<1> QED BY <1>1

\* An element of the product is the sum of a row times a column.
Terms(A, B, i, j, n) == [k \in 1 .. n |-> mul(A[i][k], B[k][j])]

\* C is the product of A and B.
IsProduct(C, A, B, l, n, w) ==
  /\ C \in Matrix(l, w)
  /\ \A i \in 1 .. l : \A j \in 1 .. w : C[i][j] = SumUpTo(Terms(A, B, i, j, n), n)

\* matMul returns the product of matrices (rescue-cipher.ts, Matrix.matMul).
LEMMA MatMulSums ==
  ASSUME NEW l \in Nat, NEW n \in Nat \ {0}, NEW w \in Nat, NEW A \in Matrix(l, n), NEW B \in Matrix(n, w)
  PROVE  IsProduct(matMul(A, B), A, B, l, n, w)
<1>1. DOMAIN A = 1 .. l /\ DOMAIN B[1] = 1 .. w /\ Len(B) = n
  BY RowsAndLength DEF Matrix
<1> DEFINE Def(f, i, j) ==
      [k \in 0 .. n |-> IF k = 0 THEN 0 ELSE add(f[k - 1], mul(A[i][k], B[k][j]))]
<1> DEFINE Entry(i, j) == (CHOOSE f : f = Def(f, i, j))[n]
<1>2. matMul(A, B) = [i \in 1 .. l |-> [j \in 1 .. w |-> Entry(i, j)]]
  BY <1>1 DEF matMul
<1>3. ASSUME NEW i \in 1 .. l, NEW j \in 1 .. w
      PROVE  Entry(i, j) = SumUpTo(Terms(A, B, i, j, n), n) /\ Entry(i, j) \in Element
  <2> DEFINE u == Terms(A, B, i, j, n)
  <2>1. \A k \in 1 .. n : u[k] = mul(A[i][k], B[k][j]) /\ u[k] \in Element
    BY FieldClosed DEF Matrix, Terms
  <2> HIDE DEF u
  <2>3. PICK c : Sums(c, u, n)
    BY <2>1, SumSteps
  <2>4. c = Def(c, i, j)
    <3>1. ASSUME NEW k \in 0 .. n PROVE c[k] = IF k = 0 THEN 0 ELSE add(c[k - 1], mul(A[i][k], B[k][j]))
      <4>1. CASE k # 0
        <5>1. k - 1 \in 0 .. n - 1 /\ (k - 1) + 1 = k
          BY <4>1
        <5> QED BY <2>1, <2>3, <4>1, <5>1 DEF Sums
      <4> QED BY <2>3, <4>1 DEF Sums
    <3> QED BY <2>3, <3>1 DEF Sums
  <2> DEFINE d == CHOOSE f : f = Def(f, i, j)
  <2>5. d = Def(d, i, j)
    BY <2>4
  <2> HIDE DEF d
  <2>6. d[0] = 0
    BY <2>5
  <2>7. ASSUME NEW k \in 0 .. n - 1 PROVE d[k + 1] = add(d[k], u[k + 1])
    <3>1. k + 1 \in 0 .. n /\ k + 1 # 0 /\ (k + 1) - 1 = k /\ k + 1 \in 1 .. n
      OBVIOUS
    <3> QED BY <2>1, <2>5, <3>1
  <2>8. d[n] = c[n]
    <3>1. d[0] = c[0] /\ \A k \in 0 .. n - 1 : d[k] = c[k] => d[k + 1] = c[k + 1]
      BY <2>3, <2>6, <2>7 DEF Sums
    <3>2. \A k \in 0 .. n : d[k] = c[k]
      BY <3>1, LoopsAgree
    <3> QED BY <3>2
  <2>9. c[n] = SumUpTo(u, n) /\ SumUpTo(u, n) \in Element
    BY <2>1, <2>3, SumSteps
  <2>10. Entry(i, j) = d[n]
    BY DEF d
  <2> QED BY <2>8, <2>9, <2>10 DEF u
<1> HIDE DEF Entry
<1> QED BY <1>2, <1>3 DEF Matrix, IsProduct

-----------------------------------------------------------------------------
\* Columns.

\* A matrix of one column.
Column(m) == Matrix(m, 1)

\* Two matrices of one column are equal if their elements are.
LEMMA ColumnsAreEqual ==
  ASSUME NEW m \in Nat, NEW s \in Column(m), NEW t \in Column(m), \A i \in 1 .. m : s[i][1] = t[i][1]
  PROVE  s = t
<1>1. ASSUME NEW i \in 1 .. m PROVE s[i] = t[i]
  <2>1. s[i] \in [1 .. 1 -> Element] /\ t[i] \in [1 .. 1 -> Element]
    BY DEF Column, Matrix
  <2>2. \A j \in 1 .. 1 : s[i][j] = t[i][j]
    <3>1. \A j \in 1 .. 1 : j = 1
      OBVIOUS
    <3> QED BY <3>1
  <2> QED BY <2>1, <2>2
<1>2. s \in [1 .. m -> [1 .. 1 -> Element]] /\ t \in [1 .. m -> [1 .. 1 -> Element]]
  BY DEF Column, Matrix
<1> QED BY <1>1, <1>2

\* The product of matrices is associative.
LEMMA MatMulAssociates ==
  ASSUME NEW m \in Nat \ {0}, NEW A \in Matrix(m, m), NEW B \in Matrix(m, m), NEW s \in Column(m)
  PROVE  matMul(A, matMul(B, s)) = matMul(matMul(A, B), s)
<1> DEFINE Bs == matMul(B, s)
<1> DEFINE AB == matMul(A, B)
<1> DEFINE left == matMul(A, Bs)
<1> DEFINE right == matMul(AB, s)
<1>1. s \in Matrix(m, 1) /\ m \in Nat
  BY DEF Column
<1>2. IsProduct(Bs, B, s, m, m, 1) /\ IsProduct(AB, A, B, m, m, m)
  BY <1>1, MatMulSums
<1>3. Bs \in Matrix(m, 1) /\ AB \in Matrix(m, m)
  BY <1>2 DEF IsProduct
<1> HIDE DEF Bs, AB
<1>4. IsProduct(left, A, Bs, m, m, 1) /\ IsProduct(right, AB, s, m, m, 1)
  BY <1>1, <1>3, MatMulSums
<1>5. left \in Matrix(m, 1) /\ right \in Matrix(m, 1)
  BY <1>4 DEF IsProduct
<1> HIDE DEF left, right
<1>6. ASSUME NEW i \in 1 .. m PROVE left[i][1] = right[i][1]
  <2> DEFINE t == [k \in 1 .. m |-> [l \in 1 .. m |-> mul(A[i][k], mul(B[k][l], s[l][1]))]]
  <2> DEFINE rows == Terms(A, Bs, i, 1, m)
  <2> DEFINE columns == Terms(AB, s, i, 1, m)
  <2>1. \A k, l \in 1 .. m : A[i][k] \in Element /\ B[k][l] \in Element /\ s[l][1] \in Element
    BY <1>1 DEF Matrix
  <2>2. \A k, l \in 1 .. m : mul(A[i][k], mul(B[k][l], s[l][1])) \in Element
    BY <2>1, FieldClosed
  <2>3. t \in Matrix(m, m)
    BY <2>2 DEF Matrix
  <2>4. ASSUME NEW k \in 1 .. m PROVE rows[k] = SumUpTo(t[k], m)
    <3> DEFINE u == Terms(B, s, k, 1, m)
    <3> DEFINE v == t[k]
    <3> DEFINE x == A[i][k]
    <3>1. \A l \in 1 .. m : u[l] \in Element /\ v[l] = mul(x, u[l])
      BY <2>1, FieldClosed DEF Terms
    <3>2. x \in Element /\ rows[k] = mul(x, SumUpTo(u, m))
      BY <1>2, <2>1 DEF Terms, IsProduct
    <3> HIDE DEF u, v, x, rows
    <3>3. SumUpTo(v, m) = mul(x, SumUpTo(u, m))
      BY <1>1, <3>1, <3>2, SumOfMultiples
    <3> QED BY <3>2, <3>3 DEF v
  <2>5. ASSUME NEW l \in 1 .. m PROVE columns[l] = SumUpTo(Down(t, l, m), m)
    <3> DEFINE u == Terms(A, B, i, l, m)
    <3> DEFINE v == Down(t, l, m)
    <3> DEFINE x == s[l][1]
    <3>1. ASSUME NEW k \in 1 .. m PROVE u[k] \in Element /\ v[k] = mul(x, u[k])
      <4> DEFINE a == A[i][k]
      <4> DEFINE b == B[k][l]
      <4>1. a \in Element /\ b \in Element /\ x \in Element
        BY <2>1
      <4>2. u[k] = mul(a, b) /\ v[k] = mul(a, mul(b, x))
        BY DEF Terms, Down
      <4> HIDE DEF a, b, x, u, v
      <4>3. mul(mul(a, b), x) = mul(a, mul(b, x))
        BY <4>1, FieldLaws
      <4>4. mul(a, b) \in Element
        BY <4>1, FieldClosed
      <4>5. mul(x, mul(a, b)) = mul(mul(a, b), x)
        BY <4>1, <4>4, FieldLaws
      <4> QED BY <4>2, <4>3, <4>4, <4>5
    <3>2. x \in Element /\ columns[l] = mul(SumUpTo(u, m), x)
      BY <1>2, <2>1 DEF Terms, IsProduct
    <3> HIDE DEF u, v, x, columns
    <3>3. SumUpTo(v, m) = mul(x, SumUpTo(u, m))
      BY <1>1, <3>1, <3>2, SumOfMultiples
    <3>4. \A r \in 0 .. m : SumUpTo(u, r) \in Element
      BY <1>1, <3>1, SumNext
    <3>5. mul(x, SumUpTo(u, m)) = mul(SumUpTo(u, m), x)
      <4>1. SumUpTo(u, m) \in Element
        BY <3>4
      <4> QED BY <3>2, <4>1, FieldLaws
    <3> QED BY <3>2, <3>3, <3>5 DEF v
  <2> HIDE DEF t, rows, columns
  <2>6. SumUpTo(rows, m) = SumUpTo(columns, m)
    BY <1>1, <2>3, <2>4, <2>5, SumOfRowsIsSumOfColumns
  <2> QED BY <1>4, <2>6 DEF rows, columns, IsProduct
<1>7. left = right
  BY <1>1, <1>4, <1>5, <1>6, ColumnsAreEqual DEF Column
<1> QED BY <1>7 DEF left, right, Bs, AB

\* The identity matrix.
Identity(size) == [i \in 1 .. size |-> [j \in 1 .. size |-> IF i = j THEN 1 ELSE 0]]

\* The identity leaves a column as it is.
LEMMA IdentityLeaves ==
  ASSUME NEW m \in Nat \ {0}, NEW s \in Column(m)
  PROVE  matMul(Identity(m), s) = s
<1>1. m \in Nat /\ s \in Matrix(m, 1)
  BY DEF Column
<1>2. Identity(m) \in Matrix(m, m)
  BY FieldClosed DEF Identity, Matrix
<1> DEFINE Is == matMul(Identity(m), s)
<1>3. IsProduct(Is, Identity(m), s, m, m, 1)
  BY <1>1, <1>2, MatMulSums
<1> HIDE DEF Is
<1>4. ASSUME NEW i \in 1 .. m PROVE Is[i][1] = s[i][1]
  <2> DEFINE u == Terms(Identity(m), s, i, 1, m)
  <2> DEFINE x == s[i][1]
  <2>1. ASSUME NEW k \in 1 .. m PROVE u[k] = (IF k = i THEN x ELSE 0) /\ u[k] \in Element
    <3>1. s[k][1] \in Element
      BY <1>1 DEF Matrix
    <3>2. u[k] = mul(IF i = k THEN 1 ELSE 0, s[k][1])
      BY DEF Terms, Identity
    <3>3. mul(1, s[k][1]) = s[k][1] /\ mul(0, s[k][1]) = 0
      BY <3>1, FieldLaws
    <3> QED BY <3>1, <3>2, <3>3, FieldClosed
  <2>2. x \in Element
    BY <1>1 DEF Matrix
  <2> HIDE DEF u, x
  <2>3. /\ SumUpTo(u, 0) = 0
        /\ \A k \in 0 .. m - 1 : SumUpTo(u, k + 1) = add(SumUpTo(u, k), u[k + 1])
    BY <1>1, <2>1, SumNext
  <2> DEFINE T == {k \in Nat : k <= m => SumUpTo(u, k) = IF k < i THEN 0 ELSE x}
  <2>4. 0 \in T
    BY <2>3
  <2>5. ASSUME NEW k \in Nat, k \in T PROVE k + 1 \in T
    <3> SUFFICES ASSUME k + 1 <= m PROVE SumUpTo(u, k + 1) = IF k + 1 < i THEN 0 ELSE x
      OBVIOUS
    <3>1. SumUpTo(u, k + 1) = add(SumUpTo(u, k), u[k + 1]) /\ SumUpTo(u, k) = IF k < i THEN 0 ELSE x
      BY <2>3, <2>5
    <3>2. u[k + 1] = IF k + 1 = i THEN x ELSE 0
      BY <2>1
    <3>3. add(0, 0) = 0 /\ add(0, x) = x /\ add(x, 0) = x
      BY <2>2, FieldLaws
    <3> QED BY <3>1, <3>2, <3>3
  <2> HIDE DEF T
  <2>6. Nat \subseteq T
    BY <2>4, <2>5, InductionOfNat
  <2>7. SumUpTo(u, m) = x
    BY <1>1, <2>6 DEF T
  <2> QED BY <1>3, <2>7 DEF u, x, IsProduct
<1>5. Is = s
  BY <1>1, <1>3, <1>4, ColumnsAreEqual DEF Column, IsProduct
<1> QED BY <1>5 DEF Is

-----------------------------------------------------------------------------
\* The matrices of the permutation.

\* What product returns is an element, and no zero if there is none among the factors.
LEMMA ProductOfElements ==
  ASSUME NEW n \in Nat, NEW V, V = Element \/ V = Element \ {0}, NEW arr \in [1 .. n -> V]
  PROVE  product(arr) \in V
<1>1. 1 \in V /\ \A x, y \in V : mul(x, y) \in V
  <2>1. ASSUME NEW x \in Element, NEW y \in Element, x # 0, y # 0 PROVE mul(x, y) # 0
    <3>1. inv(y) \in Element /\ mul(y, inv(y)) = 1
      BY <2>1, InverseExists
    <3>2. mul(mul(x, y), inv(y)) = mul(x, 1) /\ mul(x, 1) = x
      <4>1. mul(mul(x, y), inv(y)) = mul(x, mul(y, inv(y)))
        BY <3>1, FieldLaws
      <4>2. 1 \in Element /\ mul(1, x) = x /\ mul(x, 1) = mul(1, x)
        BY FieldLaws
      <4> QED BY <3>1, <4>1, <4>2
    <3>3. mul(0, inv(y)) = 0
      BY <3>1, FieldLaws
    <3> QED BY <2>1, <3>2, <3>3
  <2> QED BY <2>1, FieldClosed
<1>2. Len(arr) = n
  BY RowsAndLength
<1> DEFINE Def(f) == [k \in 0 .. n |-> IF k = 0 THEN 1 ELSE mul(f[k - 1], arr[k])]
<1> DEFINE G == [i \in Nat |-> [v \in V |-> IF i < n THEN mul(v, arr[i + 1]) ELSE 1]]
<1> DEFINE acc == CHOOSE f : f = Def(f)
<1>3. G \in Steps(V)
  BY <1>1 DEF Steps
<1>4. PICK f \in [0 .. n -> V] : Loops(f, n, 1, G)
  <2> HIDE DEF G
  <2> QED BY <1>1, <1>3, LoopExists
<1>5. f = Def(f)
  <2>1. ASSUME NEW k \in 0 .. n PROVE f[k] = IF k = 0 THEN 1 ELSE mul(f[k - 1], arr[k])
    <3>1. CASE k # 0
      <4>1. k - 1 \in Nat /\ k - 1 < n /\ k - 1 \in 0 .. n - 1 /\ (k - 1) + 1 = k /\ f[k - 1] \in V
        BY <3>1
      <4>2. f[k] = G[k - 1][f[k - 1]]
        BY <1>4, <4>1 DEF Loops
      <4> QED BY <3>1, <4>1, <4>2
    <3> QED BY <1>4, <3>1 DEF Loops
  <2> HIDE DEF G
  <2> QED BY <2>1
<1>6. acc = Def(acc)
  BY <1>5
<1> HIDE DEF acc
<1>7. acc[0] \in V
  BY <1>1, <1>6
<1>8. ASSUME NEW k \in 0 .. n - 1, acc[k] \in V PROVE acc[k + 1] \in V
  <2>1. acc[k + 1] = mul(acc[k], arr[k + 1]) /\ arr[k + 1] \in V
    BY <1>6
  <2> QED BY <1>1, <1>8, <2>1
<1> HIDE DEF Def
<1>9. \A k \in 0 .. n : acc[k] \in V
  BY <1>7, <1>8, LoopStays
<1>10. product(arr) = acc[n]
  BY <1>2 DEF product, acc, Def
<1> QED BY <1>9, <1>10

\* The indices of the Cauchy matrix are far enough from the order.
LEMMA IndexNotZero ==
  ASSUME NEW z \in Int, z # 0, -Order < z, z < Order
  PROVE  z % Order \in Element \ {0}
<1>1. Order \in Nat /\ Order > 2 /\ z \in -Order .. 2 * Order - 1
  BY OrderIsOdd
<1>2. z % Order = IF z < 0 THEN z + Order ELSE z
  BY <1>1, RemainderOfSum
<1> QED BY <1>1, <1>2 DEF Element

-----------------------------------------------------------------------------
\* Sizes and exponents.

\* The sizes of the permutations.
Size == {BlockSize, Rate + Capacity}

\* The sizes of the permutations of the cipher and of the hash.
LEMMA SizesFit ==
  /\ BlockSize \in Size /\ Rate + Capacity \in Size
  /\ \A m \in Size : m \in Nat \ {0} /\ 2 * m < Order
  /\ Order \in Nat
BY CipherAssumption, OrderIsOdd DEF Size

\* buildCauchy and buildInverseCauchy return matrices of elements: every inverse they take exists.
LEMMA MdsMatrices ==
  ASSUME NEW m \in Size
  PROVE  mdsMat[m] \in Matrix(m, m) /\ mdsMatInverse[m] \in Matrix(m, m)
<1>1. m \in Nat /\ 2 * m < Order /\ Order \in Nat
  BY SizesFit
<1>2. mdsMat[m] \in Matrix(m, m)
  <2>1. ASSUME NEW i \in 1 .. m, NEW j \in 1 .. m PROVE inv((i + j) % Order) \in Element
    <3>1. (i + j) % Order \in Element \ {0}
      BY <1>1, IndexNotZero
    <3> QED BY <3>1, InverseExists
  <2>2. buildCauchy(m) \in Matrix(m, m)
    BY <2>1 DEF buildCauchy, Matrix
  <2> QED BY <2>2 DEF mdsMat, Size
<1>3. mdsMatInverse[m] \in Matrix(m, m)
  <2> DEFINE a(i) == product([k \in 1 .. m |-> (-i - k) % Order])
  <2> DEFINE aPrime(j) == product([k \in 1 .. m |-> IF k = j THEN 1 ELSE (j - k) % Order])
  <2> DEFINE b(j) == product([k \in 1 .. m |-> (j + k) % Order])
  <2> DEFINE bPrime(i) == product([k \in 1 .. m |-> IF k = i THEN 1 ELSE (k - i) % Order])
  <2> DEFINE c(i, j) == inv((-i - j) % Order)
  <2>1. ASSUME NEW i \in 1 .. m, NEW j \in 1 .. m
        PROVE  mul(a(i), mul(b(j), mul(inv(aPrime(j)), mul(inv(bPrime(i)), c(i, j))))) \in Element
    <3>1. ASSUME NEW k \in 1 .. m
          PROVE  /\ (-i - k) % Order \in Element
                 /\ (j + k) % Order \in Element
                 /\ (IF k = j THEN 1 ELSE (j - k) % Order) \in Element \ {0}
                 /\ (IF k = i THEN 1 ELSE (k - i) % Order) \in Element \ {0}
      <4>1. 1 \in Element \ {0}
        BY FieldClosed
      <4>2. CASE k = j /\ k = i
        BY <1>1, <4>1, <4>2, RemaindersFirst
      <4>3. k # j => (j - k) % Order \in Element \ {0}
        BY <1>1, IndexNotZero
      <4>4. k # i => (k - i) % Order \in Element \ {0}
        BY <1>1, IndexNotZero, SMTT(40)
      <4>5. (-i - k) % Order \in Element /\ (j + k) % Order \in Element
        BY <1>1, RemaindersFirst
      <4> QED BY <4>1, <4>3, <4>4, <4>5
    <3>2. a(i) \in Element /\ b(j) \in Element
      BY <1>1, <3>1, ProductOfElements
    <3>3. aPrime(j) \in Element \ {0} /\ bPrime(i) \in Element \ {0}
      BY <1>1, <3>1, ProductOfElements
    <3>4. inv(aPrime(j)) \in Element /\ inv(bPrime(i)) \in Element
      <4> HIDE DEF aPrime, bPrime
      <4> QED BY <3>3, InverseExists
    <3>5. c(i, j) \in Element
      <4>1. (-i - j) % Order \in Element \ {0}
        BY <1>1, IndexNotZero
      <4> QED BY <4>1, InverseExists
    <3> HIDE DEF a, aPrime, b, bPrime, c
    <3> QED BY <3>2, <3>4, <3>5, FieldClosed
  <2>2. buildInverseCauchy(m) \in Matrix(m, m)
    BY <2>1 DEF buildInverseCauchy, Matrix
  <2> QED BY <2>2 DEF mdsMatInverse, Size
<1> QED BY <1>2, <1>3

-----------------------------------------------------------------------------
\* alpha is a prime that does not divide Order - 1, so it has an inverse modulo Order - 1.
LEMMA AlphaExists ==
  /\ alpha \in Nat \ {0}
  /\ alphaInverse \in Nat \ {0}
  /\ (alpha * alphaInverse) % (Order - 1) = 1
<1> DEFINE T == {a \in AlphaCandidates : (Order - 1) % a # 0}
<1>1. T \subseteq Nat \ {0} /\ T # {}
  BY AlphaAssumption DEF AlphaCandidates
<1>2. \E i \in T : \A j \in T : i <= j
  <2>1. T \subseteq Nat
    BY <1>1
  <2> HIDE DEF T
  <2> QED BY <1>1, <2>1, LeastOfNat
<1>3. alpha = CHOOSE x \in T : \A y \in T : x <= y
  BY DEF alpha, Min
<1>4. alpha \in T
  <2> HIDE DEF T
  <2> QED BY <1>2, <1>3
<1>5. alpha \in Nat \ {0}
  BY <1>1, <1>4
<1>6. alpha \in AlphaCandidates /\ (Order - 1) % alpha # 0
  BY <1>4
<1> HIDE DEF T
<1> DEFINE n == Order - 1
<1>7. n \in Nat /\ n > 1
  BY OrderIsOdd
<1> HIDE DEF n
<1>8. ASSUME NEW g \in Nat \ {0}, alpha % g = 0, n % g = 0 PROVE g = 1
  <2> DEFINE k == alpha \div g
  <2>1. k \in Int /\ alpha = g * k + (alpha % g)
    BY <1>5, Division
  <2>2. alpha = g * k /\ k \in Int
    BY <1>8, <2>1
  <2> HIDE DEF k
  <2>3. \A a \in AlphaCandidates : \A d \in Nat \ {0}, l \in Int : a = d * l => d = 1 \/ d = a
    BY DEF AlphaCandidates
  <2>4. g = 1 \/ g = alpha
    BY <1>6, <2>2, <2>3
  <2> QED BY <1>6, <1>8, <2>4 DEF n
<1>9. PICK e \in 1 .. n - 1 : (alpha * e) % n = 1
  BY <1>5, <1>7, <1>8, InverseModulo
<1>10. alphaInverse \in 1 .. n - 1 /\ (alpha * alphaInverse) % n = 1
  <2>1. 1 .. Order - 2 = 1 .. n - 1
    BY OrderIsOdd DEF n
  <2>2. \E f \in 1 .. Order - 2 : (alpha * f) % (Order - 1) = 1
    BY <1>9, <2>1 DEF n
  <2> QED BY <2>1, <2>2 DEF alphaInverse, n
<1> QED BY <1>5, <1>7, <1>10 DEF n

\* The cipher and the hash.
Mode == {"cipher", "hash"}

\* The exponents of the rounds are natural numbers.
LEMMA ExponentsAreNat ==
  ASSUME NEW mode \in Mode, NEW r \in Nat
  PROVE  Exponent(mode, r) \in Nat
BY AlphaExists DEF Exponent, exponentForEven, exponentForOdd

\* A power of an element is an element.
LEMMA PowIsElement ==
  ASSUME NEW x \in Element, NEW e \in Nat
  PROVE  Pow(x, e) \in Element
<1>1. PICK power : Powers(power, x, e)
  BY PowLoops
<1> QED BY <1>1 DEF Powers

-----------------------------------------------------------------------------
\* Columns, element by element.
LEMMA ColumnIs ==
  ASSUME NEW m \in Nat, NEW s \in Column(m)
  PROVE  /\ DOMAIN s = 1 .. m /\ \A i \in 1 .. m : DOMAIN s[i] = 1 .. 1
         /\ \A i \in 1 .. m : s[i][1] \in Element
         /\ s = [i \in 1 .. m |-> [j \in 1 .. 1 |-> s[i][j]]]
<1>1. \A i \in 1 .. m : DOMAIN s[i] = 1 .. 1 /\ s[i] = [j \in 1 .. 1 |-> s[i][j]] /\ s[i][1] \in Element
  BY DEF Column, Matrix
<1>2. DOMAIN s = 1 .. m /\ s = [i \in 1 .. m |-> s[i]]
  BY DEF Column, Matrix
<1> QED BY <1>1, <1>2

\* Adding and subtracting columns adds and subtracts their elements.
LEMMA ElementwiseIs ==
  ASSUME NEW m \in Nat, NEW s \in Column(m), NEW t \in Column(m)
  PROVE  /\ Elementwise(add, s, t) \in Column(m)
         /\ Elementwise(sub, s, t) \in Column(m)
         /\ Elementwise(AddCT, s, t) \in Column(m)
         /\ \A i \in 1 .. m : /\ Elementwise(add, s, t)[i][1] = add(s[i][1], t[i][1])
                            /\ Elementwise(sub, s, t)[i][1] = sub(s[i][1], t[i][1])
<1>1. /\ Elementwise(add, s, t) = [i \in 1 .. m |-> [j \in 1 .. 1 |-> add(s[i][j], t[i][j])]]
      /\ Elementwise(sub, s, t) = [i \in 1 .. m |-> [j \in 1 .. 1 |-> sub(s[i][j], t[i][j])]]
      /\ Elementwise(AddCT, s, t) = [i \in 1 .. m |-> [j \in 1 .. 1 |-> AddCT(s[i][j], t[i][j])]]
  BY ColumnIs DEF Elementwise
<1>2. ASSUME NEW i \in 1 .. m, NEW j \in 1 .. 1
      PROVE  /\ add(s[i][j], t[i][j]) \in Element
             /\ sub(s[i][j], t[i][j]) \in Element
             /\ AddCT(s[i][j], t[i][j]) \in Element
  <2>1. j = 1 /\ s[i][1] \in Element /\ t[i][1] \in Element
    BY ColumnIs
  <2> QED BY <2>1, FieldClosed, AddCTAdds
<1> QED BY <1>1, <1>2 DEF Column, Matrix

\* Adding and subtracting a column undo each other.
LEMMA ElementwiseInverts ==
  ASSUME NEW m \in Nat, NEW s \in Column(m), NEW t \in Column(m)
  PROVE  /\ Elementwise(add, Elementwise(sub, s, t), t) = s
         /\ Elementwise(sub, Elementwise(add, s, t), t) = s
<1> DEFINE a == Elementwise(add, s, t)
<1> DEFINE b == Elementwise(sub, s, t)
<1> DEFINE ba == Elementwise(add, b, t)
<1> DEFINE ab == Elementwise(sub, a, t)
<1>1. /\ a \in Column(m) /\ b \in Column(m)
      /\ \A i \in 1 .. m : a[i][1] = add(s[i][1], t[i][1]) /\ b[i][1] = sub(s[i][1], t[i][1])
  BY ElementwiseIs
<1> HIDE DEF a, b
<1>2. /\ ba \in Column(m) /\ ab \in Column(m)
      /\ \A i \in 1 .. m : ba[i][1] = add(b[i][1], t[i][1]) /\ ab[i][1] = sub(a[i][1], t[i][1])
  BY <1>1, ElementwiseIs, ZenonT(40)
<1> HIDE DEF ab, ba
<1>3. ASSUME NEW i \in 1 .. m PROVE ba[i][1] = s[i][1] /\ ab[i][1] = s[i][1]
  <2>1. s[i][1] \in Element /\ t[i][1] \in Element
    BY ColumnIs
  <2>2. add(sub(s[i][1], t[i][1]), t[i][1]) = s[i][1] /\ sub(add(s[i][1], t[i][1]), t[i][1]) = s[i][1]
    BY <2>1, FieldLaws, ZenonT(40)
  <2> QED BY <1>1, <1>2, <2>2
<1>4. ba = s /\ ab = s
  BY <1>2, <1>3, ColumnsAreEqual
<1> QED BY <1>4 DEF a, b, ab, ba

\* pow takes the power of each element of a column.
LEMMA PowOfColumn ==
  ASSUME NEW m \in Nat, NEW s \in Column(m), NEW e \in Nat
  PROVE  /\ pow(s, e) \in Column(m)
         /\ pow(s, e) = [i \in 1 .. m |-> [j \in 1 .. 1 |-> Pow(s[i][j], e)]]
<1>1. DOMAIN s = 1 .. m /\ \A i \in 1 .. m : DOMAIN s[i] = 1 .. 1
  BY DEF Column, Matrix
<1>2. \A i \in 1 .. m : \A j \in 1 .. 1 : s[i][j] \in Element
  BY DEF Column, Matrix
<1>3. pow(s, e) = [i \in 1 .. m |-> [j \in 1 .. 1 |-> Pow(s[i][j], e)]]
  BY <1>1 DEF pow
<1>4. pow(s, e) \in Column(m)
  BY <1>2, <1>3, PowIsElement DEF Column, Matrix
<1> QED BY <1>3, <1>4

-----------------------------------------------------------------------------
\* Powers.

\* Pow multiplies once more for each step of the exponent.
LEMMA PowNext ==
  ASSUME NEW x \in Element
  PROVE  /\ Pow(x, 0) = 1
         /\ \A e \in Nat : Pow(x, e) \in Element /\ Pow(x, e + 1) = mul(x, Pow(x, e))
<1>1. Pow(x, 0) = 1
  <2>1. PICK power : Powers(power, x, 0)
    BY PowLoops
  <2> QED BY <2>1 DEF Powers
<1>2. ASSUME NEW e \in Nat PROVE Pow(x, e + 1) = mul(x, Pow(x, e))
  <2>1. PICK c : Powers(c, x, e)
    BY PowLoops
  <2>2. PICK d : Powers(d, x, e + 1)
    <3>1. e + 1 \in Nat
      OBVIOUS
    <3> QED BY <3>1, PowLoops
  <2>3. ASSUME NEW k \in 0 .. e - 1, c[k] = d[k] PROVE c[k + 1] = d[k + 1]
    <3>1. k \in 0 .. (e + 1) - 1
      OBVIOUS
    <3>2. c[k + 1] = mul(x, c[k])
      BY <2>1 DEF Powers
    <3>3. d[k + 1] = mul(x, d[k])
      BY <2>2, <3>1 DEF Powers
    <3> QED BY <2>3, <3>2, <3>3
  <2>4. c[0] = d[0]
    BY <2>1, <2>2 DEF Powers
  <2>5. \A k \in 0 .. e : c[k] = d[k]
    BY <2>3, <2>4, LoopsAgree
  <2>6. c[e] = d[e]
    BY <2>5
  <2>7. d[e + 1] = mul(x, d[e])
    <3>1. e \in 0 .. (e + 1) - 1
      OBVIOUS
    <3> QED BY <2>2, <3>1 DEF Powers
  <2> QED BY <2>1, <2>2, <2>6, <2>7 DEF Powers
<1> QED BY <1>1, <1>2, PowIsElement

\* The exponents of a product add up.
LEMMA PowAdds ==
  ASSUME NEW x \in Element, NEW b \in Nat
  PROVE  \A a \in Nat : Pow(x, a + b) = mul(Pow(x, a), Pow(x, b))
<1> DEFINE T == {a \in Nat : Pow(x, a + b) = mul(Pow(x, a), Pow(x, b))}
<1>1. 0 \in T
  <2>1. Pow(x, b) \in Element /\ Pow(x, 0) = 1 /\ 0 + b = b
    BY PowNext
  <2>2. mul(1, Pow(x, b)) = Pow(x, b)
    BY <2>1, FieldLaws
  <2> QED BY <2>1, <2>2
<1>2. ASSUME NEW a \in Nat, a \in T PROVE a + 1 \in T
  <2>1. a + b \in Nat /\ (a + 1) + b = (a + b) + 1 /\ a + 1 \in Nat
    OBVIOUS
  <2>2. /\ Pow(x, a) \in Element /\ Pow(x, b) \in Element
        /\ Pow(x, a + 1) = mul(x, Pow(x, a)) /\ Pow(x, (a + b) + 1) = mul(x, Pow(x, a + b))
    BY <2>1, PowNext
  <2>3. mul(mul(x, Pow(x, a)), Pow(x, b)) = mul(x, mul(Pow(x, a), Pow(x, b)))
    BY <2>2, FieldLaws
  <2> QED BY <1>2, <2>1, <2>2, <2>3
<1> HIDE DEF T
<1>3. Nat \subseteq T
  BY <1>1, <1>2, InductionOfNat
<1> QED BY <1>3 DEF T

\* The exponents of a power of a power multiply.
LEMMA PowOfPow ==
  ASSUME NEW x \in Element, NEW a \in Nat
  PROVE  \A b \in Nat : Pow(Pow(x, a), b) = Pow(x, a * b)
<1> DEFINE T == {b \in Nat : Pow(Pow(x, a), b) = Pow(x, a * b)}
<1>1. Pow(x, a) \in Element
  BY PowNext
<1>2. 0 \in T
  <2>1. a * 0 = 0
    OBVIOUS
  <2> QED BY <1>1, <2>1, PowNext
<1>3. ASSUME NEW b \in Nat, b \in T PROVE b + 1 \in T
  <2>1. a * b \in Nat /\ a * (b + 1) = a + a * b /\ b + 1 \in Nat
    <3>1. a * b \in Nat /\ a * (b + 1) = a * b + a
      OBVIOUS
    <3> QED BY <3>1
  <2>2. Pow(Pow(x, a), b + 1) = mul(Pow(x, a), Pow(Pow(x, a), b))
    BY <1>1, PowNext
  <2>3. Pow(x, a + a * b) = mul(Pow(x, a), Pow(x, a * b))
    BY <2>1, PowAdds
  <2> QED BY <1>3, <2>1, <2>2, <2>3
<1> HIDE DEF T
<1>4. Nat \subseteq T
  BY <1>2, <1>3, InductionOfNat
<1> QED BY <1>4 DEF T

\* One to any power is one.
LEMMA PowOfOne ==
  \A e \in Nat : Pow(1, e) = 1
<1> DEFINE T == {e \in Nat : Pow(1, e) = 1}
<1>1. 1 \in Element /\ mul(1, 1) = 1
  BY FieldLaws
<1>2. 0 \in T
  BY <1>1, PowNext
<1>3. ASSUME NEW e \in Nat, e \in T PROVE e + 1 \in T
  BY <1>1, <1>3, PowNext
<1> HIDE DEF T
<1>4. Nat \subseteq T
  BY <1>2, <1>3, InductionOfNat
<1> QED BY <1>4 DEF T

-----------------------------------------------------------------------------
\* Products.

\* A factor that is not zero can be cancelled, and does not make a product zero.
LEMMA MulCancels ==
  ASSUME NEW x \in Element, x # 0
  PROVE  /\ \A y, z \in Element : mul(x, y) = mul(x, z) => y = z
         /\ \A y \in Element : y # 0 => mul(x, y) # 0
<1>1. inv(x) \in Element /\ mul(x, inv(x)) = 1
  BY InverseExists
<1>2. ASSUME NEW y \in Element PROVE mul(inv(x), mul(x, y)) = y
  <2>1. mul(inv(x), mul(x, y)) = mul(mul(inv(x), x), y)
    BY <1>1, FieldLaws
  <2>2. mul(inv(x), x) = 1 /\ mul(1, y) = y
    BY <1>1, FieldLaws
  <2> QED BY <2>1, <2>2
<1>3. \A y, z \in Element : mul(x, y) = mul(x, z) => y = z
  BY <1>2
<1>4. mul(x, 0) = 0 /\ 0 \in Element
  BY FieldLaws
<1> QED BY <1>3, <1>4

\* The products of the first elements of u.
Products(c, u, n) ==
  /\ c \in [0 .. n -> Element]
  /\ c[0] = 1
  /\ \A k \in 0 .. n - 1 : c[k + 1] = mul(c[k], u[k + 1])

\* The product of the first n elements of u.
ProductUpTo(u, n) == (CHOOSE c : Products(c, u, n))[n]

\* The product is one at first and takes one factor at a time.
LEMMA ProductNext ==
  ASSUME NEW n \in Nat, NEW u, \A k \in 1 .. n : u[k] \in Element
  PROVE  /\ ProductUpTo(u, 0) = 1
         /\ \A k \in 0 .. n : ProductUpTo(u, k) \in Element
         /\ \A k \in 0 .. n - 1 : ProductUpTo(u, k + 1) = mul(ProductUpTo(u, k), u[k + 1])
<1> DEFINE G == [i \in Nat |-> [v \in Element |-> IF i < n THEN mul(v, u[i + 1]) ELSE 0]]
<1>1. G \in Steps(Element) /\ 1 \in Element
  <2>1. ASSUME NEW i \in Nat, NEW v \in Element
        PROVE  (IF i < n THEN mul(v, u[i + 1]) ELSE 0) \in Element
    BY FieldClosed
  <2> QED BY <2>1, FieldClosed DEF Steps
<1>2. PICK c \in [0 .. n -> Element] : Loops(c, n, 1, G)
  <2> HIDE DEF G
  <2> QED BY <1>1, LoopExists
<1>3. ASSUME NEW k \in 0 .. n - 1 PROVE c[k + 1] = mul(c[k], u[k + 1])
  <2>1. c[k] \in Element /\ k \in Nat /\ k < n
    OBVIOUS
  <2> QED BY <1>2, <2>1 DEF Loops
<1> HIDE DEF G
<1>4. c[0] = 1
  BY <1>2 DEF Loops
<1>5. ASSUME NEW k \in 0 .. n PROVE ProductUpTo(u, k) = c[k]
  <2> DEFINE d == [i \in 0 .. k |-> c[i]]
  <2>1. d \in [0 .. k -> Element] /\ d[0] = 1 /\ d[k] = c[k]
    BY <1>4
  <2>2. ASSUME NEW i \in 0 .. k - 1 PROVE d[i + 1] = mul(d[i], u[i + 1])
    BY <1>3
  <2> HIDE DEF d
  <2>3. Products(d, u, k)
    BY <2>1, <2>2 DEF Products
  <2> DEFINE e == CHOOSE p : Products(p, u, k)
  <2>4. Products(e, u, k)
    BY <2>3
  <2> HIDE DEF e
  <2>5. e[0] = d[0] /\ \A i \in 0 .. k - 1 : e[i] = d[i] => e[i + 1] = d[i + 1]
    BY <2>3, <2>4 DEF Products
  <2>6. \A i \in 0 .. k : e[i] = d[i]
    BY <2>5, LoopsAgree
  <2>7. e[k] = d[k]
    BY <2>6
  <2> QED BY <2>1, <2>7 DEF ProductUpTo, e
<1>6. ASSUME NEW k \in 0 .. n - 1 PROVE ProductUpTo(u, k + 1) = mul(ProductUpTo(u, k), u[k + 1])
  BY <1>3, <1>5
<1> QED BY <1>4, <1>5, <1>6

\* Products of the same factors are equal.
LEMMA ProductCongruent ==
  ASSUME NEW n \in Nat, NEW u, NEW v, \A k \in 1 .. n : u[k] \in Element /\ v[k] = u[k]
  PROVE  ProductUpTo(u, n) = ProductUpTo(v, n)
<1>1. /\ ProductUpTo(u, 0) = 1 /\ ProductUpTo(v, 0) = 1
      /\ \A k \in 0 .. n - 1 : /\ ProductUpTo(u, k + 1) = mul(ProductUpTo(u, k), u[k + 1])
                             /\ ProductUpTo(v, k + 1) = mul(ProductUpTo(v, k), v[k + 1])
  BY ProductNext
<1> DEFINE T == {k \in Nat : k <= n => ProductUpTo(u, k) = ProductUpTo(v, k)}
<1>2. 0 \in T
  BY <1>1
<1>3. ASSUME NEW k \in Nat, k \in T PROVE k + 1 \in T
  BY <1>1, <1>3
<1> HIDE DEF T
<1>4. Nat \subseteq T
  BY <1>2, <1>3, InductionOfNat
<1> QED BY <1>4 DEF T

\* A product does not become zero.
LEMMA ProductNotZero ==
  ASSUME NEW n \in Nat, NEW u, \A k \in 1 .. n : u[k] \in Element /\ u[k] # 0
  PROVE  ProductUpTo(u, n) \in Element /\ ProductUpTo(u, n) # 0
<1>1. /\ ProductUpTo(u, 0) = 1
      /\ \A k \in 0 .. n : ProductUpTo(u, k) \in Element
      /\ \A k \in 0 .. n - 1 : ProductUpTo(u, k + 1) = mul(ProductUpTo(u, k), u[k + 1])
  BY ProductNext
<1> DEFINE T == {k \in Nat : k <= n => ProductUpTo(u, k) # 0}
<1>2. 0 \in T
  BY <1>1
<1>3. ASSUME NEW k \in Nat, k \in T PROVE k + 1 \in T
  <2>1. CASE k + 1 <= n
    <3>1. k \in 0 .. n - 1 /\ k \in 0 .. n /\ k + 1 \in 1 .. n
      BY <2>1
    <3>2. ProductUpTo(u, k) # 0 /\ ProductUpTo(u, k) \in Element
      BY <1>1, <1>3, <3>1
    <3>3. ProductUpTo(u, k + 1) = mul(ProductUpTo(u, k), u[k + 1]) /\ u[k + 1] \in Element /\ u[k + 1] # 0
      BY <1>1, <3>1
    <3>4. mul(ProductUpTo(u, k), u[k + 1]) # 0
      BY <3>2, <3>3, MulCancels
    <3> QED BY <3>3, <3>4
  <2> QED BY <2>1
<1> HIDE DEF T
<1>4. Nat \subseteq T
  BY <1>2, <1>3, InductionOfNat
<1> QED BY <1>1, <1>4 DEF T

\* One factor replaced by another.
LEMMA ProductReplaced ==
  ASSUME NEW n \in Nat, NEW u, NEW v, NEW j \in 1 .. n,
         \A k \in 1 .. n : u[k] \in Element /\ v[k] \in Element /\ (k # j => v[k] = u[k])
  PROVE  mul(ProductUpTo(u, n), v[j]) = mul(ProductUpTo(v, n), u[j])
<1>1. /\ ProductUpTo(u, 0) = 1 /\ ProductUpTo(v, 0) = 1
      /\ \A k \in 0 .. n : ProductUpTo(u, k) \in Element /\ ProductUpTo(v, k) \in Element
      /\ \A k \in 0 .. n - 1 : /\ ProductUpTo(u, k + 1) = mul(ProductUpTo(u, k), u[k + 1])
                             /\ ProductUpTo(v, k + 1) = mul(ProductUpTo(v, k), v[k + 1])
  BY ProductNext
<1> DEFINE T == {k \in Nat : k <= n =>
                   IF k < j THEN ProductUpTo(u, k) = ProductUpTo(v, k)
                   ELSE mul(ProductUpTo(u, k), v[j]) = mul(ProductUpTo(v, k), u[j])}
<1>2. 0 \in T
  BY <1>1
<1>3. ASSUME NEW k \in Nat, k \in T PROVE k + 1 \in T
  <2>1. ASSUME k + 1 <= n
        PROVE  IF k + 1 < j THEN ProductUpTo(u, k + 1) = ProductUpTo(v, k + 1)
               ELSE mul(ProductUpTo(u, k + 1), v[j]) = mul(ProductUpTo(v, k + 1), u[j])
    <3> DEFINE p == ProductUpTo(u, k)
    <3> DEFINE q == ProductUpTo(v, k)
    <3>1. k \in 0 .. n - 1 /\ k \in 0 .. n /\ k + 1 \in 1 .. n
      BY <2>1
    <3>2. /\ p \in Element /\ q \in Element
          /\ ProductUpTo(u, k + 1) = mul(p, u[k + 1]) /\ ProductUpTo(v, k + 1) = mul(q, v[k + 1])
      BY <1>1, <3>1
    <3>3. u[k + 1] \in Element /\ v[k + 1] \in Element /\ u[j] \in Element /\ v[j] \in Element
      BY <3>1
    <3>4. \A a, b, c \in Element : mul(mul(a, b), c) = mul(mul(a, c), b)
      <4>1. ASSUME NEW a \in Element, NEW b \in Element, NEW c \in Element
            PROVE  mul(mul(a, b), c) = mul(mul(a, c), b)
        <5>1. mul(mul(a, b), c) = mul(a, mul(b, c)) /\ mul(mul(a, c), b) = mul(a, mul(c, b)) /\ mul(b, c) = mul(c, b)
          BY FieldLaws
        <5> QED BY <5>1
      <4> QED BY <4>1
    <3> HIDE DEF p, q
    <3>5. CASE k + 1 < j
      <4>1. u[k + 1] = v[k + 1] /\ k < j /\ k <= n
        BY <3>1, <3>5
      <4>2. p = q
        BY <1>3, <4>1 DEF p, q
      <4> QED BY <3>2, <3>5, <4>1, <4>2
    <3>6. CASE k + 1 = j
      <4>1. k < j /\ k <= n
        BY <3>1, <3>6
      <4>2. p = q
        BY <1>3, <4>1 DEF p, q
      <4>3. mul(mul(p, u[j]), v[j]) = mul(mul(p, v[j]), u[j])
        BY <3>2, <3>3, <3>4
      <4> QED BY <3>2, <3>6, <4>2, <4>3
    <3>7. CASE k + 1 > j
      <4>1. ~(k < j) /\ k <= n /\ k + 1 # j /\ ~(k + 1 < j)
        BY <3>1, <3>7
      <4>2. mul(p, v[j]) = mul(q, u[j])
        BY <1>3, <4>1 DEF p, q
      <4>3. v[k + 1] = u[k + 1]
        BY <3>1, <4>1
      <4> DEFINE a == u[k + 1]
      <4>4. mul(mul(p, a), v[j]) = mul(mul(p, v[j]), a) /\ mul(mul(q, a), u[j]) = mul(mul(q, u[j]), a)
        BY <3>2, <3>3, <3>4
      <4> QED BY <3>2, <4>1, <4>2, <4>3, <4>4
    <3> QED BY <3>5, <3>6, <3>7
  <2> QED BY <2>1
<1> HIDE DEF T
<1>4. Nat \subseteq T
  BY <1>2, <1>3, InductionOfNat
<1>5. ~(n < j)
  OBVIOUS
<1> QED BY <1>4, <1>5 DEF T

\* A list of n different numbers from 1 to n has each of them, and their product is
\* that of 1 to n.
Rearranges(h, n) ==
  /\ h \in [1 .. n -> 1 .. n]
  /\ \A i, j \in 1 .. n : h[i] = h[j] => i = j

\* The numbers in order.
Numbers == [k \in Nat |-> k]

\* A list of n different numbers from 1 to n has each of them, and the same product as
\* the numbers in order.
LEMMA ProductOfRearranged ==
  \A n \in Nat : n < Order =>
    \A h : Rearranges(h, n) =>
      /\ \A y \in 1 .. n : \E i \in 1 .. n : h[i] = y
      /\ ProductUpTo(h, n) = ProductUpTo(Numbers, n)
<1> DEFINE Good(n) == \A h : Rearranges(h, n) =>
                        /\ \A y \in 1 .. n : \E i \in 1 .. n : h[i] = y
                        /\ ProductUpTo(h, n) = ProductUpTo(Numbers, n)
<1> DEFINE T == {n \in Nat : n < Order => Good(n)}
<1>1. 0 \in T
  <2>1. ASSUME NEW h PROVE ProductUpTo(h, 0) = ProductUpTo(Numbers, 0)
    BY ProductNext
  <2> QED BY <2>1
<1>2. ASSUME NEW n \in Nat, n \in T PROVE n + 1 \in T
  <2>1. ASSUME n + 1 < Order, NEW h, Rearranges(h, n + 1)
        PROVE  /\ \A y \in 1 .. n + 1 : \E i \in 1 .. n + 1 : h[i] = y
               /\ ProductUpTo(h, n + 1) = ProductUpTo(Numbers, n + 1)
    <3>1. Order \in Nat /\ n < Order
      BY <2>1, OrderIsOdd
    <3>2. Good(n)
      BY <1>2, <3>1
    <3>3. /\ h \in [1 .. n + 1 -> 1 .. n + 1]
          /\ \A i, j \in 1 .. n + 1 : h[i] = h[j] => i = j
      BY <2>1 DEF Rearranges
    <3> HIDE DEF Good
    <3>4. \E j \in 1 .. n + 1 : h[j] = n + 1
      <4>1. SUFFICES ASSUME \A j \in 1 .. n + 1 : h[j] # n + 1 PROVE FALSE
        OBVIOUS
      <4> DEFINE g == [i \in 1 .. n |-> h[i]]
      <4>2. \A i \in 1 .. n + 1 : h[i] \in 1 .. n
        BY <3>3, <4>1
      <4>3. Rearranges(g, n)
        BY <3>3, <4>2, SMTT(40) DEF Rearranges
      <4>4. \A i \in 1 .. n : g[i] = h[i]
        OBVIOUS
      <4> HIDE DEF g
      <4>5. PICK i \in 1 .. n : g[i] = h[n + 1]
        <5>1. h[n + 1] \in 1 .. n
          BY <4>2
        <5> QED BY <3>2, <4>3, <5>1 DEF Good
      <4>6. i \in 1 .. n + 1 /\ n + 1 \in 1 .. n + 1 /\ i # n + 1 /\ h[i] = h[n + 1]
        BY <4>4, <4>5
      <4> QED BY <3>3, <4>6
    <3>5. PICK j \in 1 .. n + 1 : h[j] = n + 1
      BY <3>4
    <3> DEFINE g == [i \in 1 .. n |-> IF i = j THEN h[n + 1] ELSE h[i]]
    <3>6. Rearranges(g, n)
      <4>1. ASSUME NEW i \in 1 .. n PROVE g[i] \in 1 .. n
        <5>1. CASE i = j
          <6>1. j # n + 1 /\ n + 1 \in 1 .. n + 1 /\ g[i] = h[n + 1]
            BY <5>1
          <6>2. h[n + 1] # n + 1 /\ h[n + 1] \in 1 .. n + 1
            BY <3>3, <3>5, <6>1
          <6> QED BY <6>1, <6>2
        <5>2. CASE i # j
          <6>1. h[i] # n + 1 /\ h[i] \in 1 .. n + 1 /\ g[i] = h[i]
            BY <3>3, <3>5, <5>2
          <6> QED BY <6>1
        <5> QED BY <5>1, <5>2
      <4>2. ASSUME NEW i \in 1 .. n, NEW k \in 1 .. n, g[i] = g[k] PROVE i = k
        <5>1. i \in 1 .. n + 1 /\ k \in 1 .. n + 1 /\ n + 1 \in 1 .. n + 1 /\ i # n + 1 /\ k # n + 1
          OBVIOUS
        <5>2. /\ g[i] = IF i = j THEN h[n + 1] ELSE h[i]
              /\ g[k] = IF k = j THEN h[n + 1] ELSE h[k]
          OBVIOUS
        <5> HIDE DEF g
        <5> QED BY <3>3, <4>2, <5>1, <5>2
      <4>3. g \in [1 .. n -> 1 .. n]
        BY <4>1
      <4> HIDE DEF g
      <4> QED BY <4>2, <4>3 DEF Rearranges
    <3>7. \A i \in 1 .. n : g[i] = IF i = j THEN h[n + 1] ELSE h[i]
      OBVIOUS
    <3> HIDE DEF g
    <3>8. /\ \A y \in 1 .. n : \E i \in 1 .. n : g[i] = y
          /\ ProductUpTo(g, n) = ProductUpTo(Numbers, n)
      BY <3>2, <3>6 DEF Good
    <3>9. ASSUME NEW y \in 1 .. n + 1 PROVE \E i \in 1 .. n + 1 : h[i] = y
      <4>1. CASE y = n + 1
        BY <3>5, <4>1
      <4>2. CASE y # n + 1
        <5>1. PICK i \in 1 .. n : g[i] = y
          <6>1. y \in 1 .. n
            BY <4>2
          <6> QED BY <3>8, <6>1
        <5>2. i \in 1 .. n + 1 /\ n + 1 \in 1 .. n + 1 /\ (y = h[n + 1] \/ y = h[i])
          BY <3>7, <5>1
        <5> QED BY <5>2
      <4> QED BY <4>1, <4>2
    <3>10. \A i \in 1 .. n + 1 : i \in Element
      BY <2>1, <3>1 DEF Element
    <3>11. \A i \in 1 .. n + 1 : h[i] \in Element /\ Numbers[i] \in Element /\ Numbers[i] = i
      BY <3>3, <3>10 DEF Numbers
    <3>12. /\ ProductUpTo(h, n + 1) = mul(ProductUpTo(h, n), h[n + 1])
           /\ ProductUpTo(Numbers, n + 1) = mul(ProductUpTo(Numbers, n), n + 1)
      <4>1. n + 1 \in Nat /\ n \in 0 .. (n + 1) - 1 /\ n + 1 \in 1 .. n + 1
        OBVIOUS
      <4>2. /\ ProductUpTo(h, n + 1) = mul(ProductUpTo(h, n), h[n + 1])
            /\ ProductUpTo(Numbers, n + 1) = mul(ProductUpTo(Numbers, n), Numbers[n + 1])
        BY <3>11, <4>1, ProductNext
      <4> QED BY <3>11, <4>1, <4>2
    <3>13. mul(ProductUpTo(h, n), h[n + 1]) = mul(ProductUpTo(g, n), n + 1)
      <4>1. \A k \in 1 .. n : k \in 1 .. n + 1 /\ g[k] \in 1 .. n + 1
        BY <3>6 DEF Rearranges
      <4>2. CASE j = n + 1
        <5>1. \A k \in 1 .. n : h[k] \in Element /\ g[k] = h[k]
          BY <3>7, <3>11, <4>1, <4>2
        <5>2. ProductUpTo(h, n) = ProductUpTo(g, n)
          BY <5>1, ProductCongruent
        <5> QED BY <3>5, <4>2, <5>2
      <4>3. CASE j # n + 1
        <5>1. j \in 1 .. n /\ g[j] = h[n + 1] /\ h[j] = n + 1
          BY <3>5, <3>7, <4>3
        <5>2. \A k \in 1 .. n : h[k] \in Element /\ g[k] \in Element /\ (k # j => g[k] = h[k])
          BY <3>7, <3>10, <3>11, <4>1
        <5>3. mul(ProductUpTo(h, n), g[j]) = mul(ProductUpTo(g, n), h[j])
          BY <5>1, <5>2, ProductReplaced
        <5> QED BY <5>1, <5>3
      <4> QED BY <4>2, <4>3
    <3> QED BY <3>8, <3>9, <3>12, <3>13
  <2>2. n + 1 \in Nat
    OBVIOUS
  <2> QED BY <2>1, <2>2
<1> HIDE DEF T
<1>3. Nat \subseteq T
  BY <1>1, <1>2, InductionOfNat
<1> QED BY <1>3 DEF T

\* Fermat's little theorem: the multiples of x are the elements in another order.
LEMMA FermatHolds ==
  ASSUME NEW x \in Element, x # 0
  PROVE  Pow(x, Order - 1) = 1
<1> DEFINE n == Order - 1
<1> DEFINE h == [k \in 1 .. n |-> mul(x, k)]
<1>1. n \in Nat /\ n < Order /\ Element = 0 .. n
  BY OrderIsOdd DEF Element
<1>2. \A k \in 1 .. n : k \in Element /\ k # 0 /\ h[k] = mul(x, k)
  BY <1>1
<1> HIDE DEF h
<1>3. Rearranges(h, n)
  <2>1. ASSUME NEW k \in 1 .. n PROVE h[k] \in 1 .. n
    <3>1. mul(x, k) \in Element /\ mul(x, k) # 0
      BY <1>2, FieldClosed, MulCancels
    <3> QED BY <1>1, <1>2, <3>1
  <2>2. ASSUME NEW i \in 1 .. n, NEW j \in 1 .. n, h[i] = h[j] PROVE i = j
    BY <1>2, <2>2, MulCancels
  <2>3. h = [k \in 1 .. n |-> h[k]]
    BY DEF h
  <2>4. h \in [1 .. n -> 1 .. n]
    BY <2>1, <2>3
  <2> QED BY <2>2, <2>4 DEF Rearranges
<1>4. ProductUpTo(h, n) = ProductUpTo(Numbers, n)
  BY <1>1, <1>3, ProductOfRearranged
<1>5. \A k \in 1 .. n : h[k] \in Element /\ Numbers[k] \in Element /\ Numbers[k] # 0 /\ Numbers[k] = k
  <2>1. ASSUME NEW k \in 1 .. n
        PROVE  h[k] \in Element /\ Numbers[k] \in Element /\ Numbers[k] # 0 /\ Numbers[k] = k
    <3>1. k \in Nat /\ k \in Element /\ k # 0 /\ h[k] = mul(x, k)
      BY <1>1, <1>2
    <3>2. mul(x, k) \in Element /\ Numbers[k] = k
      BY <3>1, FieldClosed DEF Numbers
    <3> QED BY <3>1, <3>2
  <2> QED BY <2>1
<1>6. /\ ProductUpTo(h, 0) = 1 /\ ProductUpTo(Numbers, 0) = 1
      /\ \A k \in 0 .. n : ProductUpTo(Numbers, k) \in Element
      /\ \A k \in 0 .. n - 1 : /\ ProductUpTo(h, k + 1) = mul(ProductUpTo(h, k), h[k + 1])
                             /\ ProductUpTo(Numbers, k + 1) = mul(ProductUpTo(Numbers, k), Numbers[k + 1])
  <2> HIDE DEF n
  <2> QED BY <1>1, <1>5, ProductNext, ZenonT(40)
<1> DEFINE T == {k \in Nat : k <= n => ProductUpTo(h, k) = mul(Pow(x, k), ProductUpTo(Numbers, k))}
<1> HIDE DEF n
<1>7. 0 \in T
  <2>1. Pow(x, 0) = 1 /\ mul(1, 1) = 1
    BY PowNext, FieldLaws
  <2> QED BY <1>6, <2>1
<1>8. ASSUME NEW k \in Nat, k \in T PROVE k + 1 \in T
  <2>1. ASSUME k + 1 <= n
        PROVE  ProductUpTo(h, k + 1) = mul(Pow(x, k + 1), ProductUpTo(Numbers, k + 1))
    <3> DEFINE p == Pow(x, k)
    <3> DEFINE f == ProductUpTo(Numbers, k)
    <3>1. k \in 0 .. n - 1 /\ k \in 0 .. n /\ k <= n /\ k + 1 \in 1 .. n
      BY <1>1, <2>1
    <3>2. p \in Element /\ f \in Element /\ k + 1 \in Element /\ Pow(x, k + 1) = mul(x, p)
      BY <1>2, <1>6, <3>1, PowNext
    <3>3. /\ ProductUpTo(h, k + 1) = mul(mul(p, f), mul(x, k + 1))
          /\ ProductUpTo(Numbers, k + 1) = mul(f, k + 1)
      BY <1>2, <1>5, <1>6, <1>8, <3>1
    <3> HIDE DEF p, f
    <3> DEFINE i == k + 1
    <3>4. i \in Element
      BY <3>2
    <3> HIDE DEF i
    <3>5. mul(mul(p, f), mul(x, i)) = mul(mul(x, p), mul(f, i))
      <4>1. mul(p, f) \in Element /\ mul(f, i) \in Element /\ mul(x, p) \in Element
        BY <3>2, <3>4, FieldClosed
      <4>2. mul(mul(p, f), mul(x, i)) = mul(mul(mul(p, f), x), i)
        BY <3>4, <4>1, FieldLaws
      <4>3. mul(mul(p, f), x) = mul(mul(x, p), f)
        <5>1. mul(mul(p, f), x) = mul(x, mul(p, f))
          BY <4>1, FieldLaws
        <5>2. mul(mul(x, p), f) = mul(x, mul(p, f))
          BY <3>2, FieldLaws
        <5> QED BY <5>1, <5>2
      <4>4. mul(mul(mul(x, p), f), i) = mul(mul(x, p), mul(f, i))
        BY <3>2, <3>4, <4>1, FieldLaws
      <4> QED BY <4>2, <4>3, <4>4
    <3> QED BY <3>2, <3>3, <3>5 DEF i
  <2> QED BY <2>1
<1> HIDE DEF T
<1>9. n \in T
  <2>1. Nat \subseteq T
    BY <1>7, <1>8, InductionOfNat
  <2> QED BY <1>1, <2>1
<1> DEFINE f == ProductUpTo(Numbers, n)
<1>10. f \in Element /\ f # 0
  BY <1>1, <1>5, ProductNotZero
<1>11. f = mul(Pow(x, n), f)
  <2>1. n <= n => ProductUpTo(h, n) = mul(Pow(x, n), ProductUpTo(Numbers, n))
    BY <1>9 DEF T
  <2> QED BY <1>1, <1>4, <2>1
<1> HIDE DEF f
<1>12. Pow(x, n) = 1
  <2>1. Pow(x, n) \in Element /\ 1 \in Element
    BY <1>1, PowNext, FieldClosed
  <2>2. mul(f, Pow(x, n)) = mul(Pow(x, n), f) /\ mul(f, 1) = mul(1, f) /\ mul(1, f) = f
    BY <1>10, <2>1, FieldLaws
  <2> QED BY <1>10, <1>11, <2>1, <2>2, MulCancels
<1> QED BY <1>12 DEF n

\* The exponents of even and odd rounds undo each other.
LEMMA PowersInvert ==
  ASSUME NEW x \in Element
  PROVE  Pow(Pow(x, alpha), alphaInverse) = x /\ Pow(Pow(x, alphaInverse), alpha) = x
<1> DEFINE a == alpha
<1> DEFINE b == alphaInverse
<1> DEFINE n == Order - 1
<1>1. a \in Nat \ {0} /\ b \in Nat \ {0} /\ (a * b) % n = 1 /\ n \in Nat /\ n > 1
  BY AlphaExists, OrderIsOdd
<1> HIDE DEF a, b
<1>2. a * b \in Nat /\ b * a = a * b /\ a * b # 0
  <2>1. \A i, j \in Nat \ {0} : i * j \in Nat /\ j * i = i * j /\ i * j # 0
    OBVIOUS
  <2> QED BY <1>1, <2>1
<1> DEFINE c == a * b
<1> HIDE DEF n, c
<1>3. Pow(Pow(x, a), b) = Pow(x, c) /\ Pow(Pow(x, b), a) = Pow(x, c) /\ c \in Nat /\ c # 0 /\ c % n = 1
  BY <1>1, <1>2, PowOfPow DEF c
<1>4. CASE x = 0
  <2>1. c - 1 \in Nat /\ (c - 1) + 1 = c
    BY <1>3
  <2>2. Pow(0, c) = mul(0, Pow(0, c - 1)) /\ Pow(0, c - 1) \in Element
    BY <1>4, <2>1, PowNext
  <2>3. mul(0, Pow(0, c - 1)) = 0
    BY <2>2, FieldLaws
  <2> QED BY <1>3, <1>4, <2>2, <2>3 DEF a, b
<1>5. CASE x # 0
  <2>1. PICK q \in Nat : c = n * q + 1
    <3>1. c \div n \in Nat /\ c = n * (c \div n) + (c % n)
      BY <1>1, <1>3
    <3> QED BY <1>3, <3>1
  <2>2. Pow(x, n) = 1
    BY <1>5, FermatHolds DEF n
  <2>3. n * q \in Nat /\ 1 \in Nat
    <3>1. \A i, j \in Nat : i * j \in Nat
      OBVIOUS
    <3> QED BY <1>1, <3>1
  <2>4. Pow(x, n * q) = Pow(Pow(x, n), q)
    BY <1>1, PowOfPow
  <2>5. Pow(x, n * q) = 1
    BY <2>2, <2>4, PowOfOne
  <2>6. Pow(x, n * q + 1) = mul(x, Pow(x, n * q))
    BY <2>3, PowNext
  <2>7. mul(x, 1) = mul(1, x) /\ mul(1, x) = x /\ 1 \in Element
    BY FieldLaws, FieldClosed
  <2> QED BY <1>3, <2>1, <2>5, <2>6, <2>7 DEF a, b
<1> QED BY <1>4, <1>5

-----------------------------------------------------------------------------
\* Products and quotients in the field.

\* The factors of a product may change places.
LEMMA FactorsMove ==
  /\ \A a, b, c \in Element : mul(mul(a, b), c) = mul(mul(a, c), b) /\ mul(a, mul(b, c)) = mul(b, mul(a, c))
  /\ \A a, b, c, d \in Element : mul(mul(a, b), mul(c, d)) = mul(mul(a, c), mul(b, d))
<1>1. ASSUME NEW a \in Element, NEW b \in Element, NEW c \in Element
      PROVE  mul(mul(a, b), c) = mul(mul(a, c), b) /\ mul(a, mul(b, c)) = mul(b, mul(a, c))
  <2>1. mul(mul(a, b), c) = mul(a, mul(b, c)) /\ mul(mul(a, c), b) = mul(a, mul(c, b)) /\ mul(b, c) = mul(c, b)
    BY FieldLaws
  <2>2. mul(mul(a, b), c) = mul(a, mul(b, c)) /\ mul(mul(b, a), c) = mul(b, mul(a, c)) /\ mul(a, b) = mul(b, a)
    BY FieldLaws
  <2> QED BY <2>1, <2>2
<1>2. ASSUME NEW a \in Element, NEW b \in Element, NEW c \in Element, NEW d \in Element
      PROVE  mul(mul(a, b), mul(c, d)) = mul(mul(a, c), mul(b, d))
  <2>1. mul(a, b) \in Element /\ mul(a, c) \in Element
    BY FieldClosed
  <2>2. mul(mul(a, b), mul(c, d)) = mul(mul(mul(a, b), c), d)
    BY <2>1, FieldLaws
  <2>3. mul(mul(a, c), mul(b, d)) = mul(mul(mul(a, c), b), d)
    BY <2>1, FieldLaws
  <2> QED BY <1>1, <2>2, <2>3
<1> QED BY <1>1, <1>2

\* There is only one inverse.
LEMMA InverseIs ==
  ASSUME NEW x \in Element, NEW y \in Element, mul(x, y) = 1
  PROVE  x # 0 /\ inv(x) = y
<1>1. x # 0
  <2>1. mul(0, y) = 0
    BY FieldLaws
  <2> QED BY <2>1
<1>2. inv(x) \in Element /\ mul(x, inv(x)) = mul(x, y)
  BY <1>1, InverseExists
<1> QED BY <1>1, <1>2, MulCancels

\* The inverse of a product.
LEMMA InverseOfProduct ==
  ASSUME NEW x \in Element \ {0}, NEW y \in Element \ {0}
  PROVE  /\ mul(x, y) \in Element \ {0} /\ inv(mul(x, y)) = mul(inv(x), inv(y))
         /\ mul(x, inv(mul(x, y))) = inv(y)
<1>1. /\ inv(x) \in Element /\ inv(y) \in Element /\ mul(x, inv(x)) = 1 /\ mul(y, inv(y)) = 1
      /\ mul(x, y) \in Element /\ mul(inv(x), inv(y)) \in Element
  <2>1. inv(x) \in Element /\ inv(y) \in Element /\ mul(x, inv(x)) = 1 /\ mul(y, inv(y)) = 1
    BY InverseExists
  <2> QED BY <2>1, FieldClosed
<1>2. 1 \in Element /\ mul(1, 1) = 1 /\ mul(1, inv(y)) = inv(y)
  BY <1>1, FieldLaws
<1>3. mul(mul(x, y), mul(inv(x), inv(y))) = 1
  <2>1. mul(mul(x, y), mul(inv(x), inv(y))) = mul(mul(x, inv(x)), mul(y, inv(y)))
    BY <1>1, FactorsMove
  <2> QED BY <1>1, <1>2, <2>1
<1>4. mul(x, y) # 0 /\ inv(mul(x, y)) = mul(inv(x), inv(y))
  BY <1>1, <1>3, InverseIs
<1>5. mul(x, mul(inv(x), inv(y))) = mul(mul(x, inv(x)), inv(y))
  BY <1>1, FieldLaws
<1> QED BY <1>1, <1>2, <1>4, <1>5

\* The product of products.
LEMMA ProductOfProducts ==
  ASSUME NEW n \in Nat, NEW u, NEW v, NEW w,
         \A k \in 1 .. n : u[k] \in Element /\ v[k] \in Element /\ w[k] = mul(u[k], v[k])
  PROVE  ProductUpTo(w, n) = mul(ProductUpTo(u, n), ProductUpTo(v, n))
<1>1. \A k \in 1 .. n : u[k] \in Element /\ v[k] \in Element /\ w[k] \in Element /\ w[k] = mul(u[k], v[k])
  BY FieldClosed
<1>2. /\ ProductUpTo(u, 0) = 1 /\ ProductUpTo(v, 0) = 1 /\ ProductUpTo(w, 0) = 1
      /\ \A k \in 0 .. n : ProductUpTo(u, k) \in Element /\ ProductUpTo(v, k) \in Element
      /\ \A k \in 0 .. n - 1 : /\ ProductUpTo(u, k + 1) = mul(ProductUpTo(u, k), u[k + 1])
                             /\ ProductUpTo(v, k + 1) = mul(ProductUpTo(v, k), v[k + 1])
                             /\ ProductUpTo(w, k + 1) = mul(ProductUpTo(w, k), w[k + 1])
  BY <1>1, ProductNext
<1> DEFINE T == {k \in Nat : k <= n => ProductUpTo(w, k) = mul(ProductUpTo(u, k), ProductUpTo(v, k))}
<1>3. 0 \in T
  <2>1. mul(1, 1) = 1
    BY FieldLaws
  <2> QED BY <1>2, <2>1
<1>4. ASSUME NEW k \in Nat, k \in T PROVE k + 1 \in T
  <2>1. ASSUME k + 1 <= n
        PROVE  ProductUpTo(w, k + 1) = mul(ProductUpTo(u, k + 1), ProductUpTo(v, k + 1))
    <3> DEFINE a == ProductUpTo(u, k)
    <3> DEFINE b == ProductUpTo(v, k)
    <3>1. k \in 0 .. n - 1 /\ k \in 0 .. n /\ k + 1 \in 1 .. n /\ k <= n
      BY <2>1
    <3>2. /\ a \in Element /\ b \in Element
          /\ ProductUpTo(u, k + 1) = mul(a, u[k + 1]) /\ ProductUpTo(v, k + 1) = mul(b, v[k + 1])
          /\ ProductUpTo(w, k + 1) = mul(mul(a, b), mul(u[k + 1], v[k + 1]))
          /\ u[k + 1] \in Element /\ v[k + 1] \in Element
      BY <1>1, <1>2, <1>4, <3>1
    <3> HIDE DEF a, b
    <3> QED BY <3>2, FactorsMove
  <2> QED BY <2>1
<1> HIDE DEF T
<1>5. Nat \subseteq T
  BY <1>3, <1>4, InductionOfNat
<1> QED BY <1>5 DEF T

\* The sum of zeros and one element.
LEMMA SumOfOne ==
  ASSUME NEW n \in Nat, NEW u, NEW j \in 1 .. n, u[j] \in Element, \A k \in 1 .. n : k # j => u[k] = 0
  PROVE  SumUpTo(u, n) = u[j]
<1>1. \A k \in 1 .. n : u[k] \in Element
  BY FieldClosed
<1>2. /\ SumUpTo(u, 0) = 0
      /\ \A k \in 0 .. n - 1 : SumUpTo(u, k + 1) = add(SumUpTo(u, k), u[k + 1])
  BY <1>1, SumNext
<1> DEFINE T == {k \in Nat : k <= n => SumUpTo(u, k) = IF k < j THEN 0 ELSE u[j]}
<1>3. 0 \in T
  BY <1>2
<1>4. ASSUME NEW k \in Nat, k \in T PROVE k + 1 \in T
  <2>1. add(0, 0) = 0 /\ add(0, u[j]) = u[j] /\ add(u[j], 0) = u[j]
    BY FieldLaws
  <2>2. ASSUME k + 1 <= n PROVE SumUpTo(u, k + 1) = IF k + 1 < j THEN 0 ELSE u[j]
    <3>1. k \in 0 .. n - 1 /\ k <= n /\ k + 1 \in 1 .. n
      BY <2>2
    <3>2. SumUpTo(u, k + 1) = add(IF k < j THEN 0 ELSE u[j], u[k + 1])
      BY <1>2, <1>4, <3>1
    <3>3. CASE k + 1 = j
      BY <2>1, <3>2, <3>3
    <3>4. CASE k + 1 # j
      <4>1. u[k + 1] = 0
        BY <3>1, <3>4
      <4> QED BY <2>1, <3>2, <3>4, <4>1
    <3> QED BY <3>3, <3>4
  <2> QED BY <2>2
<1> HIDE DEF T
<1>5. Nat \subseteq T
  BY <1>3, <1>4, InductionOfNat
<1>6. ~(n < j)
  OBVIOUS
<1> QED BY <1>5, <1>6 DEF T

-----------------------------------------------------------------------------
\* Divided differences, over the nodes x[j] with j in K.

\* No two of the nodes are the same.
Distinct(x, n) ==
  /\ x \in [1 .. n -> Element]
  /\ \A j, k \in 1 .. n : j # k => sub(x[j], x[k]) # 0

\* The distances of node j to the others.
Gaps(x, K, j, n) == [k \in 1 .. n |-> IF k = j \/ k \notin K THEN 1 ELSE sub(x[j], x[k])]

\* What node j is divided by.
Share(x, K, j, n) == inv(ProductUpTo(Gaps(x, K, j, n), n))

\* The parts of the nodes in the divided difference of f.
Shares(x, K, f, n) == [j \in 1 .. n |-> IF j \in K THEN mul(f[j], Share(x, K, j, n)) ELSE 0]

\* The divided difference of f over the nodes in K.
Difference(x, K, f, n) == SumUpTo(Shares(x, K, f, n), n)

\* The share of a node without another node.
LEMMA ShareWithout ==
  ASSUME NEW n \in Nat, NEW x, Distinct(x, n), NEW K \in SUBSET (1 .. n), NEW j \in K
  PROVE  /\ Share(x, K, j, n) \in Element
         /\ \A b \in K : b # j =>
              mul(sub(x[j], x[b]), Share(x, K, j, n)) = Share(x, K \ {b}, j, n)
<1>1. ASSUME NEW L \in SUBSET (1 .. n)
      PROVE  /\ \A k \in 1 .. n : Gaps(x, L, j, n)[k] \in Element /\ Gaps(x, L, j, n)[k] # 0
             /\ ProductUpTo(Gaps(x, L, j, n), n) \in Element \ {0}
  <2>1. ASSUME NEW k \in 1 .. n PROVE Gaps(x, L, j, n)[k] \in Element /\ Gaps(x, L, j, n)[k] # 0
    <3>1. j \in 1 .. n /\ x[j] \in Element /\ x[k] \in Element /\ (j # k => sub(x[j], x[k]) # 0)
      BY DEF Distinct
    <3>2. sub(x[j], x[k]) \in Element /\ 1 \in Element /\ 1 # 0
      BY <3>1, FieldClosed
    <3> QED BY <3>1, <3>2 DEF Gaps
  <2>2. ProductUpTo(Gaps(x, L, j, n), n) \in Element /\ ProductUpTo(Gaps(x, L, j, n), n) # 0
    BY <2>1, ProductNotZero
  <2> QED BY <2>1, <2>2
<1>2. Share(x, K, j, n) \in Element
  BY <1>1, InverseExists DEF Share
<1>3. ASSUME NEW b \in K, b # j
      PROVE  mul(sub(x[j], x[b]), Share(x, K, j, n)) = Share(x, K \ {b}, j, n)
  <2> DEFINE u == Gaps(x, K, j, n)
  <2> DEFINE v == Gaps(x, K \ {b}, j, n)
  <2> DEFINE d == sub(x[j], x[b])
  <2>1. b \in 1 .. n /\ j \in 1 .. n /\ u[b] = d /\ v[b] = 1 /\ \A k \in 1 .. n : k # b => v[k] = u[k]
    BY <1>3 DEF Gaps
  <2>2. \A k \in 1 .. n : u[k] \in Element /\ v[k] \in Element
    BY <1>1
  <2>3. d \in Element \ {0}
    BY <1>1, <2>1
  <2>4. ProductUpTo(u, n) \in Element \ {0} /\ ProductUpTo(v, n) \in Element \ {0}
    BY <1>1
  <2> HIDE DEF u, v, d
  <2>5. mul(ProductUpTo(u, n), 1) = mul(ProductUpTo(v, n), d)
    BY <2>1, <2>2, ProductReplaced
  <2> DEFINE p == ProductUpTo(u, n)
  <2> DEFINE q == ProductUpTo(v, n)
  <2>6. p \in Element \ {0} /\ q \in Element \ {0} /\ mul(p, 1) = mul(q, d)
    BY <2>4, <2>5
  <2> HIDE DEF p, q
  <2>7. p = mul(d, q)
    BY <2>3, <2>6, FieldLaws
  <2>8. mul(d, inv(mul(d, q))) = inv(q)
    BY <2>3, <2>6, InverseOfProduct
  <2> QED BY <2>7, <2>8 DEF Share, p, q, u, v, d
<1> QED BY <1>2, <1>3

\* The shares of elements are elements.
LEMMA SharesAreElements ==
  ASSUME NEW n \in Nat, NEW x, Distinct(x, n), NEW K \in SUBSET (1 .. n), NEW f \in [1 .. n -> Element]
  PROVE  /\ \A j \in 1 .. n : Shares(x, K, f, n)[j] \in Element
         /\ Difference(x, K, f, n) \in Element
<1>1. ASSUME NEW j \in 1 .. n PROVE Shares(x, K, f, n)[j] \in Element
  <2>1. j \in K => Share(x, K, j, n) \in Element
    BY ShareWithout
  <2>2. f[j] \in Element /\ 0 \in Element
    BY FieldClosed
  <2> QED BY <2>1, <2>2, FieldClosed DEF Shares
<1>2. SumUpTo(Shares(x, K, f, n), n) \in Element
  BY <1>1, SumSteps
<1> QED BY <1>1, <1>2 DEF Difference

\* The difference of a function times the distance to a node is that without the node.
LEMMA DifferenceWithout ==
  ASSUME NEW n \in Nat, NEW x, Distinct(x, n), NEW K \in SUBSET (1 .. n), NEW b \in K,
         NEW f \in [1 .. n -> Element], NEW g \in [1 .. n -> Element],
         \A j \in K : g[j] = mul(sub(x[j], x[b]), f[j])
  PROVE  Difference(x, K, g, n) = Difference(x, K \ {b}, f, n)
<1>1. ASSUME NEW j \in 1 .. n PROVE Shares(x, K, g, n)[j] = Shares(x, K \ {b}, f, n)[j]
  <2>1. CASE j \notin K
    BY <2>1 DEF Shares
  <2>2. CASE j = b
    <3>1. x[b] \in Element /\ f[b] \in Element /\ Share(x, K, b, n) \in Element
      BY ShareWithout DEF Distinct
    <3>2. sub(x[b], x[b]) = 0
      <4>1. x[b] \in Int
        BY <3>1, OrderIsOdd DEF Element
      <4>2. x[b] - x[b] = 0 /\ 0 % Order = 0
        BY <4>1, OrderIsOdd
      <4> QED BY <4>2 DEF sub
    <3>3. mul(0, f[b]) = 0 /\ mul(0, Share(x, K, b, n)) = 0
      BY <3>1, FieldLaws
    <3> QED BY <2>2, <3>2, <3>3 DEF Shares
  <2>3. CASE j \in K /\ j # b
    <3> DEFINE d == sub(x[j], x[b])
    <3> DEFINE s == Share(x, K, j, n)
    <3>1. s \in Element /\ mul(d, s) = Share(x, K \ {b}, j, n)
      BY <2>3, ShareWithout
    <3>2. d \in Element /\ f[j] \in Element /\ g[j] = mul(d, f[j])
      <4>1. x[j] \in Element /\ x[b] \in Element
        BY DEF Distinct
      <4> QED BY <2>3, <4>1, FieldClosed
    <3>3. Shares(x, K, g, n)[j] = mul(mul(d, f[j]), s) /\ Shares(x, K \ {b}, f, n)[j] = mul(f[j], mul(d, s))
      BY <2>3, <3>1, <3>2 DEF Shares
    <3> HIDE DEF d, s
    <3>4. mul(mul(d, f[j]), s) = mul(f[j], mul(d, s))
      <4>1. mul(mul(d, f[j]), s) = mul(d, mul(f[j], s))
        BY <3>1, <3>2, FieldLaws
      <4>2. mul(d, mul(f[j], s)) = mul(f[j], mul(d, s))
        BY <3>1, <3>2, FactorsMove
      <4> QED BY <4>1, <4>2
    <3> QED BY <3>3, <3>4
  <2> QED BY <2>1, <2>2, <2>3
<1>2. \A j \in 1 .. n : Shares(x, K, g, n)[j] \in Element
  BY SharesAreElements
<1> QED BY <1>1, <1>2, SumCongruent DEF Difference

\* The difference is linear.
LEMMA DifferenceIsLinear ==
  ASSUME NEW n \in Nat, NEW x, Distinct(x, n), NEW K \in SUBSET (1 .. n), NEW c \in Element,
         NEW f \in [1 .. n -> Element], NEW g \in [1 .. n -> Element], NEW h \in [1 .. n -> Element],
         \A j \in 1 .. n : h[j] = add(g[j], mul(c, f[j]))
  PROVE  Difference(x, K, h, n) = add(Difference(x, K, g, n), mul(c, Difference(x, K, f, n)))
<1> DEFINE u == Shares(x, K, f, n)
<1> DEFINE v == Shares(x, K, g, n)
<1> DEFINE w == Shares(x, K, h, n)
<1> DEFINE cu == [j \in 1 .. n |-> mul(c, u[j])]
<1>1. \A j \in 1 .. n : u[j] \in Element /\ v[j] \in Element /\ w[j] \in Element
  BY SharesAreElements
<1>2. \A j \in 1 .. n : cu[j] = mul(c, u[j]) /\ cu[j] \in Element
  <2> HIDE DEF u, v, w
  <2> QED BY <1>1, FieldClosed
<1>3. ASSUME NEW j \in 1 .. n PROVE w[j] = add(v[j], cu[j])
  <2>1. CASE j \notin K
    <3>1. u[j] = 0 /\ v[j] = 0 /\ w[j] = 0
      BY <2>1 DEF Shares
    <3>2. mul(c, 0) = 0 /\ add(0, 0) = 0
      BY FieldLaws
    <3> QED BY <1>2, <3>1, <3>2
  <2>2. CASE j \in K
    <3> DEFINE s == Share(x, K, j, n)
    <3>1. s \in Element /\ f[j] \in Element /\ g[j] \in Element
      BY <2>2, ShareWithout
    <3>2. u[j] = mul(f[j], s) /\ v[j] = mul(g[j], s) /\ w[j] = mul(add(g[j], mul(c, f[j])), s)
      BY <2>2 DEF Shares
    <3> HIDE DEF s, u, v, w, cu
    <3>3. mul(c, f[j]) \in Element
      BY <3>1, FieldClosed
    <3>4. mul(add(g[j], mul(c, f[j])), s) = add(mul(g[j], s), mul(mul(c, f[j]), s))
      BY <3>1, <3>3, FieldLaws
    <3>5. mul(mul(c, f[j]), s) = mul(c, mul(f[j], s))
      BY <3>1, FieldLaws
    <3> QED BY <1>2, <3>2, <3>4, <3>5
  <2> QED BY <2>1, <2>2
<1> HIDE DEF u, v, w, cu
<1>4. SumUpTo(cu, n) = mul(c, SumUpTo(u, n))
  BY <1>1, <1>2, SumOfMultiples
<1>5. SumUpTo(w, n) = add(SumUpTo(v, n), SumUpTo(cu, n))
  BY <1>1, <1>2, <1>3, SumOfSums
<1> QED BY <1>4, <1>5 DEF Difference, u, v, w

\* Differences of elements go by way of a third one.
LEMMA SubGoesBy ==
  /\ \A x, y, z \in Element : sub(x, z) = add(sub(x, y), sub(y, z))
  /\ \A x, y, r \in Element : add(x, r) = add(sub(x, y), add(y, r))
  /\ \A u, v \in Element : add(u, v) = u => v = 0
<1>1. ASSUME NEW x \in Element, NEW y \in Element, NEW r \in Element
      PROVE  add(x, r) = add(sub(x, y), add(y, r))
  <2>1. sub(x, y) \in Element /\ add(sub(x, y), y) = x
    BY FieldLaws
  <2> QED BY <2>1, FieldLaws
<1>2. ASSUME NEW x \in Element, NEW y \in Element, NEW z \in Element
      PROVE  sub(x, z) = add(sub(x, y), sub(y, z))
  <2>1. sub(x, y) \in Element /\ sub(y, z) \in Element /\ add(sub(x, y), y) = x /\ add(sub(y, z), z) = y
    BY FieldLaws
  <2> DEFINE d == add(sub(x, y), sub(y, z))
  <2>2. d \in Element
    BY <2>1, FieldClosed
  <2>3. add(d, z) = x
    BY <2>1, FieldLaws
  <2> HIDE DEF d
  <2>4. sub(add(d, z), z) = d
    BY <2>2, FieldLaws
  <2> QED BY <2>3, <2>4 DEF d
<1>3. ASSUME NEW u \in Element, NEW v \in Element, add(u, v) = u PROVE v = 0
  <2>1. sub(add(v, u), u) = v /\ add(v, u) = add(u, v)
    BY FieldLaws
  <2>2. sub(add(0, u), u) = 0 /\ add(0, u) = u
    BY FieldLaws
  <2> QED BY <1>3, <2>1, <2>2
<1> QED BY <1>1, <1>2, <1>3

\* The constant function.
Ones(n) == [j \in 1 .. n |-> 1]

\* The difference of one over a single node is one.
LEMMA DifferenceOfOneNode ==
  ASSUME NEW n \in Nat, NEW x, Distinct(x, n), NEW j \in 1 .. n
  PROVE  Difference(x, {j}, Ones(n), n) = 1
<1> DEFINE u == Gaps(x, {j}, j, n)
<1>1. \A k \in 1 .. n : u[k] = 1 /\ 1 \in Element
  BY FieldClosed DEF Gaps
<1> HIDE DEF u
<1>2. /\ ProductUpTo(u, 0) = 1
      /\ \A k \in 0 .. n - 1 : ProductUpTo(u, k + 1) = mul(ProductUpTo(u, k), u[k + 1])
  BY <1>1, ProductNext
<1> DEFINE T == {k \in Nat : k <= n => ProductUpTo(u, k) = 1}
<1>3. 0 \in T
  BY <1>2
<1>4. mul(1, 1) = 1 /\ 1 \in Element
  BY FieldLaws
<1>5. ASSUME NEW k \in Nat, k \in T PROVE k + 1 \in T
  <2>1. ASSUME k + 1 <= n PROVE ProductUpTo(u, k + 1) = 1
    <3>1. k \in 0 .. n - 1 /\ k <= n /\ k + 1 \in 1 .. n
      BY <2>1
    <3> QED BY <1>1, <1>2, <1>4, <1>5, <3>1
  <2> QED BY <2>1
<1> HIDE DEF T
<1>6. Nat \subseteq T
  BY <1>3, <1>5, InductionOfNat
<1>7. ProductUpTo(u, n) = 1
  BY <1>6 DEF T
<1>8. Share(x, {j}, j, n) = 1
  <2>1. inv(1) = 1
    BY <1>4, InverseIs
  <2> QED BY <1>7, <2>1 DEF Share, u
<1>9. Shares(x, {j}, Ones(n), n)[j] = 1 /\ \A k \in 1 .. n : k # j => Shares(x, {j}, Ones(n), n)[k] = 0
  BY <1>4, <1>8 DEF Shares, Ones
<1> QED BY <1>4, <1>9, SumOfOne DEF Difference

\* The difference of one over several nodes is zero.
LEMMA DifferenceOfOnes ==
  ASSUME NEW n \in Nat, NEW x, Distinct(x, n)
  PROVE  \A s \in Nat : \A lo \in 1 .. n : lo + s <= n =>
           Difference(x, lo .. lo + s, Ones(n), n) = IF s = 0 THEN 1 ELSE 0
<1> DEFINE D(lo, s) == Difference(x, lo .. lo + s, Ones(n), n)
<1> DEFINE T == {s \in Nat : \A lo \in 1 .. n : lo + s <= n => D(lo, s) = IF s = 0 THEN 1 ELSE 0}
<1>1. 0 \in T
  <2>1. ASSUME NEW lo \in 1 .. n PROVE D(lo, 0) = 1
    <3>1. lo .. lo + 0 = {lo}
      OBVIOUS
    <3> QED BY <3>1, DifferenceOfOneNode
  <2> QED BY <2>1
<1>2. ASSUME NEW s \in Nat, s \in T PROVE s + 1 \in T
  <2>1. ASSUME NEW lo \in 1 .. n, lo + (s + 1) <= n PROVE D(lo, s + 1) = 0
    <3> DEFINE K == lo .. lo + (s + 1)
    <3> DEFINE b == lo + (s + 1)
    <3> DEFINE one == Ones(n)
    <3> DEFINE g == [j \in 1 .. n |-> sub(x[j], x[lo])]
    <3> DEFINE h == [j \in 1 .. n |-> sub(x[j], x[b])]
    <3> DEFINE c == sub(x[lo], x[b])
    <3>1. /\ K \in SUBSET (1 .. n) /\ lo \in K /\ b \in K /\ b \in 1 .. n /\ lo # b
          /\ K \ {b} = lo .. lo + s /\ K \ {lo} = (lo + 1) .. (lo + 1) + s
          /\ lo + 1 \in 1 .. n /\ (lo + 1) + s <= n /\ lo + s <= n
      BY <2>1
    <3>2. \A j \in 1 .. n : x[j] \in Element
      BY DEF Distinct
    <3>3. /\ one \in [1 .. n -> Element] /\ g \in [1 .. n -> Element] /\ h \in [1 .. n -> Element]
          /\ c \in Element /\ c # 0
      <4>1. \A j, k \in 1 .. n : sub(x[j], x[k]) \in Element
        BY <3>2, FieldClosed
      <4>2. 1 \in Element
        BY FieldClosed
      <4>3. c # 0
        BY <3>1 DEF Distinct
      <4> HIDE DEF b
      <4> QED BY <3>1, <4>1, <4>2, <4>3 DEF Ones
    <3>4. \A j \in 1 .. n : one[j] = 1 /\ g[j] = sub(x[j], x[lo]) /\ h[j] = sub(x[j], x[b])
      BY DEF Ones
    <3> HIDE DEF K, b, one, g, h, c, D
    <3>5. \A y \in Element : mul(y, 1) = y
      <4>1. 1 \in Element /\ \A y \in Element : mul(y, 1) = mul(1, y) /\ mul(1, y) = y
        BY FieldLaws
      <4> QED BY <4>1
    <3>6. \A j \in 1 .. n : h[j] = add(g[j], mul(c, one[j]))
      <4>1. ASSUME NEW j \in 1 .. n PROVE h[j] = add(g[j], mul(c, one[j]))
        <5>1. sub(x[j], x[b]) = add(sub(x[j], x[lo]), sub(x[lo], x[b]))
          BY <3>1, <3>2, SubGoesBy
        <5>2. mul(c, one[j]) = c
          BY <3>3, <3>4, <3>5
        <5> QED BY <3>4, <5>1, <5>2 DEF c
      <4> QED BY <4>1
    <3>7. Difference(x, K, h, n) = add(Difference(x, K, g, n), mul(c, Difference(x, K, one, n)))
      BY <3>1, <3>3, <3>6, DifferenceIsLinear
    <3>8. Difference(x, K, h, n) = Difference(x, K \ {b}, one, n)
      <4>1. \A j \in K : h[j] = mul(sub(x[j], x[b]), one[j])
        BY <3>1, <3>3, <3>4, <3>5
      <4> QED BY <3>1, <3>3, <4>1, DifferenceWithout
    <3>9. Difference(x, K, g, n) = Difference(x, K \ {lo}, one, n)
      <4>1. \A j \in K : g[j] = mul(sub(x[j], x[lo]), one[j])
        BY <3>1, <3>3, <3>4, <3>5
      <4> QED BY <3>1, <3>3, <4>1, DifferenceWithout, SMTT(40)
    <3>10. D(lo, s) = D(lo + 1, s)
      BY <1>2, <3>1
    <3>11. Difference(x, K \ {b}, one, n) = Difference(x, K \ {lo}, one, n)
      BY <3>1, <3>10 DEF D, one
    <3> DEFINE e == Difference(x, K, one, n)
    <3>12. e \in Element /\ Difference(x, K, g, n) \in Element
      BY <3>1, <3>3, SharesAreElements
    <3> HIDE DEF e
    <3>13. mul(c, e) = 0
      <4>1. mul(c, e) \in Element
        BY <3>3, <3>12, FieldClosed
      <4>2. add(Difference(x, K, g, n), mul(c, e)) = Difference(x, K, g, n)
        BY <3>7, <3>8, <3>9, <3>11 DEF e
      <4> QED BY <3>12, <4>1, <4>2, SubGoesBy
    <3>14. e = 0
      BY <3>3, <3>12, <3>13, MulCancels
    <3> QED BY <3>14 DEF e, D, K, one
  <2>2. s + 1 \in Nat /\ s + 1 # 0
    OBVIOUS
  <2> HIDE DEF D
  <2> QED BY <2>1, <2>2
<1> HIDE DEF T
<1>3. Nat \subseteq T
  BY <1>1, <1>2, InductionOfNat
<1> QED BY <1>3 DEF T

\* The product of x[j] + r[k] over the k that are not left out.
Factors(x, r, i, l, j, e) == [k \in 1 .. e |-> IF k \in {i, l} THEN 1 ELSE add(x[j], r[k])]

\* The product of the first k factors, at each node.
Poly(x, r, i, l, k, e, n) == [j \in 1 .. n |-> ProductUpTo(Factors(x, r, i, l, j, e), k)]

\* How many of the first k factors there are.
Degree(i, l, k) == k - (IF i <= k THEN 1 ELSE 0) - (IF l # i /\ l <= k THEN 1 ELSE 0)

\* The differences of a polynomial over more nodes than its degree and one are zero.
DifferencesVanish(x, r, i, l, e, n) ==
  \A k \in 0 .. e : \A s \in Nat : \A lo \in 1 .. n :
    lo + s <= n /\ s > Degree(i, l, k) =>
      Difference(x, lo .. lo + s, Poly(x, r, i, l, k, e, n), n) = 0

\* The difference of a polynomial of lower degree than there are distances is zero.
LEMMA DifferenceOfPoly ==
  ASSUME NEW n \in Nat, NEW x, Distinct(x, n), NEW e \in Nat, NEW r \in [1 .. e -> Element],
         NEW i \in 1 .. e, NEW l \in 1 .. e
  PROVE  /\ \A k \in 0 .. e : Poly(x, r, i, l, k, e, n) \in [1 .. n -> Element]
         /\ DifferencesVanish(x, r, i, l, e, n)
<1> DEFINE P(k) == Poly(x, r, i, l, k, e, n)
<1> DEFINE F(j) == Factors(x, r, i, l, j, e)
<1>1. ASSUME NEW j \in 1 .. n
      PROVE  /\ \A k \in 1 .. e : F(j)[k] \in Element /\ F(j)[k] = IF k \in {i, l} THEN 1 ELSE add(x[j], r[k])
             /\ ProductUpTo(F(j), 0) = 1
             /\ \A k \in 0 .. e : ProductUpTo(F(j), k) \in Element
             /\ \A k \in 0 .. e - 1 : ProductUpTo(F(j), k + 1) = mul(ProductUpTo(F(j), k), F(j)[k + 1])
  <2>1. \A k \in 1 .. e : F(j)[k] \in Element /\ F(j)[k] = IF k \in {i, l} THEN 1 ELSE add(x[j], r[k])
    <3>1. \A k \in 1 .. e : x[j] \in Element /\ r[k] \in Element
      BY DEF Distinct
    <3> QED BY <3>1, FieldClosed DEF Factors
  <2> HIDE DEF F
  <2> QED BY <2>1, ProductNext
<1>2. \A k \in 0 .. e : \A j \in 1 .. n : P(k)[j] = ProductUpTo(F(j), k)
  BY DEF Poly
<1>3. ASSUME NEW k \in 0 .. e PROVE P(k) \in [1 .. n -> Element]
  <2>1. P(k) = [j \in 1 .. n |-> ProductUpTo(F(j), k)]
    BY DEF Poly
  <2> HIDE DEF P, F
  <2> QED BY <1>1, <2>1
<1> DEFINE Zero(k) == \A s \in Nat : \A lo \in 1 .. n :
                        lo + s <= n /\ s > Degree(i, l, k) => Difference(x, lo .. lo + s, P(k), n) = 0
<1> DEFINE T == {k \in Nat : k <= e => Zero(k)}
<1>4. 0 \in T
  <2>1. P(0) = Ones(n)
    <3>1. P(0) = [j \in 1 .. n |-> ProductUpTo(F(j), 0)]
      BY DEF Poly
    <3> HIDE DEF P, F
    <3> QED BY <1>1, <3>1 DEF Ones
  <2>2. Degree(i, l, 0) = 0
    BY DEF Degree
  <2> HIDE DEF P
  <2>3. Zero(0)
    BY <2>1, <2>2, DifferenceOfOnes
  <2> QED BY <2>3
<1> HIDE DEF P, F
<1>5. ASSUME NEW k \in Nat, k \in T PROVE k + 1 \in T
  <2>1. ASSUME k + 1 <= e, NEW s \in Nat, NEW lo \in 1 .. n, lo + s <= n, s > Degree(i, l, k + 1)
        PROVE  Difference(x, lo .. lo + s, P(k + 1), n) = 0
    <3>1. k \in 0 .. e /\ k \in 0 .. e - 1 /\ k + 1 \in 1 .. e /\ k + 1 \in 0 .. e /\ k <= e
      BY <2>1
    <3>2. Zero(k)
      BY <1>5, <3>1
    <3>3. Degree(i, l, k) \in Nat /\ Degree(i, l, k + 1) = IF k + 1 \in {i, l} THEN Degree(i, l, k) ELSE Degree(i, l, k) + 1
      BY DEF Degree
    <3>4. \A j \in 1 .. n : P(k + 1)[j] = mul(P(k)[j], F(j)[k + 1]) /\ P(k)[j] \in Element
      BY <1>1, <1>2, <3>1
    <3> DEFINE d == Degree(i, l, k)
    <3>5. CASE k + 1 \in {i, l}
      <4>1. ASSUME NEW j \in 1 .. n PROVE P(k + 1)[j] = P(k)[j]
        <5>1. F(j)[k + 1] = 1 /\ P(k)[j] \in Element
          BY <1>1, <3>1, <3>4, <3>5
        <5>2. mul(P(k)[j], 1) = mul(1, P(k)[j]) /\ mul(1, P(k)[j]) = P(k)[j]
          BY <5>1, FieldLaws
        <5> QED BY <3>4, <5>1, <5>2
      <4>2. P(k + 1) = P(k)
        <5>1. P(k + 1) \in [1 .. n -> Element] /\ P(k) \in [1 .. n -> Element]
          BY <1>3, <3>1
        <5> QED BY <4>1, <5>1
      <4>3. s > Degree(i, l, k)
        BY <2>1, <3>3, <3>5
      <4> QED BY <2>1, <3>2, <4>2, <4>3
    <3>6. CASE k + 1 \notin {i, l}
      <4> DEFINE b == lo + s
      <4> DEFINE K == lo .. lo + s
      <4> DEFINE p == P(k)
      <4> DEFINE h == P(k + 1)
      <4> DEFINE g == [j \in 1 .. n |-> mul(sub(x[j], x[b]), p[j])]
      <4> DEFINE c == add(x[b], r[k + 1])
      <4>1. d \in Nat /\ s > d + 1 /\ s > d /\ s - 1 \in Nat /\ s - 1 > d
        BY <2>1, <3>3, <3>6
      <4>2. /\ K \in SUBSET (1 .. n) /\ b \in K /\ b \in 1 .. n
            /\ K \ {b} = lo .. lo + (s - 1) /\ lo + (s - 1) <= n
        BY <2>1, <4>1
      <4>3. \A j \in 1 .. n : x[j] \in Element
        BY DEF Distinct
      <4>4. p \in [1 .. n -> Element] /\ h \in [1 .. n -> Element]
        BY <1>3, <3>1
      <4>5. r[k + 1] \in Element /\ x[b] \in Element
        <5> HIDE DEF b
        <5> QED BY <3>1, <4>2, <4>3
      <4>6. \A j \in 1 .. n : h[j] = mul(p[j], add(x[j], r[k + 1]))
        BY <1>1, <3>1, <3>4, <3>6
      <4> HIDE DEF b, K, p, h
      <4>7. c \in Element
        BY <4>5, FieldClosed
      <4>8. \A j \in 1 .. n : g[j] = mul(sub(x[j], x[b]), p[j]) /\ g[j] \in Element
        <5>1. \A j \in 1 .. n : sub(x[j], x[b]) \in Element
          BY <4>3, <4>5, FieldClosed
        <5> QED BY <4>4, <5>1, FieldClosed
      <4>9. g \in [1 .. n -> Element]
        BY <4>8
      <4> HIDE DEF g, c
      <4>10. ASSUME NEW j \in 1 .. n PROVE h[j] = add(g[j], mul(c, p[j]))
        <5> DEFINE y == sub(x[j], x[b])
        <5>1. y \in Element /\ p[j] \in Element
          BY <4>3, <4>4, <4>5, FieldClosed
        <5>2. add(x[j], r[k + 1]) = add(y, c)
          BY <4>3, <4>5, SubGoesBy DEF c
        <5> HIDE DEF y
        <5> DEFINE q == p[j]
        <5>3. q \in Element /\ y \in Element /\ c \in Element
          BY <4>7, <5>1
        <5>4. h[j] = mul(q, add(y, c)) /\ g[j] = mul(y, q)
          BY <4>6, <4>8, <5>2 DEF y
        <5> HIDE DEF q
        <5>5. mul(q, add(y, c)) = mul(add(y, c), q)
          BY <5>3, FieldClosed, FieldLaws
        <5>6. mul(add(y, c), q) = add(mul(y, q), mul(c, q))
          BY <5>3, FieldLaws
        <5> QED BY <5>4, <5>5, <5>6 DEF q
      <4>11. Difference(x, K, h, n) = add(Difference(x, K, g, n), mul(c, Difference(x, K, p, n)))
        BY <4>2, <4>4, <4>7, <4>9, <4>10, DifferenceIsLinear
      <4>12. Difference(x, K, g, n) = Difference(x, K \ {b}, p, n)
        <5>1. \A j \in K : g[j] = mul(sub(x[j], x[b]), p[j])
          BY <4>2, <4>8
        <5> QED BY <4>2, <4>4, <4>9, <5>1, DifferenceWithout
      <4>13. Difference(x, K \ {b}, p, n) = 0
        BY <3>2, <4>1, <4>2 DEF p
      <4>14. Difference(x, K, p, n) = 0
        BY <2>1, <3>2, <4>1 DEF p, K
      <4>15. mul(c, 0) = 0 /\ add(0, 0) = 0
        BY <4>7, FieldLaws
      <4> QED BY <4>11, <4>12, <4>13, <4>14, <4>15 DEF h, K
    <3> QED BY <3>5, <3>6
  <2> QED BY <2>1
<1> HIDE DEF T
<1>6. Nat \subseteq T
  BY <1>4, <1>5, InductionOfNat
<1> QED BY <1>3, <1>6 DEF T, P, DifferencesVanish

-----------------------------------------------------------------------------
\* The Cauchy matrix.

\* Residues of integers in the field.
LEMMA Residues ==
  \A y, z \in Int : /\ y % Order \in Element
                    /\ add(y % Order, z % Order) = (y + z) % Order
                    /\ sub(y % Order, z % Order) = (y - z) % Order
                    /\ mul(y % Order, z % Order) = (y * z) % Order
<1> DEFINE R(y) == y % Order
<1>1. \A y \in Int : R(y) \in Element /\ R(y) \in Int
  <2>1. \A y \in Int : R(y) \in Element
    BY RemaindersFirst
  <2>2. Element \subseteq Int
    BY OrderIsOdd DEF Element
  <2> QED BY <2>1, <2>2
<1>2. ASSUME NEW y \in Int, NEW z \in Int
      PROVE  add(R(y), R(z)) = R(y + z) /\ mul(R(y), R(z)) = R(y * z)
  <2>1. R(R(y) + R(z)) = R(y + R(z)) /\ R(R(y) * R(z)) = R(y * R(z))
    BY <1>1, RemaindersFirst
  <2>2. R(y + R(z)) = R(y + z) /\ R(y * R(z)) = R(y * z)
    BY RemaindersFirst
  <2> QED BY <2>1, <2>2 DEF add, mul
<1>3. ASSUME NEW y \in Int, NEW z \in Int PROVE sub(R(y), R(z)) = R(y - z)
  <2>1. y - z \in Int /\ (y - z) + z = y
    OBVIOUS
  <2> HIDE DEF R
  <2>2. add(R(y - z), R(z)) = R((y - z) + z)
    BY <1>2, <2>1
  <2>3. R(y - z) \in Element /\ R(z) \in Element
    BY <1>1, <2>1
  <2>4. sub(add(R(y - z), R(z)), R(z)) = R(y - z)
    BY <2>3, FieldLaws
  <2> QED BY <2>1, <2>2, <2>4
<1> QED BY <1>1, <1>2, <1>3

\* Minus one, as an element.
MinusOne == Order - 1

\* Minus one changes signs.
LEMMA SignsChange ==
  /\ MinusOne \in Element /\ MinusOne # 0 /\ mul(MinusOne, MinusOne) = 1
  /\ \A y, z \in Int : y + z = 0 => mul(MinusOne, y % Order) = z % Order
  /\ \A x, y \in Element : add(x, y) = 0 => x = mul(MinusOne, y)
<1>1. MinusOne \in Element /\ MinusOne # 0 /\ MinusOne \in Int /\ Order \in Nat \ {0} /\ MinusOne + 1 = Order
  BY OrderIsOdd DEF MinusOne, Element
<1>2. ASSUME NEW y \in Int, NEW z \in Int, y + z = 0 PROVE mul(MinusOne, y % Order) = z % Order
  <2>1. (MinusOne * (y % Order)) % Order = (MinusOne * y) % Order
    BY <1>1, RemaindersFirst
  <2> DEFINE p == Order
  <2> DEFINE m == MinusOne
  <2>2. p \in Nat \ {0} /\ m \in Int /\ m = p - 1
    BY <1>1
  <2> HIDE DEF p, m
  <2>3. m * y = z + p * y
    <3>1. z = -y
      BY <1>2
    <3>2. (p - 1) * y = p * y - y
      BY <2>2
    <3>3. p * y \in Int
      BY <2>2
    <3> QED BY <2>2, <3>1, <3>2, <3>3
  <2>4. (z + p * y) % p = z % p
    BY <2>2, RemainderOfMultiple
  <2> QED BY <2>1, <2>3, <2>4 DEF mul, m, p
<1>3. mul(MinusOne, MinusOne) = 1
  <2> DEFINE q == 0 - 1
  <2>1. q \in Int /\ q + 1 = 0
    OBVIOUS
  <2> HIDE DEF q
  <2>2. q % Order = MinusOne
    <3>1. q \in -Order .. 2 * Order - 1 /\ Order > 2 /\ q < 0
      BY <2>1, OrderIsOdd
    <3>2. q % Order = IF q < 0 THEN q + Order ELSE q
      BY <2>1, <3>1, RemainderOfSum
    <3> QED BY <2>1, <1>1, <3>1, <3>2 DEF MinusOne
  <2>3. 1 % Order = 1
    BY OrderIsOdd
  <2> QED BY <1>2, <2>1, <2>2, <2>3
<1>4. ASSUME NEW x \in Element, NEW y \in Element, add(x, y) = 0 PROVE x = mul(MinusOne, y)
  <2> DEFINE w == mul(MinusOne, y)
  <2>1. w \in Element /\ 1 \in Element /\ 0 \in Element
    BY <1>1, FieldClosed
  <2>2. add(MinusOne, 1) = 0
    <3>1. Order % Order = 0
      BY <1>1
    <3> QED BY <1>1, <3>1 DEF add
  <2>3. mul(add(MinusOne, 1), y) = add(w, mul(1, y))
    BY <1>1, <2>1, FieldLaws
  <2>4. mul(1, y) = y /\ mul(0, y) = 0
    BY FieldLaws
  <2>5. add(w, y) = 0
    BY <2>2, <2>3, <2>4
  <2> HIDE DEF w
  <2>6. sub(add(w, y), y) = w /\ sub(add(x, y), y) = x
    BY <2>1, FieldLaws
  <2> QED BY <1>4, <2>5, <2>6 DEF w
<1> QED BY <1>1, <1>2, <1>3, <1>4

\* What product returns is the product.
LEMMA ProductIs ==
  ASSUME NEW n \in Nat, NEW arr \in [1 .. n -> Element]
  PROVE  product(arr) = ProductUpTo(arr, n) /\ product(arr) \in Element
<1>1. Len(arr) = n
  BY RowsAndLength
<1>2. \A k \in 1 .. n : arr[k] \in Element
  OBVIOUS
<1>3. /\ ProductUpTo(arr, 0) = 1
      /\ \A k \in 0 .. n : ProductUpTo(arr, k) \in Element
      /\ \A k \in 0 .. n - 1 : ProductUpTo(arr, k + 1) = mul(ProductUpTo(arr, k), arr[k + 1])
  BY <1>2, ProductNext
<1> DEFINE Def(f) == [k \in 0 .. n |-> IF k = 0 THEN 1 ELSE mul(f[k - 1], arr[k])]
<1> DEFINE acc == CHOOSE f : f = Def(f)
<1> DEFINE c == [k \in 0 .. n |-> ProductUpTo(arr, k)]
<1>4. c = Def(c)
  <2>1. ASSUME NEW k \in 0 .. n PROVE c[k] = IF k = 0 THEN 1 ELSE mul(c[k - 1], arr[k])
    <3>1. CASE k # 0
      <4>1. k - 1 \in 0 .. n - 1 /\ (k - 1) + 1 = k /\ k - 1 \in 0 .. n
        BY <3>1
      <4>2. c[k - 1] = ProductUpTo(arr, k - 1) /\ c[k] = ProductUpTo(arr, k)
        BY <4>1
      <4> QED BY <1>3, <3>1, <4>1, <4>2
    <3> QED BY <1>3, <3>1
  <2> DEFINE body(k) == ProductUpTo(arr, k)
  <2>2. \A k \in 0 .. n : c[k] = IF k = 0 THEN 1 ELSE mul(c[k - 1], arr[k])
    BY <2>1
  <2>3. DOMAIN c = 0 .. n /\ c = [k \in 0 .. n |-> c[k]]
    OBVIOUS
  <2> HIDE DEF c
  <2> QED BY <2>2, <2>3
<1>5. acc = Def(acc)
  BY <1>4
<1> HIDE DEF acc, c
<1>6. acc[0] = 1 /\ \A k \in 0 .. n - 1 : acc[k + 1] = mul(acc[k], arr[k + 1])
  <2>1. acc[0] = 1
    BY <1>5
  <2>2. ASSUME NEW k \in 0 .. n - 1 PROVE acc[k + 1] = mul(acc[k], arr[k + 1])
    <3>1. k + 1 \in 0 .. n /\ k + 1 # 0 /\ (k + 1) - 1 = k
      OBVIOUS
    <3> QED BY <1>5, <3>1
  <2> QED BY <2>1, <2>2
<1> DEFINE d == [k \in 0 .. n |-> ProductUpTo(arr, k)]
<1>7. d[0] = 1 /\ (\A k \in 0 .. n - 1 : d[k + 1] = mul(d[k], arr[k + 1])) /\ d[n] = ProductUpTo(arr, n)
  <2>1. \A k \in 0 .. n : d[k] = ProductUpTo(arr, k)
    OBVIOUS
  <2>2. \A k \in 0 .. n - 1 : k \in 0 .. n /\ k + 1 \in 0 .. n
    OBVIOUS
  <2>3. 0 \in 0 .. n /\ n \in 0 .. n
    OBVIOUS
  <2> HIDE DEF d
  <2> QED BY <1>3, <2>1, <2>2, <2>3
<1> HIDE DEF d, Def
<1>8. \A k \in 0 .. n : acc[k] = d[k]
  <2>1. acc[0] = d[0] /\ \A k \in 0 .. n - 1 : acc[k] = d[k] => acc[k + 1] = d[k + 1]
    BY <1>6, <1>7
  <2> QED BY <2>1, LoopsAgree
<1>9. product(arr) = acc[n]
  BY <1>1 DEF product, acc, Def
<1>10. acc[n] = d[n]
  <2>1. n \in 0 .. n
    OBVIOUS
  <2> QED BY <1>8, <2>1
<1>11. ProductUpTo(arr, n) \in Element
  <2>1. n \in 0 .. n
    OBVIOUS
  <2> QED BY <1>3, <2>1
<1> QED BY <1>7, <1>9, <1>10, <1>11

\* The factors of buildInverseCauchy.
PlusAll(j, m) == [k \in 1 .. m |-> (j + k) % Order]
MinusAll(i, m) == [k \in 1 .. m |-> (-i - k) % Order]
From(j, m) == [k \in 1 .. m |-> IF k = j THEN 1 ELSE (j - k) % Order]
To(i, m) == [k \in 1 .. m |-> IF k = i THEN 1 ELSE (k - i) % Order]

\* They are not zero, and minus one is the sign of two of them.
LEMMA FactorsOfInverse ==
  ASSUME NEW m \in Size, NEW i \in 1 .. m
  PROVE  /\ \A k \in 1 .. m : /\ PlusAll(i, m)[k] \in Element \ {0} /\ MinusAll(i, m)[k] \in Element \ {0}
                            /\ From(i, m)[k] \in Element \ {0} /\ To(i, m)[k] \in Element \ {0}
         /\ ProductUpTo(PlusAll(i, m), m) \in Element \ {0} /\ ProductUpTo(MinusAll(i, m), m) \in Element \ {0}
         /\ ProductUpTo(From(i, m), m) \in Element \ {0} /\ ProductUpTo(To(i, m), m) \in Element \ {0}
         /\ mul(ProductUpTo(MinusAll(i, m), m), ProductUpTo(From(i, m), m))
              = mul(MinusOne, mul(ProductUpTo(PlusAll(i, m), m), ProductUpTo(To(i, m), m)))
<1> DEFINE a == MinusAll(i, m)
<1> DEFINE b == PlusAll(i, m)
<1> DEFINE c == From(i, m)
<1> DEFINE d == To(i, m)
<1>1. m \in Nat /\ 2 * m < Order /\ Order \in Nat
  BY SizesFit
<1>2. ASSUME NEW k \in 1 .. m
      PROVE  /\ a[k] = (-i - k) % Order /\ b[k] = (i + k) % Order
             /\ c[k] = (IF k = i THEN 1 ELSE (i - k) % Order) /\ d[k] = IF k = i THEN 1 ELSE (k - i) % Order
  BY DEF MinusAll, PlusAll, From, To
<1> HIDE DEF a, b, c, d
<1>3. ASSUME NEW k \in 1 .. m
      PROVE  a[k] \in Element \ {0} /\ b[k] \in Element \ {0} /\ c[k] \in Element \ {0} /\ d[k] \in Element \ {0}
  <2>1. a[k] \in Element \ {0}
    <3>1. (-i - k) % Order \in Element \ {0}
      BY <1>1, IndexNotZero
    <3> QED BY <1>2, <3>1
  <2>2. b[k] \in Element \ {0}
    <3>1. (i + k) % Order \in Element \ {0}
      BY <1>1, IndexNotZero
    <3> QED BY <1>2, <3>1
  <2>3. 1 \in Element \ {0}
    BY FieldClosed
  <2>4. c[k] \in Element \ {0}
    <3>1. k # i => (i - k) % Order \in Element \ {0}
      BY <1>1, IndexNotZero, SMTT(40)
    <3> QED BY <1>2, <2>3, <3>1
  <2>5. d[k] \in Element \ {0}
    <3>1. k # i => (k - i) % Order \in Element \ {0}
      BY <1>1, IndexNotZero
    <3> QED BY <1>2, <2>3, <3>1
  <2> QED BY <2>1, <2>2, <2>4, <2>5
<1>4. /\ ProductUpTo(a, m) \in Element \ {0} /\ ProductUpTo(b, m) \in Element \ {0}
      /\ ProductUpTo(c, m) \in Element \ {0} /\ ProductUpTo(d, m) \in Element \ {0}
  <2>1. ProductUpTo(a, m) \in Element \ {0}
    BY <1>1, <1>3, ProductNotZero
  <2>2. ProductUpTo(b, m) \in Element \ {0}
    BY <1>1, <1>3, ProductNotZero
  <2>3. ProductUpTo(c, m) \in Element \ {0}
    BY <1>1, <1>3, ProductNotZero
  <2>4. ProductUpTo(d, m) \in Element \ {0}
    BY <1>1, <1>3, ProductNotZero
  <2> QED BY <2>1, <2>2, <2>3, <2>4
<1> DEFINE u == [k \in 1 .. m |-> mul(a[k], c[k])]
<1> DEFINE v == [k \in 1 .. m |-> mul(b[k], d[k])]
<1>5. ProductUpTo(u, m) = mul(ProductUpTo(a, m), ProductUpTo(c, m))
  <2>1. \A k \in 1 .. m : a[k] \in Element /\ c[k] \in Element /\ u[k] = mul(a[k], c[k])
    BY <1>3
  <2> HIDE DEF u
  <2> QED BY <1>1, <2>1, ProductOfProducts
<1>6. ProductUpTo(v, m) = mul(ProductUpTo(b, m), ProductUpTo(d, m))
  <2>1. \A k \in 1 .. m : b[k] \in Element /\ d[k] \in Element /\ v[k] = mul(b[k], d[k])
    BY <1>3
  <2> HIDE DEF v
  <2> QED BY <1>1, <2>1, ProductOfProducts
<1>7. ASSUME NEW k \in 1 .. m
      PROVE  u[k] \in Element /\ v[k] \in Element /\ v[k] # 0
             /\ (k # i => v[k] = u[k]) /\ (k = i => u[k] = mul(MinusOne, v[k]))
  <2>1. u[k] = mul(a[k], c[k]) /\ v[k] = mul(b[k], d[k])
    OBVIOUS
  <2> HIDE DEF u, v
  <2>2. u[k] \in Element /\ v[k] \in Element
    BY <1>3, <2>1, FieldClosed
  <2>3. v[k] # 0
    BY <1>3, <2>1, MulCancels
  <2>4. ASSUME k # i PROVE v[k] = u[k]
    <3>1. -i - k \in Int /\ i - k \in Int /\ i + k \in Int /\ k - i \in Int
      BY <1>1
    <3>2. u[k] = ((-i - k) * (i - k)) % Order
      BY <1>2, <2>1, <2>4, <3>1, Residues
    <3>3. v[k] = ((i + k) * (k - i)) % Order
      BY <1>2, <2>1, <2>4, <3>1, Residues
    <3>4. (-i - k) * (i - k) = (i + k) * (k - i)
      <4>1. \A x, y \in Int : (-x - y) * (x - y) = (x + y) * (y - x)
        OBVIOUS
      <4> QED BY <1>1, <4>1
    <3> QED BY <3>2, <3>3, <3>4
  <2>5. ASSUME k = i PROVE u[k] = mul(MinusOne, v[k])
    <3>1. c[k] = 1 /\ d[k] = 1
      BY <1>2, <2>5
    <3>2. u[k] = a[k] /\ v[k] = b[k]
      <4>1. a[k] \in Element /\ b[k] \in Element /\ 1 \in Element
        BY <1>3, FieldClosed
      <4>2. mul(a[k], 1) = mul(1, a[k]) /\ mul(b[k], 1) = mul(1, b[k])
        BY <4>1, FieldLaws
      <4>3. mul(1, a[k]) = a[k] /\ mul(1, b[k]) = b[k]
        BY <4>1, FieldLaws
      <4> QED BY <2>1, <3>1, <4>2, <4>3
    <3>3. -i - k \in Int /\ i + k \in Int /\ (i + k) + (-i - k) = 0
      BY <1>1
    <3>4. mul(MinusOne, (i + k) % Order) = (-i - k) % Order
      BY <3>3, SignsChange
    <3> QED BY <1>2, <3>2, <3>4
  <2> QED BY <2>2, <2>3, <2>4, <2>5
<1> HIDE DEF u, v
<1> DEFINE p == ProductUpTo(u, m)
<1> DEFINE q == ProductUpTo(v, m)
<1> DEFINE w == v[i]
<1>8. p \in Element /\ q \in Element /\ w \in Element /\ w # 0 /\ u[i] = mul(MinusOne, w)
  <2>1. p \in Element /\ q \in Element
    BY <1>4, <1>5, <1>6, FieldClosed
  <2> QED BY <1>7, <2>1
<1>9. mul(p, w) = mul(q, u[i])
  BY <1>1, <1>7, ProductReplaced
<1> HIDE DEF p, q, w
<1>10. mul(q, mul(MinusOne, w)) = mul(mul(MinusOne, q), w)
  <2>1. mul(q, mul(MinusOne, w)) = mul(MinusOne, mul(q, w))
    BY <1>8, SignsChange, FactorsMove
  <2>2. mul(mul(MinusOne, q), w) = mul(MinusOne, mul(q, w))
    BY <1>8, SignsChange, FieldLaws
  <2> QED BY <2>1, <2>2
<1>11. p = mul(MinusOne, q)
  <2>1. mul(MinusOne, q) \in Element
    BY <1>8, SignsChange, FieldClosed
  <2>2. mul(w, p) = mul(w, mul(MinusOne, q))
    <3>1. mul(w, p) = mul(p, w) /\ mul(w, mul(MinusOne, q)) = mul(mul(MinusOne, q), w)
      BY <1>8, <2>1, FieldLaws
    <3> QED BY <1>8, <1>9, <1>10, <3>1
  <2> QED BY <1>8, <2>1, <2>2, MulCancels
<1> QED BY <1>3, <1>4, <1>5, <1>6, <1>11 DEF a, b, c, d, p, q

\* What the inverse has of a row, and by symmetry of a column.
Scale(j, m) == mul(ProductUpTo(PlusAll(j, m), m), inv(ProductUpTo(From(j, m), m)))

\* The inverse of a product with the sign changed.
LEMMA InverseOfOpposite ==
  /\ \A x \in Element \ {0} : mul(MinusOne, x) \in Element \ {0} /\ inv(mul(MinusOne, x)) = mul(MinusOne, inv(x))
  /\ \A x, y \in Element : mul(mul(MinusOne, x), mul(MinusOne, y)) = mul(x, y)
<1>1. inv(MinusOne) = MinusOne
  BY SignsChange, InverseIs
<1>2. ASSUME NEW x \in Element \ {0}
      PROVE  mul(MinusOne, x) \in Element \ {0} /\ inv(mul(MinusOne, x)) = mul(MinusOne, inv(x))
  <2>1. MinusOne \in Element \ {0}
    BY SignsChange
  <2> QED BY <1>1, <2>1, InverseOfProduct
<1>3. ASSUME NEW x \in Element, NEW y \in Element PROVE mul(mul(MinusOne, x), mul(MinusOne, y)) = mul(x, y)
  <2>1. mul(mul(MinusOne, x), mul(MinusOne, y)) = mul(mul(MinusOne, MinusOne), mul(x, y))
    BY SignsChange, FactorsMove
  <2>2. mul(1, mul(x, y)) = mul(x, y)
    <3>1. mul(x, y) \in Element
      BY FieldClosed
    <3> QED BY <3>1, FieldLaws
  <2> QED BY <2>1, <2>2, SignsChange
<1> QED BY <1>2, <1>3

\* Quotients of products that differ in their sign.
LEMMA QuotientsOfOpposites ==
  ASSUME NEW a \in Element \ {0}, NEW b \in Element \ {0}, NEW c \in Element \ {0}, NEW d \in Element \ {0},
         mul(a, c) = mul(MinusOne, mul(b, d))
  PROVE  mul(a, inv(d)) = mul(MinusOne, mul(b, inv(c)))
<1> DEFINE C == inv(c)
<1> DEFINE D == inv(d)
<1>1. C \in Element /\ D \in Element /\ mul(c, C) = 1 /\ mul(d, D) = 1
  BY InverseExists
<1>2. mul(c, d) \in Element /\ mul(c, d) # 0
  BY FieldClosed, MulCancels
<1> HIDE DEF C, D
<1>3. mul(a, D) \in Element /\ mul(b, C) \in Element /\ mul(MinusOne, mul(b, C)) \in Element
      /\ mul(a, c) \in Element /\ mul(b, d) \in Element
  BY <1>1, SignsChange, FieldClosed
<1>4. mul(mul(c, d), mul(a, D)) = mul(a, c)
  <2>1. mul(mul(c, d), mul(a, D)) = mul(mul(c, a), mul(d, D))
    BY <1>1, FactorsMove
  <2>2. mul(c, a) = mul(a, c) /\ mul(mul(a, c), 1) = mul(1, mul(a, c)) /\ mul(1, mul(a, c)) = mul(a, c)
    BY <1>3, FieldClosed, FieldLaws
  <2> QED BY <1>1, <2>1, <2>2
<1>5. mul(mul(c, d), mul(MinusOne, mul(b, C))) = mul(MinusOne, mul(b, d))
  <2>1. mul(mul(c, d), mul(MinusOne, mul(b, C))) = mul(MinusOne, mul(mul(c, d), mul(b, C)))
    BY <1>2, <1>3, SignsChange, FactorsMove
  <2>2. mul(c, d) = mul(d, c)
    BY FieldLaws
  <2>3. mul(mul(d, c), mul(b, C)) = mul(mul(d, b), mul(c, C))
    BY <1>1, FactorsMove
  <2>4. mul(d, b) = mul(b, d) /\ mul(mul(b, d), 1) = mul(1, mul(b, d)) /\ mul(1, mul(b, d)) = mul(b, d)
    BY <1>3, FieldClosed, FieldLaws
  <2> QED BY <1>1, <2>1, <2>2, <2>3, <2>4
<1> QED BY <1>2, <1>3, <1>4, <1>5, MulCancels DEF C, D

\* The scales are elements.
LEMMA ScaleIsElement ==
  ASSUME NEW m \in Size, NEW j \in 1 .. m
  PROVE  Scale(j, m) \in Element \ {0} /\ inv(ProductUpTo(From(j, m), m)) \in Element \ {0}
<1> DEFINE b == ProductUpTo(PlusAll(j, m), m)
<1> DEFINE c == ProductUpTo(From(j, m), m)
<1>1. b \in Element \ {0} /\ c \in Element \ {0}
  BY FactorsOfInverse
<1> HIDE DEF b, c
<1>2. inv(c) \in Element /\ mul(c, inv(c)) = 1
  BY <1>1, InverseExists
<1>3. inv(c) # 0
  <2>1. mul(c, 0) = 0
    BY <1>1, FieldLaws
  <2> QED BY <1>2, <2>1
<1>4. mul(b, inv(c)) \in Element /\ mul(b, inv(c)) # 0
  BY <1>1, <1>2, <1>3, FieldClosed, MulCancels
<1> QED BY <1>2, <1>3, <1>4 DEF Scale, b, c

\* Five factors in another order.
LEMMA FactorsRegroup ==
  ASSUME NEW a \in Element, NEW b \in Element, NEW c \in Element, NEW d \in Element, NEW e \in Element
  PROVE  mul(a, mul(b, mul(c, mul(d, e)))) = mul(mul(a, d), mul(mul(b, c), e))
<1>1. mul(c, e) \in Element /\ mul(b, mul(c, e)) \in Element
  BY FieldClosed
<1>2. mul(c, mul(d, e)) = mul(d, mul(c, e))
  BY FactorsMove
<1>3. mul(b, mul(d, mul(c, e))) = mul(d, mul(b, mul(c, e)))
  BY <1>1, FactorsMove
<1>4. mul(a, mul(d, mul(b, mul(c, e)))) = mul(mul(a, d), mul(b, mul(c, e)))
  BY <1>1, FieldLaws
<1>5. mul(mul(b, c), e) = mul(b, mul(c, e))
  BY FieldLaws
<1> QED BY <1>2, <1>3, <1>4, <1>5

\* What buildInverseCauchy returns does not change when row and column are exchanged.
LEMMA InverseEntry ==
  ASSUME NEW m \in Size, NEW i \in 1 .. m, NEW j \in 1 .. m
  PROVE  /\ inv((i + j) % Order) \in Element
         /\ buildInverseCauchy(m)[i][j] = mul(mul(Scale(i, m), Scale(j, m)), inv((i + j) % Order))
<1> DEFINE a == ProductUpTo(MinusAll(i, m), m)
<1> DEFINE b == ProductUpTo(PlusAll(j, m), m)
<1> DEFINE bi == ProductUpTo(PlusAll(i, m), m)
<1> DEFINE c == ProductUpTo(From(j, m), m)
<1> DEFINE ci == ProductUpTo(From(i, m), m)
<1> DEFINE d == ProductUpTo(To(i, m), m)
<1> DEFINE x == (i + j) % Order
<1> DEFINE e == inv(x)
<1> DEFINE y == (-i - j) % Order
<1>1. m \in Nat /\ 2 * m < Order /\ Order \in Nat
  BY SizesFit
<1>2. /\ MinusAll(i, m) \in [1 .. m -> Element] /\ PlusAll(j, m) \in [1 .. m -> Element]
      /\ From(j, m) \in [1 .. m -> Element] /\ To(i, m) \in [1 .. m -> Element]
  <2>1. MinusAll(i, m) \in [1 .. m -> Element]
    BY FactorsOfInverse DEF MinusAll
  <2>2. PlusAll(j, m) \in [1 .. m -> Element]
    BY FactorsOfInverse DEF PlusAll
  <2>3. From(j, m) \in [1 .. m -> Element]
    BY FactorsOfInverse DEF From
  <2>4. To(i, m) \in [1 .. m -> Element]
    BY FactorsOfInverse DEF To
  <2> QED BY <2>1, <2>2, <2>3, <2>4
<1>3. /\ product(MinusAll(i, m)) = a /\ product(PlusAll(j, m)) = b
      /\ product(From(j, m)) = c /\ product(To(i, m)) = d
  BY <1>1, <1>2, ProductIs
<1>4. buildInverseCauchy(m)[i][j] = mul(a, mul(b, mul(inv(c), mul(inv(d), inv(y)))))
  <2>1. buildInverseCauchy(m)[i][j] =
          mul(product(MinusAll(i, m)), mul(product(PlusAll(j, m)),
            mul(inv(product(From(j, m))), mul(inv(product(To(i, m))), inv(y)))))
    BY DEF buildInverseCauchy, MinusAll, PlusAll, From, To
  <2> QED BY <1>3, <2>1
<1>5. /\ a \in Element \ {0} /\ bi \in Element \ {0} /\ ci \in Element \ {0} /\ d \in Element \ {0}
      /\ mul(a, ci) = mul(MinusOne, mul(bi, d))
  BY FactorsOfInverse
<1>6. b \in Element \ {0} /\ c \in Element \ {0}
  BY FactorsOfInverse
<1>7. x \in Element \ {0} /\ y = mul(MinusOne, x)
  <2>1. x \in Element \ {0}
    BY <1>1, IndexNotZero
  <2>2. i + j \in Int /\ -i - j \in Int /\ (i + j) + (-i - j) = 0
    BY <1>1
  <2> QED BY <2>1, <2>2, SignsChange
<1>8. Scale(i, m) = mul(bi, inv(ci)) /\ Scale(j, m) = mul(b, inv(c))
  BY DEF Scale
<1> HIDE DEF a, b, bi, c, ci, d, x, e, y
<1>9. e \in Element /\ inv(y) = mul(MinusOne, e)
  BY <1>7, InverseExists, InverseOfOpposite DEF e
<1> DEFINE wi == Scale(i, m)
<1> DEFINE wj == Scale(j, m)
<1>10. wi \in Element /\ wj \in Element
  BY ScaleIsElement
<1>11. mul(a, inv(d)) = mul(MinusOne, wi)
  BY <1>5, <1>8, QuotientsOfOpposites
<1>12. inv(c) \in Element /\ inv(d) \in Element /\ inv(y) \in Element
  <2>1. inv(c) \in Element /\ inv(d) \in Element
    BY <1>5, <1>6, InverseExists
  <2> QED BY <1>9, <2>1, SignsChange, FieldClosed
<1>13. mul(a, mul(b, mul(inv(c), mul(inv(d), inv(y))))) = mul(mul(a, inv(d)), mul(mul(b, inv(c)), inv(y)))
  BY <1>5, <1>6, <1>12, FactorsRegroup
<1> HIDE DEF wi, wj
<1>14. mul(mul(MinusOne, wi), mul(wj, mul(MinusOne, e))) = mul(mul(wi, wj), e)
  <2>1. mul(wj, mul(MinusOne, e)) = mul(MinusOne, mul(wj, e)) /\ mul(wj, e) \in Element
    BY <1>9, <1>10, SignsChange, FactorsMove, FieldClosed
  <2>2. mul(mul(MinusOne, wi), mul(MinusOne, mul(wj, e))) = mul(wi, mul(wj, e))
    BY <1>10, <2>1, InverseOfOpposite
  <2>3. mul(mul(wi, wj), e) = mul(wi, mul(wj, e))
    BY <1>9, <1>10, FieldLaws
  <2> QED BY <2>1, <2>2, <2>3
<1> QED BY <1>4, <1>8, <1>9, <1>11, <1>13, <1>14 DEF wi, wj, e, x

\* A factor one instead of another is the product divided by that.
LEMMA ProductWithout ==
  ASSUME NEW n \in Nat, NEW u, NEW v, NEW j \in 1 .. n, u[j] # 0, v[j] = 1,
         \A k \in 1 .. n : u[k] \in Element /\ v[k] \in Element /\ (k # j => v[k] = u[k])
  PROVE  ProductUpTo(v, n) = mul(ProductUpTo(u, n), inv(u[j])) /\ ProductUpTo(v, n) \in Element
<1> DEFINE p == ProductUpTo(u, n)
<1> DEFINE q == ProductUpTo(v, n)
<1> DEFINE w == u[j]
<1>1. mul(p, v[j]) = mul(q, w)
  BY ProductReplaced
<1>2. p \in Element
  <2>1. n \in 0 .. n
    OBVIOUS
  <2> QED BY <2>1, ProductNext
<1>3. q \in Element
  <2>1. n \in 0 .. n
    OBVIOUS
  <2> QED BY <2>1, ProductNext
<1>4. w \in Element \ {0} /\ inv(w) \in Element /\ mul(w, inv(w)) = 1
  <2>1. w \in Element \ {0}
    OBVIOUS
  <2> HIDE DEF w
  <2> QED BY <2>1, InverseExists
<1>5. mul(p, 1) = mul(q, w)
  BY <1>1
<1> HIDE DEF p, q, w
<1>6. p = mul(q, w)
  <2>1. mul(p, 1) = mul(1, p) /\ mul(1, p) = p
    BY <1>2, FieldClosed, FieldLaws
  <2> QED BY <1>5, <2>1
<1>7. mul(mul(q, w), inv(w)) = mul(q, mul(w, inv(w)))
  BY <1>3, <1>4, FieldLaws
<1>8. mul(q, 1) = mul(1, q) /\ mul(1, q) = q
  BY <1>3, FieldClosed, FieldLaws
<1>9. mul(p, inv(w)) = q
  BY <1>4, <1>6, <1>7, <1>8
<1> QED BY <1>3, <1>9 DEF p, q, w

\* A last factor one.
LEMMA ProductAndOne ==
  ASSUME NEW n \in Nat, NEW u, NEW v, u[n + 1] = 1, \A k \in 1 .. n : u[k] \in Element /\ v[k] = u[k]
  PROVE  ProductUpTo(u, n + 1) = ProductUpTo(v, n)
<1> DEFINE m == n + 1
<1>1. m \in Nat /\ n \in 0 .. m - 1 /\ n \in 0 .. m /\ \A k \in 1 .. m : k \in 1 .. n \/ k = m
  OBVIOUS
<1>2. \A k \in 1 .. m : u[k] \in Element
  BY <1>1, FieldClosed
<1>3. ProductUpTo(u, n) \in Element /\ ProductUpTo(u, n + 1) = mul(ProductUpTo(u, n), u[n + 1])
  <2> HIDE DEF m
  <2> QED BY <1>1, <1>2, ProductNext
<1>4. mul(ProductUpTo(u, n), 1) = ProductUpTo(u, n)
  <2> DEFINE p == ProductUpTo(u, n)
  <2>1. p \in Element
    BY <1>3
  <2> HIDE DEF p
  <2>2. mul(p, 1) = mul(1, p) /\ mul(1, p) = p
    BY <2>1, FieldClosed, FieldLaws
  <2> QED BY <2>2 DEF p
<1>5. ProductUpTo(u, n) = ProductUpTo(v, n)
  BY ProductCongruent
<1> QED BY <1>3, <1>4, <1>5

-----------------------------------------------------------------------------
\* The product of a Cauchy matrix and its inverse, by divided differences over the
\* nodes 1 to m and -i.

\* The nodes, as integers and as elements, and what is added to a node in the factors of buildInverseCauchy.
Places(i, m) == [j \in 1 .. m + 1 |-> IF j = m + 1 THEN -i ELSE j]

Nodes(i, m) == [j \in 1 .. m + 1 |-> (Places(i, m)[j]) % Order]

Roots(m) == [k \in 1 .. m |-> k % Order]

\* The nodes are different.
LEMMA NodesAreDistinct ==
  ASSUME NEW m \in Size, NEW i \in 1 .. m
  PROVE  /\ Distinct(Nodes(i, m), m + 1)
         /\ \A j, k \in 1 .. m + 1 :
              sub(Nodes(i, m)[j], Nodes(i, m)[k]) = (Places(i, m)[j] - Places(i, m)[k]) % Order
<1> DEFINE z == Places(i, m)
<1> DEFINE x == Nodes(i, m)
<1>1. m \in Nat /\ 2 * m < Order /\ Order \in Nat
  BY SizesFit
<1>2. ASSUME NEW j \in 1 .. m + 1
      PROVE  z[j] \in Int /\ x[j] = (z[j]) % Order /\ z[j] = IF j = m + 1 THEN -i ELSE j
  BY <1>1 DEF Places, Nodes
<1>3. x = [j \in 1 .. m + 1 |-> (z[j]) % Order]
  BY DEF Nodes
<1> HIDE DEF x, z
<1>4. ASSUME NEW j \in 1 .. m + 1, NEW k \in 1 .. m + 1
      PROVE  sub(x[j], x[k]) = (z[j] - z[k]) % Order /\ (j # k => sub(x[j], x[k]) # 0)
  <2>1. z[j] \in Int /\ z[k] \in Int
    BY <1>2
  <2>2. sub(x[j], x[k]) = (z[j] - z[k]) % Order
    <3> DEFINE a == z[j]
    <3> DEFINE b == z[k]
    <3>1. a \in Int /\ b \in Int /\ x[j] = a % Order /\ x[k] = b % Order
      BY <1>2
    <3> HIDE DEF a, b
    <3>2. sub(a % Order, b % Order) = (a - b) % Order
      BY <3>1, Residues
    <3> QED BY <3>1, <3>2 DEF a, b
  <2>3. ASSUME j # k PROVE (z[j] - z[k]) % Order \in Element \ {0}
    <3> DEFINE d == z[j] - z[k]
    <3>1. d \in Int /\ d # 0 /\ -Order < d /\ d < Order
      <4>1. z[j] = (IF j = m + 1 THEN -i ELSE j) /\ z[k] = IF k = m + 1 THEN -i ELSE k
        BY <1>2
      <4> QED BY <1>1, <2>3, <4>1
    <3> HIDE DEF d
    <3>2. d % Order \in Element \ {0}
      BY <3>1, IndexNotZero
    <3> QED BY <3>2 DEF d
  <2> QED BY <2>2, <2>3
<1>5. x \in [1 .. m + 1 -> Element]
  <2>1. \A j \in 1 .. m + 1 : (z[j]) % Order \in Element
    BY <1>2, Residues
  <2> QED BY <1>3, <2>1
<1> QED BY <1>4, <1>5 DEF Distinct, x, z

\* The function whose difference is a row of one matrix times a column of the other.
Function(i, l, m) == Poly(Nodes(i, m), Roots(m), i, l, m, m, m + 1)

\* Its difference over so many nodes is zero.
LEMMA DifferenceIsZero ==
  ASSUME NEW m \in Size, NEW i \in 1 .. m, NEW l \in 1 .. m
  PROVE  /\ Function(i, l, m) \in [1 .. m + 1 -> Element]
         /\ i # l => Difference(Nodes(i, m), 1 .. m, Function(i, l, m), m + 1) = 0
         /\ i = l => Difference(Nodes(i, m), 1 .. m + 1, Function(i, l, m), m + 1) = 0
<1> DEFINE n == m + 1
<1> DEFINE x == Nodes(i, m)
<1> DEFINE r == Roots(m)
<1>1. m \in Nat \ {0}
  BY SizesFit
<1>2. n \in Nat /\ Distinct(x, n)
  BY <1>1, NodesAreDistinct
<1>3. r \in [1 .. m -> Element]
  BY <1>1, Residues DEF Roots
<1>4. m \in 0 .. m /\ 1 \in 1 .. n
  BY <1>1
<1>5. Degree(i, l, m) = IF i = l THEN m - 1 ELSE m - 2
  BY <1>1 DEF Degree
<1>6. /\ m - 1 \in Nat /\ 1 + (m - 1) = m /\ 1 + (m - 1) <= n /\ (i # l => m - 1 > Degree(i, l, m))
      /\ m \in Nat /\ 1 + m = n /\ 1 + m <= n /\ (i = l => m > Degree(i, l, m))
  BY <1>1, <1>5
<1> HIDE DEF n, x, r
<1>7. Poly(x, r, i, l, m, m, n) \in [1 .. n -> Element]
  BY <1>1, <1>2, <1>3, <1>4, DifferenceOfPoly
<1>8. DifferencesVanish(x, r, i, l, m, n)
  BY <1>1, <1>2, <1>3, DifferenceOfPoly
<1>9. i # l => Difference(x, 1 .. 1 + (m - 1), Poly(x, r, i, l, m, m, n), n) = 0
  BY <1>4, <1>6, <1>8 DEF DifferencesVanish
<1>10. i = l => Difference(x, 1 .. 1 + m, Poly(x, r, i, l, m, m, n), n) = 0
  BY <1>4, <1>6, <1>8 DEF DifferencesVanish
<1>11. Function(i, l, m) = Poly(x, r, i, l, m, m, n)
  BY DEF Function, x, r, n
<1> QED BY <1>4, <1>6, <1>7, <1>9, <1>10, <1>11 DEF x, n

\* What the function is at the nodes.
LEMMA FunctionIs ==
  ASSUME NEW m \in Size, NEW i \in 1 .. m, NEW l \in 1 .. m
  PROVE  /\ \A j \in 1 .. m :
              /\ i # l => Function(i, l, m)[j] =
                   mul(ProductUpTo(PlusAll(j, m), m), mul(inv((i + j) % Order), inv((j + l) % Order)))
              /\ i = l => Function(i, l, m)[j] = mul(ProductUpTo(PlusAll(j, m), m), inv((i + j) % Order))
         /\ i = l => Function(i, l, m)[m + 1] = ProductUpTo(To(i, m), m)
<1>1. m \in Nat \ {0} /\ 2 * m < Order /\ Order \in Nat
  BY SizesFit
<1>2. ASSUME NEW j \in 1 .. m + 1
      PROVE  Function(i, l, m)[j] = ProductUpTo(Factors(Nodes(i, m), Roots(m), i, l, j, m), m)
  BY DEF Function, Poly
<1>3. ASSUME NEW j \in 1 .. m + 1, NEW k \in 1 .. m
      PROVE  Factors(Nodes(i, m), Roots(m), i, l, j, m)[k] =
               IF k \in {i, l} THEN 1 ELSE (Places(i, m)[j] + k) % Order
  <2>1. Places(i, m)[j] \in Int /\ Nodes(i, m)[j] = (Places(i, m)[j]) % Order /\ Roots(m)[k] = k % Order
    BY <1>1 DEF Places, Nodes, Roots
  <2>2. add((Places(i, m)[j]) % Order, k % Order) = (Places(i, m)[j] + k) % Order
    <3> DEFINE a == Places(i, m)[j]
    <3>1. a \in Int /\ k \in Int
      BY <2>1
    <3> HIDE DEF a
    <3>2. add(a % Order, k % Order) = (a + k) % Order
      BY <3>1, Residues
    <3> QED BY <3>2 DEF a
  <2> QED BY <2>1, <2>2 DEF Factors
<1>4. ASSUME NEW j \in 1 .. m
      PROVE  /\ i # l => Function(i, l, m)[j] =
                   mul(ProductUpTo(PlusAll(j, m), m), mul(inv((i + j) % Order), inv((j + l) % Order)))
             /\ i = l => Function(i, l, m)[j] = mul(ProductUpTo(PlusAll(j, m), m), inv((i + j) % Order))
  <2> DEFINE u == PlusAll(j, m)
  <2> DEFINE v == [k \in 1 .. m |-> IF k = i THEN 1 ELSE u[k]]
  <2> DEFINE w == Factors(Nodes(i, m), Roots(m), i, l, j, m)
  <2>1. j \in 1 .. m + 1 /\ Places(i, m)[j] = j
    BY <1>1 DEF Places
  <2>2. \A k \in 1 .. m : u[k] \in Element \ {0} /\ u[k] = (j + k) % Order
    BY FactorsOfInverse DEF PlusAll
  <2>3. \A k \in 1 .. m : v[k] = IF k = i THEN 1 ELSE u[k]
    OBVIOUS
  <2>4. \A k \in 1 .. m : w[k] = IF k \in {i, l} THEN 1 ELSE u[k]
    BY <1>3, <2>1, <2>2
  <2>5. Function(i, l, m)[j] = ProductUpTo(w, m)
    BY <1>2, <2>1
  <2> HIDE DEF u, v, w
  <2>6. 1 \in Element /\ \A k \in 1 .. m : u[k] \in Element /\ u[k] # 0 /\ v[k] \in Element /\ w[k] \in Element
    BY <2>2, <2>3, <2>4, FieldClosed
  <2>7. ProductUpTo(v, m) = mul(ProductUpTo(u, m), inv(u[i]))
    <3>1. u[i] # 0 /\ v[i] = 1 /\ \A k \in 1 .. m : u[k] \in Element /\ v[k] \in Element /\ (k # i => v[k] = u[k])
      BY <2>3, <2>6
    <3> QED BY <1>1, <3>1, ProductWithout
  <2>8. u[i] = (i + j) % Order /\ u[l] = (j + l) % Order
    <3>1. i + j = j + i
      BY <1>1
    <3> QED BY <2>2, <3>1
  <2>9. ASSUME i = l PROVE ProductUpTo(w, m) = ProductUpTo(v, m)
    <3>1. \A k \in 1 .. m : v[k] \in Element /\ w[k] = v[k]
      BY <2>3, <2>4, <2>6, <2>9
    <3> QED BY <1>1, <3>1, ProductCongruent
  <2>10. ASSUME i # l
         PROVE  ProductUpTo(w, m) = mul(ProductUpTo(u, m), mul(inv(u[i]), inv(u[l])))
    <3>1. v[l] = u[l] /\ v[l] # 0 /\ w[l] = 1
          /\ \A k \in 1 .. m : v[k] \in Element /\ w[k] \in Element /\ (k # l => w[k] = v[k])
      BY <2>3, <2>4, <2>6, <2>10
    <3>2. ProductUpTo(w, m) = mul(ProductUpTo(v, m), inv(v[l]))
      BY <1>1, <3>1, ProductWithout
    <3>3. ProductUpTo(u, m) \in Element
      <4>1. m \in 0 .. m
        BY <1>1
      <4> QED BY <1>1, <2>6, <4>1, ProductNext
    <3>4. inv(u[i]) \in Element /\ inv(u[l]) \in Element
      <4>1. u[i] \in Element \ {0} /\ u[l] \in Element \ {0}
        BY <2>6
      <4> QED BY <4>1, InverseExists
    <3>5. mul(mul(ProductUpTo(u, m), inv(u[i])), inv(u[l])) = mul(ProductUpTo(u, m), mul(inv(u[i]), inv(u[l])))
      BY <3>3, <3>4, FieldLaws
    <3> QED BY <2>7, <3>1, <3>2, <3>5
  <2> QED BY <2>5, <2>7, <2>8, <2>9, <2>10 DEF u
<1>5. ASSUME i = l PROVE Function(i, l, m)[m + 1] = ProductUpTo(To(i, m), m)
  <2> DEFINE w == Factors(Nodes(i, m), Roots(m), i, l, m + 1, m)
  <2> DEFINE t == To(i, m)
  <2>1. m + 1 \in 1 .. m + 1 /\ Places(i, m)[m + 1] = -i
    BY <1>1 DEF Places
  <2>2. \A k \in 1 .. m : t[k] \in Element /\ t[k] = IF k = i THEN 1 ELSE (k - i) % Order
    BY FactorsOfInverse DEF To
  <2>3. \A k \in 1 .. m : w[k] = IF k \in {i, l} THEN 1 ELSE (-i + k) % Order
    BY <1>3, <2>1
  <2>4. ASSUME NEW k \in 1 .. m PROVE t[k] \in Element /\ w[k] = t[k]
    <3>1. -i + k = k - i
      BY <1>1
    <3> QED BY <1>5, <2>2, <2>3, <3>1
  <2>5. Function(i, l, m)[m + 1] = ProductUpTo(w, m)
    BY <1>2, <2>1
  <2> HIDE DEF w, t
  <2>6. ProductUpTo(t, m) = ProductUpTo(w, m)
    BY <1>1, <2>4, ProductCongruent
  <2> QED BY <2>5, <2>6 DEF t
<1> QED BY <1>4, <1>5

\* The shares of the nodes.
LEMMA SharesOfNodes ==
  ASSUME NEW m \in Size, NEW i \in 1 .. m
  PROVE  /\ \A j \in 1 .. m :
              /\ Share(Nodes(i, m), 1 .. m, j, m + 1) = inv(ProductUpTo(From(j, m), m))
              /\ Share(Nodes(i, m), 1 .. m + 1, j, m + 1)
                   = mul(inv(ProductUpTo(From(j, m), m)), inv((i + j) % Order))
         /\ Share(Nodes(i, m), 1 .. m + 1, m + 1, m + 1) = inv(ProductUpTo(MinusAll(i, m), m))
<1> DEFINE n == m + 1
<1> DEFINE x == Nodes(i, m)
<1> DEFINE z == Places(i, m)
<1>1. m \in Nat \ {0} /\ 2 * m < Order /\ Order \in Nat
  BY SizesFit
<1>2. /\ n \in Nat /\ Distinct(x, n) /\ n = m + 1
      /\ \A j, k \in 1 .. n : sub(x[j], x[k]) = (z[j] - z[k]) % Order
  BY <1>1, NodesAreDistinct
<1>3. z[n] = -i /\ \A j \in 1 .. m : z[j] = j
  BY <1>1 DEF Places
<1> HIDE DEF n, x, z
<1>4. ASSUME NEW j \in 1 .. m PROVE Share(x, 1 .. m, j, n) = inv(ProductUpTo(From(j, m), m))
  <2> DEFINE g == Gaps(x, 1 .. m, j, n)
  <2> DEFINE f == From(j, m)
  <2>1. \A k \in 1 .. n : g[k] = IF k = j \/ k \notin 1 .. m THEN 1 ELSE (z[j] - z[k]) % Order
    <3>1. \A k \in 1 .. n : sub(x[j], x[k]) = (z[j] - z[k]) % Order
      BY <1>1, <1>2
    <3> QED BY <3>1 DEF Gaps
  <2>2. \A k \in 1 .. m : f[k] \in Element /\ f[k] = IF k = j THEN 1 ELSE (j - k) % Order
    BY FactorsOfInverse DEF From
  <2> HIDE DEF g, f
  <2>3. ASSUME NEW k \in 1 .. m PROVE g[k] \in Element /\ f[k] = g[k]
    <3>1. k \in 1 .. n /\ z[j] = j /\ z[k] = k
      BY <1>1, <1>2, <1>3
    <3> QED BY <2>1, <2>2, <3>1
  <2>4. g[m + 1] = 1
    <3>1. m + 1 \in 1 .. n /\ m + 1 \notin 1 .. m
      BY <1>1, <1>2
    <3> QED BY <2>1, <3>1
  <2>5. ProductUpTo(g, m + 1) = ProductUpTo(f, m)
    BY <1>1, <2>3, <2>4, ProductAndOne
  <2> QED BY <1>2, <2>5 DEF Share, g, f
<1>5. ASSUME NEW j \in 1 .. m
      PROVE  Share(x, 1 .. n, j, n) = mul(inv(ProductUpTo(From(j, m), m)), inv((i + j) % Order))
  <2> DEFINE K == 1 .. n
  <2> DEFINE s == Share(x, K, j, n)
  <2> DEFINE y == (i + j) % Order
  <2> DEFINE q == inv(ProductUpTo(From(j, m), m))
  <2>1. K \in SUBSET (1 .. n) /\ j \in K /\ n \in K /\ n # j /\ K \ {n} = 1 .. m
    BY <1>1, <1>2
  <2>2. sub(x[j], x[n]) = y
    <3>1. z[j] - z[n] = i + j
      BY <1>1, <1>3
    <3> QED BY <1>2, <2>1, <3>1
  <2>3. q \in Element
    BY ScaleIsElement
  <2>4. y \in Element \ {0}
    BY <1>1, IndexNotZero
  <2> HIDE DEF K, y, q
  <2>5. s \in Element /\ mul(sub(x[j], x[n]), s) = Share(x, K \ {n}, j, n)
    BY <1>2, <2>1, ShareWithout
  <2>6. mul(y, s) = q
    BY <1>4, <2>1, <2>2, <2>5 DEF q
  <2> HIDE DEF s
  <2>7. inv(y) \in Element /\ mul(y, inv(y)) = 1
    BY <2>4, InverseExists
  <2>8. mul(mul(y, s), inv(y)) = mul(mul(y, inv(y)), s) /\ mul(1, s) = s
    BY <2>4, <2>5, <2>7, FactorsMove, FieldLaws
  <2> QED BY <2>6, <2>7, <2>8 DEF s, K, y, q
<1>6. Share(x, 1 .. n, n, n) = inv(ProductUpTo(MinusAll(i, m), m))
  <2> DEFINE g == Gaps(x, 1 .. n, n, n)
  <2> DEFINE f == MinusAll(i, m)
  <2>1. \A k \in 1 .. n : g[k] = IF k = n \/ k \notin 1 .. n THEN 1 ELSE (z[n] - z[k]) % Order
    <3>1. n \in 1 .. n
      BY <1>1, <1>2
    <3>2. \A k \in 1 .. n : sub(x[n], x[k]) = (z[n] - z[k]) % Order
      BY <1>2, <3>1
    <3> QED BY <3>2 DEF Gaps
  <2>2. \A k \in 1 .. m : f[k] \in Element /\ f[k] = (-i - k) % Order
    BY FactorsOfInverse DEF MinusAll
  <2> HIDE DEF g, f
  <2>3. ASSUME NEW k \in 1 .. m PROVE g[k] \in Element /\ f[k] = g[k]
    <3>1. k \in 1 .. n /\ k # n /\ z[n] = -i /\ z[k] = k
      BY <1>1, <1>2, <1>3
    <3> QED BY <2>1, <2>2, <3>1
  <2>4. g[m + 1] = 1
    <3>1. m + 1 \in 1 .. n
      BY <1>1, <1>2
    <3> QED BY <1>2, <2>1, <3>1
  <2>5. ProductUpTo(g, m + 1) = ProductUpTo(f, m)
    BY <1>1, <2>3, <2>4, ProductAndOne
  <2> QED BY <1>2, <2>5 DEF Share, g, f
<1> QED BY <1>4, <1>5, <1>6 DEF n, x

\* A row of the Cauchy matrix times a column of what the scales leave of its inverse.
ScaledRow(i, l, m) ==
  [j \in 1 .. m |-> mul(Scale(j, m), mul(inv((i + j) % Order), inv((j + l) % Order)))]

\* The sum of elements and a last one.
LEMMA SumAndLast ==
  ASSUME NEW m \in Nat, NEW u, NEW v, u[m + 1] \in Element, \A j \in 1 .. m : v[j] \in Element /\ u[j] = v[j]
  PROVE  SumUpTo(u, m + 1) = add(SumUpTo(v, m), u[m + 1]) /\ SumUpTo(v, m) \in Element
<1> DEFINE n == m + 1
<1>1. n \in Nat /\ m \in 0 .. n - 1 /\ \A j \in 1 .. n : j \in 1 .. m \/ j = m + 1
  OBVIOUS
<1>2. \A j \in 1 .. n : u[j] \in Element
  BY <1>1
<1>3. SumUpTo(u, m + 1) = add(SumUpTo(u, m), u[m + 1])
  <2>1. SumUpTo(u, m + 1) = add(SumUpTo(u, m), u[m + 1])
    <3> HIDE DEF n
    <3> QED BY <1>1, <1>2, SumNext
  <2> QED BY <2>1
<1>4. SumUpTo(v, m) = SumUpTo(u, m)
  BY SumCongruent
<1>5. SumUpTo(v, m) \in Element
  BY SumSteps
<1> QED BY <1>3, <1>4, <1>5

\* Times the scale of the column, it is one on the diagonal and zero elsewhere.
LEMMA ScaledRowIs ==
  ASSUME NEW m \in Size, NEW i \in 1 .. m, NEW l \in 1 .. m
  PROVE  /\ \A j \in 1 .. m : ScaledRow(i, l, m)[j] \in Element
         /\ SumUpTo(ScaledRow(i, l, m), m) \in Element
         /\ mul(Scale(l, m), SumUpTo(ScaledRow(i, l, m), m)) = IF i = l THEN 1 ELSE 0
<1> DEFINE n == m + 1
<1> DEFINE x == Nodes(i, m)
<1> DEFINE f == Function(i, l, m)
<1> DEFINE v == ScaledRow(i, l, m)
<1> DEFINE b(j) == ProductUpTo(PlusAll(j, m), m)
<1> DEFINE c(j) == inv(ProductUpTo(From(j, m), m))
<1> DEFINE e(j) == inv((i + j) % Order)
<1> DEFINE h(j) == inv((j + l) % Order)
<1>1. m \in Nat \ {0} /\ 2 * m < Order /\ Order \in Nat /\ m \in Nat
  BY SizesFit
<1>2. ASSUME NEW j \in 1 .. m
      PROVE  b(j) \in Element /\ c(j) \in Element /\ e(j) \in Element /\ h(j) \in Element
  <2>1. b(j) \in Element
    BY FactorsOfInverse
  <2>2. c(j) \in Element
    BY ScaleIsElement
  <2>3. e(j) \in Element
    BY InverseEntry
  <2>4. h(j) \in Element
    BY InverseEntry
  <2> QED BY <2>1, <2>2, <2>3, <2>4
<1>3. \A j \in 1 .. m : v[j] = mul(mul(b(j), c(j)), mul(e(j), h(j)))
  BY DEF ScaledRow, Scale
<1> HIDE DEF v
<1>4. \A j \in 1 .. m : v[j] \in Element
  <2> HIDE DEF b, c, e, h
  <2> QED BY <1>2, <1>3, FieldClosed
<1>5. SumUpTo(v, m) \in Element
  BY <1>1, <1>4, SumSteps
<1>6. f \in [1 .. n -> Element] /\ \A j \in 1 .. n : f[j] \in Element
  BY DifferenceIsZero
<1>7. ASSUME i # l PROVE mul(Scale(l, m), SumUpTo(v, m)) = 0
  <2> DEFINE u == Shares(x, 1 .. m, f, n)
  <2>1. ASSUME NEW j \in 1 .. m PROVE u[j] = v[j]
    <3>1. u[j] = mul(f[j], Share(x, 1 .. m, j, n))
      BY <1>1 DEF Shares
    <3>2. Share(x, 1 .. m, j, n) = c(j)
      BY SharesOfNodes
    <3>3. f[j] = mul(b(j), mul(e(j), h(j)))
      BY <1>7, FunctionIs
    <3> HIDE DEF u, f, b, c, e, h
    <3>4. mul(e(j), h(j)) \in Element
      BY <1>2, FieldClosed
    <3>5. mul(mul(b(j), mul(e(j), h(j))), c(j)) = mul(mul(b(j), c(j)), mul(e(j), h(j)))
      BY <1>2, <3>4, FactorsMove
    <3> QED BY <1>3, <3>1, <3>2, <3>3, <3>5
  <2>2. u[m + 1] = 0 /\ 0 \in Element
    BY <1>1, FieldClosed DEF Shares
  <2>3. SumUpTo(u, m + 1) = 0
    BY <1>7, DifferenceIsZero DEF Difference
  <2> HIDE DEF u
  <2>4. SumUpTo(u, m + 1) = add(SumUpTo(v, m), u[m + 1])
    BY <1>1, <1>4, <2>1, <2>2, SumAndLast
  <2>5. SumUpTo(v, m) = 0
    <3>1. add(0, SumUpTo(v, m)) = SumUpTo(v, m) /\ add(SumUpTo(v, m), 0) = SumUpTo(v, m)
      BY <1>5, FieldLaws
    <3> QED BY <2>2, <2>3, <2>4, <3>1
  <2>6. mul(Scale(l, m), 0) = 0
    <3>1. Scale(l, m) \in Element
      BY ScaleIsElement
    <3> QED BY <3>1, FieldLaws
  <2> QED BY <2>5, <2>6
<1>8. ASSUME i = l PROVE mul(Scale(l, m), SumUpTo(v, m)) = 1
  <2> DEFINE u == Shares(x, 1 .. n, f, n)
  <2> DEFINE a == ProductUpTo(MinusAll(i, m), m)
  <2> DEFINE d == ProductUpTo(To(i, m), m)
  <2>1. ASSUME NEW j \in 1 .. m PROVE u[j] = v[j]
    <3>1. u[j] = mul(f[j], Share(x, 1 .. n, j, n))
      BY <1>1 DEF Shares
    <3>2. Share(x, 1 .. n, j, n) = mul(c(j), e(j))
      BY SharesOfNodes
    <3>3. f[j] = mul(b(j), e(j))
      BY <1>8, FunctionIs
    <3>4. h(j) = e(j)
      <4>1. i + j = j + l
        BY <1>1, <1>8
      <4> QED BY <4>1
    <3> HIDE DEF u, f, b, c, e, h
    <3>5. mul(mul(b(j), e(j)), mul(c(j), e(j))) = mul(mul(b(j), c(j)), mul(e(j), e(j)))
      BY <1>2, FactorsMove, SMTT(40)
    <3> QED BY <1>3, <3>1, <3>2, <3>3, <3>4, <3>5
  <2>2. u[m + 1] = mul(d, inv(a))
    <3>1. m + 1 \in 1 .. n
      BY <1>1
    <3>2. u[m + 1] = mul(f[m + 1], Share(x, 1 .. n, m + 1, n))
      BY <3>1 DEF Shares
    <3>3. Share(x, 1 .. n, m + 1, n) = inv(a)
      BY SharesOfNodes
    <3>4. f[m + 1] = d
      BY <1>8, FunctionIs
    <3> QED BY <3>2, <3>3, <3>4
  <2>3. SumUpTo(u, m + 1) = 0
    BY <1>8, DifferenceIsZero DEF Difference
  <2> DEFINE p == ProductUpTo(PlusAll(i, m), m)
  <2> DEFINE q == ProductUpTo(From(i, m), m)
  <2>4. /\ a \in Element \ {0} /\ d \in Element \ {0} /\ p \in Element \ {0} /\ q \in Element \ {0}
        /\ mul(a, q) = mul(MinusOne, mul(p, d))
    BY FactorsOfInverse
  <2>5. Scale(l, m) = mul(p, inv(q))
    BY <1>8 DEF Scale
  <2> HIDE DEF u, a, d, p, q
  <2>6. inv(a) \in Element /\ inv(q) \in Element /\ mul(a, inv(a)) = 1 /\ mul(q, inv(q)) = 1
    BY <2>4, InverseExists
  <2>7. mul(d, inv(a)) \in Element /\ mul(p, inv(q)) \in Element
    BY <2>4, <2>6, FieldClosed
  <2>8. SumUpTo(u, m + 1) = add(SumUpTo(v, m), u[m + 1])
    BY <1>1, <1>4, <2>1, <2>2, <2>7, SumAndLast
  <2>9. SumUpTo(v, m) = mul(MinusOne, mul(d, inv(a)))
    BY <1>5, <2>2, <2>3, <2>7, <2>8, SignsChange
  <2>10. mul(mul(p, inv(q)), mul(MinusOne, mul(d, inv(a)))) = mul(MinusOne, mul(mul(p, inv(q)), mul(d, inv(a))))
    BY <2>7, SignsChange, FactorsMove
  <2>11. mul(mul(p, inv(q)), mul(d, inv(a))) = mul(mul(p, d), mul(inv(q), inv(a)))
    BY <2>4, <2>6, FactorsMove
  <2>12. mul(MinusOne, mul(mul(p, d), mul(inv(q), inv(a)))) = mul(mul(a, q), mul(inv(q), inv(a)))
    <3>1. mul(p, d) \in Element /\ mul(inv(q), inv(a)) \in Element
      BY <2>4, <2>6, FieldClosed
    <3>2. mul(mul(MinusOne, mul(p, d)), mul(inv(q), inv(a))) = mul(MinusOne, mul(mul(p, d), mul(inv(q), inv(a))))
      BY <3>1, SignsChange, FieldLaws
    <3> QED BY <2>4, <3>2
  <2>13. mul(mul(a, q), mul(inv(q), inv(a))) = 1
    <3>1. mul(inv(q), inv(a)) = mul(inv(a), inv(q))
      BY <2>6, FieldLaws
    <3>2. mul(mul(a, q), mul(inv(a), inv(q))) = mul(mul(a, inv(a)), mul(q, inv(q)))
      BY <2>4, <2>6, FactorsMove
    <3>3. mul(1, 1) = 1
      BY FieldLaws
    <3> QED BY <2>6, <3>1, <3>2, <3>3
  <2> QED BY <2>5, <2>9, <2>10, <2>11, <2>12, <2>13
<1> QED BY <1>4, <1>5, <1>7, <1>8 DEF v

\* The matrix of buildInverseCauchy is the inverse of that of buildCauchy, on both sides.
LEMMA CauchyInverts ==
  ASSUME NEW m \in Size
  PROVE  /\ matMul(mdsMat[m], mdsMatInverse[m]) = Identity(m)
         /\ matMul(mdsMatInverse[m], mdsMat[m]) = Identity(m)
<1> DEFINE A == mdsMat[m]
<1> DEFINE B == mdsMatInverse[m]
<1> DEFINE C == matMul(A, B)
<1> DEFINE D == matMul(B, A)
<1> DEFINE e(i, j) == inv((i + j) % Order)
<1>1. m \in Nat \ {0} /\ m \in Nat
  BY SizesFit
<1>2. A \in Matrix(m, m) /\ B \in Matrix(m, m)
  BY MdsMatrices
<1>3. ASSUME NEW i \in 1 .. m, NEW j \in 1 .. m
      PROVE  /\ A[i][j] = e(i, j) /\ B[i][j] = mul(mul(Scale(i, m), Scale(j, m)), e(i, j))
             /\ e(i, j) = e(j, i) /\ e(i, j) \in Element
             /\ Scale(i, m) \in Element /\ Scale(j, m) \in Element
  <2>1. A[i][j] = e(i, j)
    BY DEF mdsMat, Size, buildCauchy
  <2>2. B[i][j] = buildInverseCauchy(m)[i][j]
    BY DEF mdsMatInverse, Size
  <2>3. i + j = j + i
    BY <1>1
  <2>4. Scale(i, m) \in Element /\ Scale(j, m) \in Element
    BY ScaleIsElement
  <2> QED BY <2>1, <2>2, <2>3, <2>4, InverseEntry
<1>4. IsProduct(C, A, B, m, m, m) /\ IsProduct(D, B, A, m, m, m)
  <2> HIDE DEF A, B
  <2> QED BY <1>1, <1>2, MatMulSums
<1>5. Identity(m) = [i \in 1 .. m |-> [j \in 1 .. m |-> IF i = j THEN 1 ELSE 0]]
  BY DEF Identity
<1> HIDE DEF A, B, C, D
<1>6. ASSUME NEW i \in 1 .. m, NEW l \in 1 .. m
      PROVE  /\ SumUpTo(Terms(A, B, i, l, m), m) = IF i = l THEN 1 ELSE 0
             /\ SumUpTo(Terms(B, A, l, i, m), m) = IF l = i THEN 1 ELSE 0
  <2> DEFINE v == ScaledRow(i, l, m)
  <2> DEFINE w == Scale(l, m)
  <2> DEFINE s == Terms(A, B, i, l, m)
  <2> DEFINE t == Terms(B, A, l, i, m)
  <2>1. ASSUME NEW j \in 1 .. m
        PROVE  v[j] \in Element /\ s[j] = mul(w, v[j]) /\ t[j] = mul(w, v[j])
    <3> DEFINE wj == Scale(j, m)
    <3> DEFINE p == e(i, j)
    <3> DEFINE q == e(j, l)
    <3>1. s[j] = mul(A[i][j], B[j][l]) /\ t[j] = mul(B[l][j], A[j][i])
      BY DEF Terms
    <3>2. p \in Element /\ q \in Element /\ wj \in Element /\ w \in Element
      BY <1>3
    <3>3. A[i][j] = p /\ B[j][l] = mul(mul(wj, w), q)
      BY <1>3
    <3>4. A[j][i] = p /\ B[l][j] = mul(mul(w, wj), q)
      <4>1. A[j][i] = e(j, i) /\ e(j, i) = e(i, j) /\ e(l, j) = e(j, l) /\ B[l][j] = mul(mul(Scale(l, m), Scale(j, m)), e(l, j))
        BY <1>3
      <4> QED BY <4>1
    <3>5. v[j] = mul(wj, mul(p, q))
      BY DEF ScaledRow
    <3> HIDE DEF s, t, v, w, wj, p, q
    <3>6. /\ mul(p, q) \in Element /\ mul(wj, q) \in Element /\ mul(wj, mul(p, q)) \in Element
          /\ mul(mul(w, wj), q) \in Element
      BY <3>2, FieldClosed
    <3>7. mul(wj, w) = mul(w, wj)
      BY <3>2, FieldLaws
    <3>8. mul(mul(w, wj), q) = mul(w, mul(wj, q))
      BY <3>2, FieldLaws
    <3>9. mul(p, mul(w, mul(wj, q))) = mul(w, mul(p, mul(wj, q)))
      BY <3>2, <3>6, FactorsMove
    <3>10. mul(p, mul(wj, q)) = mul(wj, mul(p, q))
      BY <3>2, FactorsMove
    <3>11. mul(mul(mul(w, wj), q), p) = mul(p, mul(mul(w, wj), q))
      BY <3>2, <3>6, FieldLaws
    <3> QED BY <3>1, <3>3, <3>4, <3>5, <3>6, <3>7, <3>8, <3>9, <3>10, <3>11
  <2>2. mul(w, SumUpTo(v, m)) = IF i = l THEN 1 ELSE 0
    BY ScaledRowIs
  <2>3. w \in Element
    BY ScaleIsElement
  <2> HIDE DEF s, t, v, w
  <2>4. SumUpTo(s, m) = mul(w, SumUpTo(v, m))
    BY <1>1, <2>1, <2>3, SumOfMultiples
  <2>5. SumUpTo(t, m) = mul(w, SumUpTo(v, m))
    BY <1>1, <2>1, <2>3, SumOfMultiples
  <2> QED BY <2>2, <2>4, <2>5 DEF s, t
<1>7. C = Identity(m)
  <2>1. C = [i \in 1 .. m |-> [j \in 1 .. m |-> C[i][j]]]
    BY <1>4 DEF IsProduct, Matrix
  <2>2. \A i, j \in 1 .. m : C[i][j] = IF i = j THEN 1 ELSE 0
    BY <1>4, <1>6 DEF IsProduct
  <2> QED BY <1>5, <2>1, <2>2
<1>8. D = Identity(m)
  <2>1. D = [i \in 1 .. m |-> [j \in 1 .. m |-> D[i][j]]]
    BY <1>4 DEF IsProduct, Matrix
  <2>2. \A i, j \in 1 .. m : D[i][j] = IF i = j THEN 1 ELSE 0
    BY <1>4, <1>6 DEF IsProduct
  <2> QED BY <1>5, <2>1, <2>2
<1> QED BY <1>7, <1>8 DEF A, B, C, D

\* One matrix undoes the other.
LEMMA MdsInverts ==
  ASSUME NEW s \in Column(BlockSize)
  PROVE  /\ matMul(mdsMat[BlockSize], matMul(mdsMatInverse[BlockSize], s)) = s
         /\ matMul(mdsMatInverse[BlockSize], matMul(mdsMat[BlockSize], s)) = s
<1> DEFINE m == BlockSize
<1> DEFINE A == mdsMat[m]
<1> DEFINE B == mdsMatInverse[m]
<1>1. m \in Nat \ {0} /\ A \in Matrix(m, m) /\ B \in Matrix(m, m) /\ s \in Column(m)
  BY SizesFit, MdsMatrices
<1>2. matMul(A, B) = Identity(m) /\ matMul(B, A) = Identity(m)
  BY SizesFit, CauchyInverts
<1> HIDE DEF m, A, B
<1>3. matMul(A, matMul(B, s)) = matMul(matMul(A, B), s)
  BY <1>1, MatMulAssociates
<1>4. matMul(B, matMul(A, s)) = matMul(matMul(B, A), s)
  BY <1>1, MatMulAssociates
<1>5. matMul(Identity(m), s) = s
  BY <1>1, IdentityLeaves
<1> QED BY <1>2, <1>3, <1>4, <1>5 DEF m, A, B

-----------------------------------------------------------------------------
\* The permutation.

\* A round of the permutation turns a column into a column.
LEMMA RoundIsColumn ==
  ASSUME NEW mode \in Mode, NEW m \in Size, NEW n \in Nat, NEW subkeys \in [0 .. n -> Column(m)],
         NEW r \in 0 .. n - 1, NEW s \in Column(m)
  PROVE  Round(mode, subkeys, r, s) \in Column(m)
<1> DEFINE e == Exponent(mode, r)
<1>1. m \in Nat \ {0} /\ m \in Nat /\ e \in Nat
  <2>1. r \in Nat
    OBVIOUS
  <2>2. e \in Nat
    BY <2>1, ExponentsAreNat
  <2>3. m \in Nat \ {0} /\ m \in Nat
    BY SizesFit
  <2> QED BY <2>2, <2>3
<1>2. Len(s) = m
  BY <1>1, RowsAndLength DEF Column, Matrix
<1> HIDE DEF e
<1> DEFINE t == pow(s, e)
<1>3. t \in Matrix(m, 1)
  BY <1>1, PowOfColumn DEF Column
<1> HIDE DEF t
<1> DEFINE u == matMul(mdsMat[m], t)
<1>4. IsProduct(u, mdsMat[m], t, m, m, 1)
  BY <1>1, <1>3, MdsMatrices, MatMulSums
<1>5. u \in Column(m) /\ subkeys[r + 1] \in Column(m)
  BY <1>4 DEF IsProduct, Column
<1>6. Round(mode, subkeys, r, s) = Elementwise(add, u, subkeys[r + 1])
  BY <1>2 DEF Round, u, t, e
<1> HIDE DEF u
<1>7. Elementwise(add, u, subkeys[r + 1]) \in Column(m)
  BY <1>1, <1>5, ElementwiseIs, Zenon
<1> QED BY <1>6, <1>7

\* The states of the permutation.
PermutationStates(f, mode, subkeys, n, start) ==
  /\ f[0] = Elementwise(add, start, subkeys[0])
  /\ \A r \in 0 .. n - 1 : f[r + 1] = Round(mode, subkeys, r, f[r])

\* rescuePermutation returns the column of the start and those after each round.
LEMMA PermutationRounds ==
  ASSUME NEW mode \in Mode, NEW m \in Size, NEW n \in Nat, NEW subkeys \in [0 .. n -> Column(m)],
         NEW start \in Column(m)
  PROVE  /\ rescuePermutation(mode, subkeys, n, start) \in [0 .. n -> Column(m)]
         /\ PermutationStates(rescuePermutation(mode, subkeys, n, start), mode, subkeys, n, start)
<1> DEFINE V == Column(m)
<1> DEFINE s0 == Elementwise(add, start, subkeys[0])
<1> DEFINE R(r, s) == Round(mode, subkeys, r, s)
<1> DEFINE G == [r \in Nat |-> [s \in V |-> IF r < n THEN R(r, s) ELSE s0]]
<1>1. s0 \in V
  <2>1. m \in Nat /\ subkeys[0] \in Column(m)
    BY SizesFit
  <2> QED BY <2>1, ElementwiseIs
<1>2. \A r \in 0 .. n - 1 : \A s \in V : R(r, s) \in V
  BY RoundIsColumn
<1> HIDE DEF V, s0, R
<1>3. G \in Steps(V)
  BY <1>1, <1>2 DEF Steps
<1>4. PICK h \in [0 .. n -> V] : Loops(h, n, s0, G)
  <2> HIDE DEF G
  <2> QED BY <1>1, <1>3, LoopExists
<1>5. h[0] = s0 /\ \A r \in 0 .. n - 1 : h[r + 1] = R(r, h[r])
  <2>1. ASSUME NEW r \in 0 .. n - 1 PROVE h[r + 1] = R(r, h[r])
    <3>1. r \in Nat /\ r < n /\ h[r] \in V
      OBVIOUS
    <3> QED BY <1>4, <3>1 DEF Loops
  <2> QED BY <1>4, <2>1 DEF Loops
<1> HIDE DEF G
<1> DEFINE List(r) == [q \in 1 .. r + 1 |-> h[q - 1]]
<1> DEFINE First == Of(LAMBDA s : << Elementwise(add, s, subkeys[0]) >>, start)
<1> DEFINE More(r, f) == Of(LAMBDA all : Append(all, Round(mode, subkeys, r - 1, all[r])), f)
<1> DEFINE Def(f) == [r \in 0 .. n |-> IF r = 0 THEN First ELSE More(r, f[r - 1])]
<1> DEFINE L == [r \in 0 .. n |-> List(r)]
<1>6. First = << s0 >>
  BY DEF Of, s0
<1>7. ASSUME NEW r \in 0 .. n, NEW all PROVE More(r, all) = Append(all, R(r - 1, all[r]))
  BY DEF Of, R
<1> HIDE DEF First, More
<1>8. << s0 >> = List(0)
  BY <1>5
<1>9. ASSUME NEW r \in 0 .. n, r # 0 PROVE Append(List(r - 1), R(r - 1, List(r - 1)[r])) = List(r)
  <2>1. r - 1 \in 0 .. n - 1 /\ (r - 1) + 1 = r /\ r \in 1 .. (r - 1) + 1 /\ List(r - 1)[r] = h[r - 1]
    BY <1>9
  <2>2. R(r - 1, List(r - 1)[r]) = h[r]
    BY <1>5, <2>1
  <2>3. List(r - 1) \in Seq(V) /\ Len(List(r - 1)) = r /\ h[r] \in V
    BY <1>9
  <2>4. Append(List(r - 1), h[r]) = List(r)
    BY <1>9, <2>1, <2>3
  <2> QED BY <2>2, <2>4
<1> HIDE DEF List
<1>10. Def(L) = L
  <2>1. ASSUME NEW r \in 0 .. n PROVE (IF r = 0 THEN First ELSE More(r, L[r - 1])) = List(r)
    <3>1. CASE r = 0
      BY <1>6, <1>8, <3>1
    <3>2. CASE r # 0
      <4>1. r - 1 \in 0 .. n
        BY <3>2
      <4>2. L[r - 1] = List(r - 1)
        BY <4>1
      <4> HIDE DEF L
      <4>3. More(r, L[r - 1]) = List(r)
        BY <1>7, <1>9, <3>2, <4>2
      <4> QED BY <3>2, <4>3
    <3> QED BY <3>1, <3>2
  <2>2. Def(L) = [r \in 0 .. n |-> List(r)]
    <3> HIDE DEF L
    <3> QED BY <2>1
  <2> QED BY <2>2
<1> DEFINE states == CHOOSE f : f = Def(f)
<1>11. states = Def(states)
  BY <1>10
<1>12. states[n] = L[n]
  <2> HIDE DEF states, L
  <2>4. \A r \in 0 .. n : /\ states[r] = IF r = 0 THEN First ELSE More(r, states[r - 1])
                         /\ L[r] = IF r = 0 THEN First ELSE More(r, L[r - 1])
    BY <1>10, <1>11
  <2>1. states[0] = L[0]
    BY <2>4
  <2>2. ASSUME NEW r \in 0 .. n - 1, states[r] = L[r] PROVE states[r + 1] = L[r + 1]
    <3>1. r + 1 \in 0 .. n /\ r + 1 # 0 /\ (r + 1) - 1 = r
      OBVIOUS
    <3> QED BY <2>2, <2>4, <3>1
  <2> HIDE DEF Def
  <2>3. \A r \in 0 .. n : states[r] = L[r]
    BY <2>1, <2>2, LoopsAgree
  <2> QED BY <2>3
<1>13. rescuePermutation(mode, subkeys, n, start) = [r \in 0 .. n |-> states[n][r + 1]]
  BY DEF rescuePermutation, First, More, Of
<1>14. [r \in 0 .. n |-> states[n][r + 1]] = h
  <2> HIDE DEF states, Def
  <2>1. \A r \in 0 .. n : states[n][r + 1] = h[r]
    BY <1>12 DEF List
  <2> QED BY <2>1
<1> HIDE DEF states
<1> QED BY <1>5, <1>13, <1>14 DEF PermutationStates, V, s0, R

-----------------------------------------------------------------------------
\* The inverse of the permutation.

\* A round of the inverse turns a column into a column.
LEMMA InverseRoundIs ==
  ASSUME NEW mode \in Mode, NEW m \in Size, NEW n \in Nat, NEW subkeys \in [0 .. n -> Column(m)],
         NEW r \in 0 .. n - 1, NEW s \in Column(m)
  PROVE  /\ InverseRound(mode, subkeys, n, r, s) \in Column(m)
         /\ InverseRound(mode, subkeys, n, r, s)
              = pow(matMul(mdsMatInverse[m], Elementwise(sub, s, subkeys[n - r])), Exponent(mode, r))
<1>1. m \in Nat \ {0} /\ m \in Nat /\ Exponent(mode, r) \in Nat
  <2>1. r \in Nat
    OBVIOUS
  <2>2. Exponent(mode, r) \in Nat
    BY <2>1, ExponentsAreNat
  <2>3. m \in Nat \ {0} /\ m \in Nat
    BY SizesFit
  <2> QED BY <2>2, <2>3
<1>2. Len(s) = m
  BY <1>1, RowsAndLength DEF Column, Matrix
<1> DEFINE k == subkeys[n - r]
<1>3. k \in Column(m)
  <2>1. n - r \in 0 .. n
    OBVIOUS
  <2> QED BY <2>1
<1> HIDE DEF k
<1> DEFINE t == Elementwise(sub, s, k)
<1>4. t \in Column(m)
  BY <1>1, <1>3, ElementwiseIs, Zenon
<1>5. t \in Matrix(m, 1)
  BY <1>4 DEF Column
<1> HIDE DEF t
<1> DEFINE u == matMul(mdsMatInverse[m], t)
<1>6. IsProduct(u, mdsMatInverse[m], t, m, m, 1)
  BY <1>1, <1>5, MdsMatrices, MatMulSums
<1>7. u \in Column(m)
  BY <1>6 DEF IsProduct, Column
<1> HIDE DEF u
<1>8. pow(u, Exponent(mode, r)) \in Column(m)
  BY <1>1, <1>7, PowOfColumn, Zenon
<1>9. InverseRound(mode, subkeys, n, r, s) = pow(u, Exponent(mode, r))
  BY <1>2 DEF InverseRound, u, t, k
<1> QED BY <1>8, <1>9 DEF u, t, k

\* The states of the inverse.
InverseStates(g, mode, subkeys, n, start) ==
  /\ g[0] = start
  /\ \A r \in 0 .. n - 1 : g[r + 1] = InverseRound(mode, subkeys, n, r, g[r])
  /\ rescuePermutationInverse(mode, subkeys, n, start) = Elementwise(sub, g[n], subkeys[0])

\* The inverse of the permutation goes through a column after each round.
LEMMA InversePermutationRounds ==
  ASSUME NEW mode \in Mode, NEW m \in Size, NEW n \in Nat, NEW subkeys \in [0 .. n -> Column(m)],
         NEW start \in Column(m)
  PROVE  \E g \in [0 .. n -> Column(m)] : InverseStates(g, mode, subkeys, n, start)
<1> DEFINE V == Column(m)
<1> DEFINE R(r, s) == InverseRound(mode, subkeys, n, r, s)
<1> DEFINE G == [r \in Nat |-> [s \in V |-> IF r < n THEN R(r, s) ELSE start]]
<1>1. start \in V
  OBVIOUS
<1>2. \A r \in 0 .. n - 1 : \A s \in V : R(r, s) \in V
  BY InverseRoundIs
<1> HIDE DEF V, R
<1>3. G \in Steps(V)
  BY <1>1, <1>2 DEF Steps
<1>4. PICK h \in [0 .. n -> V] : Loops(h, n, start, G)
  <2> HIDE DEF G
  <2> QED BY <1>1, <1>3, LoopExists
<1>5. h[0] = start /\ \A r \in 0 .. n - 1 : h[r + 1] = R(r, h[r])
  <2>1. ASSUME NEW r \in 0 .. n - 1 PROVE h[r + 1] = R(r, h[r])
    <3>1. r \in Nat /\ r < n /\ h[r] \in V
      OBVIOUS
    <3> QED BY <1>4, <3>1 DEF Loops
  <2> QED BY <1>4, <2>1 DEF Loops
<1> HIDE DEF G
<1> DEFINE More(r, f) == Of(LAMBDA s : InverseRound(mode, subkeys, n, r - 1, s), f)
<1> DEFINE Def(f) == [r \in 0 .. n |-> IF r = 0 THEN start ELSE More(r, f[r - 1])]
<1> DEFINE states == CHOOSE f : f = Def(f)
<1>6. ASSUME NEW r \in 0 .. n, NEW s PROVE More(r, s) = R(r - 1, s)
  BY DEF Of, R
<1>7. rescuePermutationInverse(mode, subkeys, n, start) = Elementwise(sub, states[n], subkeys[0])
  BY DEF rescuePermutationInverse, Of
<1> HIDE DEF More
<1>8. h = Def(h)
  <2>1. ASSUME NEW r \in 0 .. n PROVE h[r] = IF r = 0 THEN start ELSE More(r, h[r - 1])
    <3>1. CASE r # 0
      <4>1. r - 1 \in 0 .. n - 1 /\ (r - 1) + 1 = r
        BY <3>1
      <4> QED BY <1>5, <1>6, <3>1, <4>1
    <3> QED BY <1>5, <3>1
  <2> QED BY <2>1
<1>9. states = Def(states)
  BY <1>8
<1> HIDE DEF states
<1>10. ASSUME NEW r \in 0 .. n - 1, states[r] = h[r] PROVE states[r + 1] = h[r + 1]
  <2>1. r + 1 \in 0 .. n /\ r + 1 # 0 /\ (r + 1) - 1 = r
    OBVIOUS
  <2>2. states[r + 1] = More(r + 1, states[r])
    BY <1>9, <2>1
  <2> QED BY <1>5, <1>6, <1>10, <2>1, <2>2
<1>11. states[0] = h[0]
  BY <1>5, <1>9
<1> HIDE DEF Def
<1>12. states[n] = h[n]
  <2>1. \A r \in 0 .. n : states[r] = h[r]
    BY <1>10, <1>11, LoopsAgree
  <2> QED BY <2>1
<1> QED BY <1>5, <1>7, <1>12 DEF InverseStates, V, R

\* With an even number of rounds, the exponent of a round undoes that of the round
\* of the inverse in its place.
LEMMA ExponentsInvert ==
  ASSUME NEW mode \in Mode, NEW n \in Nat, n % 2 = 0, NEW r \in 0 .. n - 1, NEW x \in Element
  PROVE  /\ Pow(Pow(x, Exponent(mode, n - 1 - r)), Exponent(mode, r)) = x
         /\ Pow(Pow(x, Exponent(mode, r)), Exponent(mode, n - 1 - r)) = x
<1>1. (n - 1 - r) % 2 = 0 <=> r % 2 # 0
  OBVIOUS
<1>2. CASE r % 2 = 0
  <2>1. (n - 1 - r) % 2 # 0
    BY <1>1, <1>2
  <2> QED BY <1>2, <2>1, PowersInvert DEF Mode, Exponent, exponentForEven, exponentForOdd
<1>3. CASE r % 2 # 0
  <2>1. (n - 1 - r) % 2 = 0
    BY <1>1, <1>3
  <2> QED BY <1>3, <2>1, PowersInvert DEF Mode, Exponent, exponentForEven, exponentForOdd
<1> QED BY <1>2, <1>3

\* A round of the inverse undoes the round in its place, and is undone by it.
LEMMA RoundInverts ==
  ASSUME NEW mode \in Mode, NEW n \in Nat, n % 2 = 0, NEW subkeys \in [0 .. n -> Column(BlockSize)],
         NEW r \in 0 .. n - 1, NEW s \in Column(BlockSize)
  PROVE  /\ InverseRound(mode, subkeys, n, r, Round(mode, subkeys, n - 1 - r, s)) = s
         /\ Round(mode, subkeys, n - 1 - r, InverseRound(mode, subkeys, n, r, s)) = s
<1> DEFINE m == BlockSize
<1> DEFINE M == mdsMat[m]
<1> DEFINE N == mdsMatInverse[m]
<1> DEFINE q == n - 1 - r
<1> DEFINE k == subkeys[n - r]
<1> DEFINE d == Exponent(mode, q)
<1> DEFINE e == Exponent(mode, r)
<1>1. m \in Size /\ m \in Nat \ {0} /\ m \in Nat
  BY SizesFit
<1>2. q \in 0 .. n - 1 /\ q + 1 = n - r /\ n - r \in 0 .. n /\ q \in Nat /\ r \in Nat
  OBVIOUS
<1>3. k \in Column(m) /\ subkeys \in [0 .. n -> Column(m)] /\ s \in Column(m)
  BY <1>2
<1>4. d \in Nat /\ e \in Nat
  BY <1>2, ExponentsAreNat
<1>5. ASSUME NEW t \in Column(m) PROVE pow(pow(t, d), e) = t /\ pow(pow(t, e), d) = t
  <2>1. \A x \in Element : Pow(Pow(x, d), e) = x /\ Pow(Pow(x, e), d) = x
    BY ExponentsInvert
  <2> HIDE DEF m, d, e
  <2>2. ASSUME NEW a \in Nat, NEW b \in Nat, \A x \in Element : Pow(Pow(x, a), b) = x
        PROVE  pow(pow(t, a), b) = t
    <3>1. /\ pow(t, a) \in Column(m)
          /\ pow(t, a) = [i \in 1 .. m |-> [j \in 1 .. 1 |-> Pow(t[i][j], a)]]
      BY <1>1, PowOfColumn
    <3> DEFINE u == pow(t, a)
    <3>2. \A i \in 1 .. m : u[i][1] = Pow(t[i][1], a)
      BY <3>1
    <3>3. u \in Column(m)
      BY <3>1
    <3> HIDE DEF u
    <3>4. /\ pow(u, b) \in Column(m)
          /\ pow(u, b) = [i \in 1 .. m |-> [j \in 1 .. 1 |-> Pow(u[i][j], b)]]
      BY <1>1, <3>3, PowOfColumn
    <3>5. ASSUME NEW i \in 1 .. m PROVE pow(u, b)[i][1] = t[i][1]
      <4>1. t[i][1] \in Element
        BY <1>1, ColumnIs
      <4>2. pow(u, b)[i][1] = Pow(u[i][1], b)
        BY <3>4
      <4> QED BY <2>2, <3>2, <4>1, <4>2
    <3>6. pow(u, b) = t
      BY <1>1, <3>4, <3>5, ColumnsAreEqual
    <3> QED BY <3>6 DEF u
  <2> QED BY <1>4, <2>1, <2>2
<1>6. ASSUME NEW t \in Column(m)
      PROVE  /\ Round(mode, subkeys, q, t) \in Column(m)
             /\ Round(mode, subkeys, q, t) = Elementwise(add, matMul(M, pow(t, d)), k)
             /\ InverseRound(mode, subkeys, n, r, t) \in Column(m)
             /\ InverseRound(mode, subkeys, n, r, t) = pow(matMul(N, Elementwise(sub, t, k)), e)
  <2>1. Round(mode, subkeys, q, t) \in Column(m)
    BY <1>1, <1>2, <1>3, RoundIsColumn
  <2>2. Len(t) = m
    BY <1>1, RowsAndLength DEF Column, Matrix
  <2>3. Round(mode, subkeys, q, t) = Elementwise(add, matMul(M, pow(t, d)), k)
    BY <1>2, <2>2 DEF Round
  <2> QED BY <1>1, <1>3, <2>1, <2>3, InverseRoundIs
<1>7. ASSUME NEW t \in Column(m)
      PROVE  /\ pow(t, d) \in Column(m) /\ pow(t, e) \in Column(m)
             /\ matMul(M, t) \in Column(m) /\ matMul(N, t) \in Column(m)
             /\ Elementwise(add, t, k) \in Column(m) /\ Elementwise(sub, t, k) \in Column(m)
  <2>1. t \in Matrix(m, 1)
    BY DEF Column
  <2>2. IsProduct(matMul(M, t), M, t, m, m, 1) /\ IsProduct(matMul(N, t), N, t, m, m, 1)
    <3> HIDE DEF m
    <3> QED BY <1>1, <2>1, MdsMatrices, MatMulSums
  <2>3. matMul(M, t) \in Column(m) /\ matMul(N, t) \in Column(m)
    BY <2>2 DEF IsProduct, Column
  <2> HIDE DEF m, k, d, e
  <2>4. pow(t, d) \in Column(m) /\ pow(t, e) \in Column(m)
    BY <1>1, <1>4, PowOfColumn, Zenon
  <2>5. Elementwise(add, t, k) \in Column(m) /\ Elementwise(sub, t, k) \in Column(m)
    BY <1>1, <1>3, ElementwiseIs, Zenon
  <2> QED BY <2>3, <2>4, <2>5
<1>8. ASSUME NEW t \in Column(m)
      PROVE  /\ matMul(M, matMul(N, t)) = t /\ matMul(N, matMul(M, t)) = t
             /\ Elementwise(add, Elementwise(sub, t, k), k) = t
             /\ Elementwise(sub, Elementwise(add, t, k), k) = t
  <2>1. matMul(M, matMul(N, t)) = t /\ matMul(N, matMul(M, t)) = t
    BY MdsInverts
  <2> HIDE DEF m, k
  <2>2. Elementwise(add, Elementwise(sub, t, k), k) = t /\ Elementwise(sub, Elementwise(add, t, k), k) = t
    BY <1>1, <1>3, ElementwiseInverts
  <2> QED BY <2>1, <2>2
<1> HIDE DEF m, M, N, k, d, e
<1>9. InverseRound(mode, subkeys, n, r, Round(mode, subkeys, q, s)) = s
  <2> DEFINE a == pow(s, d)
  <2> DEFINE b == matMul(M, a)
  <2> DEFINE c == Elementwise(add, b, k)
  <2>1. a \in Column(m)
    BY <1>3, <1>7
  <2>2. pow(a, e) = s
    BY <1>3, <1>5
  <2>3. Round(mode, subkeys, q, s) = c
    BY <1>3, <1>6
  <2> HIDE DEF a
  <2>4. b \in Column(m) /\ matMul(N, b) = a
    BY <1>7, <1>8, <2>1
  <2> HIDE DEF b
  <2>5. c \in Column(m) /\ Elementwise(sub, c, k) = b
    BY <1>7, <1>8, <2>4
  <2> HIDE DEF c
  <2>6. InverseRound(mode, subkeys, n, r, c) = pow(matMul(N, Elementwise(sub, c, k)), e)
    BY <1>6, <2>5
  <2> QED BY <2>2, <2>3, <2>4, <2>5, <2>6
<1>10. Round(mode, subkeys, q, InverseRound(mode, subkeys, n, r, s)) = s
  <2> DEFINE a == Elementwise(sub, s, k)
  <2> DEFINE b == matMul(N, a)
  <2> DEFINE c == pow(b, e)
  <2>1. a \in Column(m) /\ Elementwise(add, a, k) = s
    BY <1>3, <1>7, <1>8
  <2>2. InverseRound(mode, subkeys, n, r, s) = c
    BY <1>3, <1>6
  <2> HIDE DEF a
  <2>3. b \in Column(m) /\ matMul(M, b) = a
    BY <1>7, <1>8, <2>1
  <2> HIDE DEF b
  <2>4. c \in Column(m) /\ pow(c, d) = b
    BY <1>5, <1>7, <2>3
  <2> HIDE DEF c
  <2>5. Round(mode, subkeys, q, c) = Elementwise(add, matMul(M, pow(c, d)), k)
    BY <1>6, <2>4
  <2> QED BY <2>1, <2>2, <2>3, <2>4, <2>5
<1> QED BY <1>9, <1>10

\* The permutation and its inverse undo each other.
LEMMA PermutationInverts ==
  ASSUME NEW mode \in Mode, NEW n \in Nat, n % 2 = 0, NEW subkeys \in [0 .. n -> Column(BlockSize)],
         NEW s \in Column(BlockSize)
  PROVE  /\ rescuePermutationInverse(mode, subkeys, n, rescuePermutation(mode, subkeys, n, s)[n]) = s
         /\ rescuePermutation(mode, subkeys, n, rescuePermutationInverse(mode, subkeys, n, s))[n] = s
<1> DEFINE m == BlockSize
<1> DEFINE k == subkeys[0]
<1>1. m \in Size /\ m \in Nat /\ subkeys \in [0 .. n -> Column(m)] /\ s \in Column(m) /\ k \in Column(m)
  BY SizesFit
<1>2. ASSUME NEW t \in Column(m), NEW q \in 0 .. n - 1
      PROVE  /\ InverseRound(mode, subkeys, n, n - 1 - q, Round(mode, subkeys, q, t)) = t
             /\ Round(mode, subkeys, q, InverseRound(mode, subkeys, n, n - 1 - q, t)) = t
  <2>1. n - 1 - q \in 0 .. n - 1 /\ n - 1 - (n - 1 - q) = q
    OBVIOUS
  <2> QED BY <2>1, RoundInverts
<1> HIDE DEF m, k
<1>3. ASSUME NEW f \in [0 .. n -> Column(m)], NEW g \in [0 .. n -> Column(m)],
             \A r \in 0 .. n - 1 : f[r + 1] = Round(mode, subkeys, r, f[r]),
             \A r \in 0 .. n - 1 : g[r + 1] = InverseRound(mode, subkeys, n, r, g[r])
      PROVE  /\ g[0] = f[n] => g[n] = f[0]
             /\ f[0] = g[n] => f[n] = g[0]
  <2>1. ASSUME g[0] = f[n] PROVE g[n] = f[0]
    <3> DEFINE T == {r \in Nat : r <= n => g[r] = f[n - r]}
    <3>1. 0 \in T
      BY <2>1
    <3>2. ASSUME NEW r \in Nat, r \in T PROVE r + 1 \in T
      <4> SUFFICES ASSUME r + 1 <= n PROVE g[r + 1] = f[n - (r + 1)]
        OBVIOUS
      <4> DEFINE q == n - 1 - r
      <4>1. r \in 0 .. n - 1 /\ q \in 0 .. n - 1 /\ n - 1 - q = r /\ q + 1 = n - r /\ q = n - (r + 1)
        OBVIOUS
      <4>2. g[r] = f[n - r]
        BY <3>2
      <4> HIDE DEF q
      <4>3. f[q] \in Column(m) /\ f[q + 1] = Round(mode, subkeys, q, f[q])
        BY <1>3, <4>1
      <4>4. g[r + 1] = InverseRound(mode, subkeys, n, r, f[q + 1])
        BY <1>3, <4>1, <4>2
      <4> QED BY <1>2, <4>1, <4>3, <4>4
    <3> HIDE DEF T
    <3>3. Nat \subseteq T
      BY <3>1, <3>2, InductionOfNat
    <3>4. n - n = 0
      OBVIOUS
    <3> QED BY <3>3, <3>4 DEF T
  <2>2. ASSUME f[0] = g[n] PROVE f[n] = g[0]
    <3> DEFINE T == {q \in Nat : q <= n => f[q] = g[n - q]}
    <3>1. 0 \in T
      BY <2>2
    <3>2. ASSUME NEW q \in Nat, q \in T PROVE q + 1 \in T
      <4> SUFFICES ASSUME q + 1 <= n PROVE f[q + 1] = g[n - (q + 1)]
        OBVIOUS
      <4> DEFINE r == n - 1 - q
      <4>1. r \in 0 .. n - 1 /\ q \in 0 .. n - 1 /\ r + 1 = n - q /\ r = n - (q + 1)
        OBVIOUS
      <4>2. f[q] = g[n - q]
        BY <3>2
      <4>3. g[r] \in Column(m) /\ g[r + 1] = InverseRound(mode, subkeys, n, r, g[r])
        BY <1>3, <4>1
      <4>4. f[q + 1] = Round(mode, subkeys, q, g[r + 1])
        BY <1>3, <4>1, <4>2
      <4>5. Round(mode, subkeys, q, InverseRound(mode, subkeys, n, r, g[r])) = g[r]
        BY <1>2, <4>1, <4>3
      <4> HIDE DEF r
      <4> QED BY <4>1, <4>3, <4>4, <4>5
    <3> HIDE DEF T
    <3>3. Nat \subseteq T
      BY <3>1, <3>2, InductionOfNat
    <3>4. n - n = 0
      OBVIOUS
    <3> QED BY <3>3, <3>4 DEF T
  <2> QED BY <2>1, <2>2
<1>4. rescuePermutationInverse(mode, subkeys, n, rescuePermutation(mode, subkeys, n, s)[n]) = s
  <2> DEFINE f == rescuePermutation(mode, subkeys, n, s)
  <2>1. f \in [0 .. n -> Column(m)] /\ PermutationStates(f, mode, subkeys, n, s)
    BY <1>1, PermutationRounds
  <2> HIDE DEF f
  <2>2. f[n] \in Column(m)
    BY <2>1
  <2>3. PICK g \in [0 .. n -> Column(m)] : InverseStates(g, mode, subkeys, n, f[n])
    BY <1>1, <2>2, InversePermutationRounds
  <2>4. g[n] = f[0]
    BY <1>3, <2>1, <2>3 DEF PermutationStates, InverseStates
  <2>5. Elementwise(sub, Elementwise(add, s, k), k) = s
    BY <1>1, ElementwiseInverts
  <2> QED BY <2>1, <2>3, <2>4, <2>5 DEF PermutationStates, InverseStates, f, k
<1>5. rescuePermutation(mode, subkeys, n, rescuePermutationInverse(mode, subkeys, n, s))[n] = s
  <2> DEFINE t == rescuePermutationInverse(mode, subkeys, n, s)
  <2>1. PICK g \in [0 .. n -> Column(m)] : InverseStates(g, mode, subkeys, n, s)
    BY <1>1, InversePermutationRounds
  <2>2. t = Elementwise(sub, g[n], k) /\ g[n] \in Column(m)
    BY <2>1 DEF InverseStates, k
  <2> HIDE DEF t
  <2>3. t \in Column(m)
    BY <1>1, <2>2, ElementwiseIs, Zenon
  <2> DEFINE f == rescuePermutation(mode, subkeys, n, t)
  <2>4. f \in [0 .. n -> Column(m)] /\ PermutationStates(f, mode, subkeys, n, t)
    BY <1>1, <2>3, PermutationRounds
  <2> HIDE DEF f
  <2>5. f[0] = g[n]
    <3>1. Elementwise(add, Elementwise(sub, g[n], k), k) = g[n]
      BY <1>1, <2>2, ElementwiseInverts
    <3> QED BY <2>2, <2>4, <3>1 DEF PermutationStates, k
  <2>6. f[n] = g[0]
    BY <1>3, <2>1, <2>4, <2>5 DEF PermutationStates, InverseStates
  <2> QED BY <2>1, <2>6 DEF InverseStates, f, t
<1> QED BY <1>4, <1>5

-----------------------------------------------------------------------------
\* The key schedule.

\* A vector of integers becomes a column of elements.
LEMMA ToVecIsColumn ==
  ASSUME NEW m \in Nat, NEW v \in [1 .. m -> Int]
  PROVE  toVec(v) \in Column(m)
<1>1. \A i \in 1 .. m : (v[i]) % Order \in Element
  BY RemaindersFirst
<1>2. \A x \in Element : << x >> \in [1 .. 1 -> Element]
  OBVIOUS
<1> QED BY <1>1, <1>2 DEF toVec, Column, Matrix

\* The numbers of rounds of both permutations are even.
LEMMA RoundsAreNat ==
  /\ Rounds["cipher"] \in Nat /\ Rounds["hash"] \in Nat
  /\ 2 * Rounds["cipher"] \in Nat /\ 2 * Rounds["hash"] \in Nat
  /\ (2 * Rounds["cipher"]) % 2 = 0
<1>1. Rounds["cipher"] \in Nat /\ Rounds["hash"] \in Nat
  BY CipherAssumption
<1> DEFINE r == Rounds["cipher"]
<1>2. r \in Nat
  BY <1>1
<1> HIDE DEF r
<1>3. (2 * r) % 2 = 0
  BY <1>2
<1> QED BY <1>1, <1>3 DEF r

\* What is sampled within the streams is made of elements.
LEMMA SampledIsMatrix ==
  ASSUME NEW mode \in Mode, NEW at \in Nat, NEW nrows \in Nat, NEW ncols \in Nat,
         at + nrows * ncols <= StreamLength
  PROVE  Sampled(mode, at, nrows, ncols) \in Matrix(nrows, ncols)
<1>1. StreamLength \in Nat
  <2>1. \A a, b, c, d \in Nat : (a + 1) * (b * b) + 2 * b + 2 * (c * d) \in Nat
    OBVIOUS
  <2>2. Rate + Capacity \in Nat /\ BlockSize \in Nat
    BY CipherAssumption
  <2> QED BY <2>1, <2>2, RoundsAreNat DEF StreamLength, MaxSamples
<1>2. ASSUME NEW i \in 1 .. nrows, NEW j \in 1 .. ncols
      PROVE  Xof(mode, at + (i - 1) * ncols + j - 1) % Order \in Element
  <2> DEFINE k == (i - 1) * ncols
  <2>1. k \in Nat /\ k + ncols <= nrows * ncols /\ nrows * ncols \in Nat
    <3>1. \A a, b, c \in Nat : a + 1 <= b => a * c + c <= b * c
      <4>1. \A a, c, d \in Nat : (a + 1 + d) * c = a * c + c + d * c /\ d * c \in Nat /\ a * c \in Nat
        OBVIOUS
      <4>2. ASSUME NEW a \in Nat, NEW b \in Nat, NEW c \in Nat, a + 1 <= b PROVE a * c + c <= b * c
        <5> DEFINE d == b - (a + 1)
        <5>1. d \in Nat /\ b = a + 1 + d
          BY <4>2
        <5> HIDE DEF d
        <5>2. b * c = a * c + c + d * c /\ d * c \in Nat /\ a * c \in Nat
          BY <4>1, <5>1
        <5> QED BY <5>2
      <4> QED BY <4>2
    <3>2. i - 1 \in Nat /\ (i - 1) + 1 <= nrows
      OBVIOUS
    <3>3. \A a, b \in Nat : a * b \in Nat
      OBVIOUS
    <3> QED BY <3>1, <3>2, <3>3
  <2> HIDE DEF k
  <2>2. at + k + j - 1 \in 0 .. StreamLength
    BY <1>1, <2>1
  <2>3. Xof(mode, at + k + j - 1) \in Nat
    BY <2>2, CipherAssumption DEF Mode
  <2> QED BY <2>3, RemaindersFirst DEF k
<1> QED BY <1>2 DEF Sampled, Matrix

\* What the key schedule reads lies within the bound on the streams.
LEMMA StreamsAreLongEnough ==
  LET m == BlockSize
      l == 2 * Rounds["hash"]
      h == Rate + Capacity
  IN  /\ \A k \in 0 .. MaxSamples : k * (m * m) + 2 * m \in Nat /\ k * (m * m) + 2 * m + m * m <= StreamLength
      /\ m * m \in Nat /\ m * m + 2 * m <= StreamLength
      /\ \A r \in 1 .. l : (r - 1) * h \in Nat /\ (r - 1) * h + h <= StreamLength
<1> DEFINE m == BlockSize
<1> DEFINE c == Rounds["hash"]
<1> DEFINE h == Rate + Capacity
<1> DEFINE mm == m * m
<1> DEFINE ch == c * h
<1>1. m \in Nat /\ c \in Nat /\ h \in Nat
  BY CipherAssumption, RoundsAreNat
<1>2. StreamLength = (MaxSamples + 1) * mm + 2 * m + 2 * ch
  BY DEF StreamLength
<1> HIDE DEF m, c, h
<1>3. \A a, b \in Nat : a * b \in Nat
  OBVIOUS
<1>4. mm \in Nat /\ ch \in Nat
  BY <1>1, <1>3
<1>5. ASSUME NEW r \in 1 .. 2 * c PROVE (r - 1) * h \in Nat /\ (r - 1) * h + h <= 2 * ch
  <2> DEFINE q == r - 1
  <2> DEFINE d == 2 * c - r
  <2>1. q \in Nat /\ d \in Nat /\ 2 * c = q + 1 + d
    BY <1>1
  <2> HIDE DEF q, d
  <2>2. q * h \in Nat /\ d * h \in Nat
    BY <1>1, <1>3, <2>1
  <2>3. 2 * ch = q * h + h + d * h
    <3>1. \A a, b, e, f \in Nat : 2 * a = b + 1 + e => 2 * (a * f) = b * f + f + e * f
      <4>1. \A a, b, e, f \in Nat : 2 * (a * f) = (2 * a) * f /\ (b + 1 + e) * f = b * f + f + e * f
        OBVIOUS
      <4> QED BY <4>1
    <3> QED BY <1>1, <2>1, <3>1
  <2> HIDE DEF ch
  <2> QED BY <1>1, <1>4, <2>2, <2>3 DEF q
<1>6. MaxSamples = 20
  BY DEF MaxSamples
<1> HIDE DEF mm, ch
<1>7. ASSUME NEW k \in 0 .. MaxSamples
      PROVE  k * mm + 2 * m \in Nat /\ k * mm + 2 * m + mm <= StreamLength
  <2>1. k * mm \in Nat /\ k * mm + mm <= (MaxSamples + 1) * mm
    <3> DEFINE d == MaxSamples - k
    <3>1. d \in Nat /\ k \in Nat /\ MaxSamples = k + d
      BY <1>6
    <3> HIDE DEF d
    <3>2. \A a, b, e \in Nat : (a + e + 1) * b = a * b + b + e * b /\ e * b \in Nat /\ a * b \in Nat
      OBVIOUS
    <3>3. (k + d + 1) * mm = k * mm + mm + d * mm /\ d * mm \in Nat /\ k * mm \in Nat
      BY <1>4, <3>1, <3>2
    <3> QED BY <1>4, <3>1, <3>3
  <2>2. (MaxSamples + 1) * mm \in Nat
    BY <1>4, <1>6
  <2> QED BY <1>1, <1>2, <1>4, <2>1, <2>2
<1>8. mm + 2 * m <= StreamLength
  BY <1>1, <1>2, <1>4, <1>6
<1>9. \A r \in 1 .. 2 * c : (r - 1) * h \in Nat /\ (r - 1) * h + h <= StreamLength
  <2>1. 2 * ch <= StreamLength /\ StreamLength \in Nat
    BY <1>1, <1>2, <1>4, <1>6
  <2> QED BY <1>1, <1>4, <1>5, <2>1
<1> QED BY <1>4, <1>7, <1>8, <1>9 DEF m, c, h, mm

\* The matrix of the round constants is the first one sampled that is invertible.
LEMMA ConstantMatExists ==
  RoundConstantMat \in Matrix(BlockSize, BlockSize) /\ det(RoundConstantMat) # 0
<1> DEFINE m == BlockSize
<1> DEFINE T == {k \in 0 .. MaxSamples : det(Attempt(k)) # 0}
<1>1. T \subseteq Nat /\ T # {}
  BY SampleAssumption
<1>2. PICK first \in T : \A j \in T : first <= j
  <2> HIDE DEF T
  <2> QED BY <1>1, LeastOfNat
<1>3. first \in 0 .. MaxSamples /\ det(Attempt(first)) # 0 /\ \A l \in 0 .. first - 1 : det(Attempt(l)) = 0
  <2>1. first \in 0 .. MaxSamples /\ det(Attempt(first)) # 0
    OBVIOUS
  <2>2. ASSUME NEW l \in 0 .. first - 1 PROVE det(Attempt(l)) = 0
    <3>1. l \in 0 .. MaxSamples /\ ~(first <= l)
      BY <2>1 DEF MaxSamples
    <3>2. l \notin T
      BY <1>2, <3>1
    <3> QED BY <3>1, <3>2
  <2> QED BY <2>1, <2>2
<1>4. PICK k \in 0 .. MaxSamples : RoundConstantMat = Attempt(k) /\ det(Attempt(k)) # 0
  BY <1>3 DEF RoundConstantMat
<1> DEFINE at == IF k = 0 THEN 0 ELSE k * (m * m) + 2 * m
<1>5. at \in Nat /\ at + m * m <= StreamLength /\ m \in Nat
  <2>1. m \in Nat /\ k * (m * m) + 2 * m \in Nat /\ m * m \in Nat
    BY StreamsAreLongEnough, SizesFit
  <2>2. k * (m * m) + 2 * m + m * m <= StreamLength /\ m * m + 2 * m <= StreamLength
    BY StreamsAreLongEnough
  <2>3. CASE k = 0
    <3> DEFINE mm == m * m
    <3>1. m \in Nat /\ mm \in Nat /\ mm + 2 * m <= StreamLength
      BY <2>1, <2>2
    <3>2. StreamLength \in Int
      BY CipherAssumption, RoundsAreNat DEF StreamLength, MaxSamples
    <3> HIDE DEF m, mm
    <3>3. 0 + mm <= StreamLength
      BY <3>1, <3>2
    <3> QED BY <2>1, <2>3, <3>3 DEF mm
  <2>4. CASE k # 0
    BY <2>1, <2>2, <2>4
  <2> QED BY <2>3, <2>4
<1>6. Sampled("cipher", at, m, m) \in Matrix(m, m)
  <2> HIDE DEF m, at
  <2> QED BY <1>5, SampledIsMatrix DEF Mode
<1>7. Attempt(k) = Sampled("cipher", at, m, m)
  BY DEF Attempt
<1> QED BY <1>4, <1>6, <1>7

\* The round constants.
LEMMA CipherConstantsAreColumns ==
  cipherConstants \in [0 .. 2 * Rounds["cipher"] -> Column(BlockSize)]
<1> DEFINE m == BlockSize
<1> DEFINE n == 2 * Rounds["cipher"]
<1> DEFINE mat == RoundConstantMat
<1> DEFINE initial == Sampled("cipher", m * m, m, 1)
<1> DEFINE affine == Sampled("cipher", m * m + m, m, 1)
<1> DEFINE V == Column(m)
<1> DEFINE R(c) == Elementwise(add, matMul(mat, c), affine)
<1> DEFINE More(f) == Of(LAMBDA c : Elementwise(add, matMul(mat, c), affine), f)
<1> DEFINE Def(f) == [r \in 0 .. n |-> IF r = 0 THEN initial ELSE More(f[r - 1])]
<1> DEFINE constants == CHOOSE f : f = Def(f)
<1>1. m \in Nat \ {0} /\ m \in Nat /\ n \in Nat /\ mat \in Matrix(m, m)
  BY SizesFit, RoundsAreNat, ConstantMatExists
<1>2. initial \in V /\ affine \in V
  <2> DEFINE mm == m * m
  <2>1. mm \in Nat /\ mm + 2 * m <= StreamLength
    BY StreamsAreLongEnough
  <2>2. StreamLength \in Int
    BY CipherAssumption, RoundsAreNat DEF StreamLength, MaxSamples
  <2> HIDE DEF mm, m
  <2>3. mm + m \in Nat /\ mm + m * 1 <= StreamLength /\ (mm + m) + m * 1 <= StreamLength
    BY <1>1, <2>1, <2>2
  <2>4. Sampled("cipher", mm, m, 1) \in Matrix(m, 1) /\ Sampled("cipher", mm + m, m, 1) \in Matrix(m, 1)
    <3>1. 1 \in Nat /\ "cipher" \in Mode
      BY DEF Mode
    <3> QED BY <1>1, <2>1, <2>3, <3>1, SampledIsMatrix
  <2> QED BY <2>4 DEF mm, Column
<1>3. ASSUME NEW c \in V PROVE R(c) \in V
  <2> HIDE DEF m, mat, affine
  <2> DEFINE u == matMul(mat, c)
  <2>1. c \in Matrix(m, 1)
    BY DEF Column
  <2>2. IsProduct(u, mat, c, m, m, 1)
    BY <1>1, <2>1, MatMulSums
  <2>3. u \in Column(m)
    BY <2>2 DEF IsProduct, Column
  <2> HIDE DEF u
  <2>4. Elementwise(add, u, affine) \in Column(m)
    BY <1>1, <1>2, <2>3, ElementwiseIs, Zenon
  <2> QED BY <2>4 DEF u
<1>4. \A f : More(f) = R(f)
  BY DEF Of
<1>5. cipherConstants = [r \in 0 .. n |-> constants[r]]
  BY DEF cipherConstants
<1> HIDE DEF m, mat, initial, affine, V, R, More
<1> DEFINE G == [r \in Nat |-> [c \in V |-> R(c)]]
<1>6. G \in Steps(V)
  BY <1>3 DEF Steps
<1>7. PICK h \in [0 .. n -> V] : Loops(h, n, initial, G)
  <2> HIDE DEF G, n
  <2> QED BY <1>1, <1>2, <1>6, LoopExists
<1> HIDE DEF n
<1>8. h[0] = initial /\ \A r \in 0 .. n - 1 : h[r + 1] = R(h[r])
  <2>1. ASSUME NEW r \in 0 .. n - 1 PROVE h[r + 1] = R(h[r])
    <3>1. r \in Nat /\ h[r] \in V
      BY <1>1
    <3> QED BY <1>7, <3>1 DEF Loops
  <2> QED BY <1>7, <2>1 DEF Loops
<1> HIDE DEF G
<1>9. h = Def(h)
  <2>1. ASSUME NEW r \in 0 .. n PROVE h[r] = IF r = 0 THEN initial ELSE More(h[r - 1])
    <3>1. CASE r # 0
      <4>1. r - 1 \in 0 .. n - 1 /\ (r - 1) + 1 = r
        BY <1>1, <3>1
      <4> QED BY <1>4, <1>8, <3>1, <4>1
    <3> QED BY <1>8, <3>1
  <2> QED BY <2>1
<1>10. constants = Def(constants)
  BY <1>9
<1> HIDE DEF constants
<1>11. constants[0] \in V
  BY <1>1, <1>2, <1>10
<1>12. ASSUME NEW r \in 0 .. n - 1, constants[r] \in V PROVE constants[r + 1] \in V
  <2>1. r + 1 \in 0 .. n /\ r + 1 # 0 /\ (r + 1) - 1 = r
    BY <1>1
  <2>2. constants[r + 1] = More(constants[r])
    BY <1>10, <2>1
  <2> QED BY <1>3, <1>4, <1>12, <2>2
<1> HIDE DEF Def
<1>13. \A r \in 0 .. n : constants[r] \in V
  BY <1>1, <1>11, <1>12, LoopStays
<1> QED BY <1>5, <1>13 DEF n, V, m

\* The round constants of the hash are columns.
LEMMA HashConstantsAreColumns ==
  hashConstants \in [0 .. 2 * Rounds["hash"] -> Column(Rate + Capacity)]
<1> DEFINE m == Rate + Capacity
<1> DEFINE n == 2 * Rounds["hash"]
<1>1. m \in Nat /\ n \in Nat /\ 1 \in Nat /\ "hash" \in Mode
  BY SizesFit, RoundsAreNat DEF Mode
<1>2. [i \in 1 .. m |-> <<0>>] \in Column(m)
  <2>1. <<0>> \in [1 .. 1 -> Element]
    BY FieldClosed
  <2> QED BY <2>1 DEF Column, Matrix
<1>3. ASSUME NEW r \in 1 .. n PROVE Sampled("hash", (r - 1) * m, m, 1) \in Column(m)
  <2> DEFINE at == (r - 1) * m
  <2>1. at \in Nat /\ at + m <= StreamLength
    BY StreamsAreLongEnough
  <2>2. m * 1 = m
    BY <1>1
  <2> HIDE DEF m, n, at
  <2>3. Sampled("hash", at, m, 1) \in Matrix(m, 1)
    BY <1>1, <2>1, <2>2, SampledIsMatrix
  <2> QED BY <2>3 DEF at, Column
<1>4. hashConstants = [r \in 0 .. n |-> IF r = 0 THEN [i \in 1 .. m |-> <<0>>]
                                       ELSE Sampled("hash", (r - 1) * m, m, 1)]
  BY DEF hashConstants
<1> HIDE DEF m, n
<1>5. \A r \in 0 .. n : r # 0 => r \in 1 .. n
  BY <1>1
<1> QED BY <1>2, <1>3, <1>4, <1>5 DEF m, n

-----------------------------------------------------------------------------
\* The round keys.

\* The blocks of the padded message are there to be read.
LEMMA PaddedIsWhole ==
  ASSUME NEW message \in Seq(Int)
  PROVE  LET padded == Padded(message)
             n == Len(padded) \div Rate
         IN  /\ padded \in Seq(Int) /\ n \in Nat
             /\ \A r \in 1 .. n : \A i \in 1 .. Rate : padded[(r - 1) * Rate + i] \in Int
<1> DEFINE one == Append(message, 1)
<1> DEFINE short == Len(one) % Rate
<1> DEFINE k == IF short = 0 THEN 0 ELSE Rate - short
<1> DEFINE zeros == [i \in 1 .. k |-> 0]
<1> DEFINE padded == Padded(message)
<1> DEFINE l == Len(padded)
<1> DEFINE n == l \div Rate
<1>1. Rate \in Nat \ {0}
  BY CipherAssumption
<1>2. one \in Seq(Int) /\ Len(one) \in Nat
  OBVIOUS
<1> HIDE DEF one
<1>3. short \in 0 .. Rate - 1
  BY <1>1, <1>2
<1> HIDE DEF short
<1>4. k \in Nat
  BY <1>1, <1>3
<1> HIDE DEF k
<1>5. zeros \in Seq(Int)
  BY <1>4
<1>6. padded = one \o zeros
  BY DEF Padded, one, zeros, k, short
<1> HIDE DEF zeros
<1>7. padded \in Seq(Int)
  BY <1>2, <1>5, <1>6
<1> HIDE DEF padded
<1>8. l \in Nat /\ DOMAIN padded = 1 .. l /\ \A i \in 1 .. l : padded[i] \in Int
  BY <1>7
<1> HIDE DEF l
<1>9. n \in Nat /\ n * Rate <= l
  <2>1. n \in Int /\ l % Rate \in 0 .. Rate - 1 /\ l = Rate * n + (l % Rate)
    BY <1>1, <1>8, Division
  <2>2. n \in Nat
    BY <1>1, <1>8
  <2> DEFINE q == l % Rate
  <2>3. q \in Nat /\ l = Rate * n + q
    BY <2>1
  <2> HIDE DEF n, q
  <2>4. Rate * n = n * Rate /\ n * Rate \in Nat
    BY <1>1, <2>2
  <2> QED BY <2>2, <2>3, <2>4
<1> HIDE DEF n
<1>10. ASSUME NEW r \in 1 .. n, NEW i \in 1 .. Rate PROVE (r - 1) * Rate + i \in 1 .. l
  <2> DEFINE q == r - 1
  <2> DEFINE d == n - r
  <2>1. q \in Nat /\ d \in Nat /\ n = q + 1 + d
    BY <1>9
  <2> HIDE DEF q, d
  <2>2. \A a, b, e \in Nat : (a + 1 + b) * e = a * e + e + b * e /\ a * e \in Nat /\ b * e \in Nat
    OBVIOUS
  <2>3. n * Rate = q * Rate + Rate + d * Rate /\ q * Rate \in Nat /\ d * Rate \in Nat
    BY <1>1, <2>1, <2>2
  <2>4. q * Rate + i \in 1 .. l
    BY <1>1, <1>8, <1>9, <2>3, SMTT(40)
  <2> QED BY <2>4 DEF q
<1>11. \A r \in 1 .. n : \A i \in 1 .. Rate : padded[(r - 1) * Rate + i] \in Int
  BY <1>8, <1>10
<1> QED BY <1>7, <1>9, <1>11 DEF n, l, padded

\* The hash returns as many elements as the cipher's key has.
LEMMA DigestIsKey ==
  ASSUME NEW message \in Seq(Int)
  PROVE  digest(message) \in [1 .. BlockSize -> Element]
<1> DEFINE m == Rate + Capacity
<1> DEFINE n == 2 * Rounds["hash"]
<1> DEFINE padded == Padded(message)
<1> DEFINE l == Len(padded) \div Rate
<1> DEFINE block(r) == [i \in 1 .. m |-> << IF i <= Rate THEN (padded[(r - 1) * Rate + i]) % Order ELSE 0 >>]
<1> DEFINE zero == [i \in 1 .. m |-> <<0>>]
<1> DEFINE V == Column(m)
<1> DEFINE R(r, s) == rescuePermutation("hash", hashConstants, n, Elementwise(AddCT, s, block(r)))[n]
<1> DEFINE More(r, f) == Of(LAMBDA s : rescuePermutation("hash", hashConstants, n, s)[n],
                            Of(LAMBDA s : Elementwise(AddCT, s, block(r)), f))
<1> DEFINE Def(f) == [r \in 0 .. l |-> IF r = 0 THEN zero ELSE More(r, f[r - 1])]
<1> DEFINE absorbed == CHOOSE f : f = Def(f)
<1>1. /\ m \in Size /\ m \in Nat /\ n \in Nat /\ l \in Nat /\ BlockSize \in Nat /\ BlockSize <= m /\ Rate \in Nat
      /\ "hash" \in Mode
  BY SizesFit, RoundsAreNat, PaddedIsWhole, CipherAssumption DEF Mode
<1>2. hashConstants \in [0 .. n -> Column(m)]
  BY HashConstantsAreColumns
<1>3. zero \in V
  <2>1. <<0>> \in [1 .. 1 -> Element]
    BY FieldClosed
  <2> QED BY <2>1 DEF Column, Matrix
<1>4. ASSUME NEW r \in 1 .. l PROVE block(r) \in V
  <2>1. ASSUME NEW i \in 1 .. m
        PROVE  << IF i <= Rate THEN (padded[(r - 1) * Rate + i]) % Order ELSE 0 >> \in [1 .. 1 -> Element]
    <3> DEFINE y == (padded[(r - 1) * Rate + i]) % Order
    <3>1. i <= Rate => y \in Element
      <4>1. i <= Rate => i \in 1 .. Rate
        BY <1>1
      <4>2. i <= Rate => padded[(r - 1) * Rate + i] \in Int
        BY <4>1, PaddedIsWhole
      <4> QED BY <4>2, RemaindersFirst
    <3> HIDE DEF y
    <3>2. (IF i <= Rate THEN y ELSE 0) \in Element
      BY <3>1, FieldClosed
    <3>3. \A x \in Element : << x >> \in [1 .. 1 -> Element]
      OBVIOUS
    <3> QED BY <3>2, <3>3 DEF y
  <2> QED BY <2>1 DEF Column, Matrix
<1> HIDE DEF m, n, l, block
<1>5. ASSUME NEW r \in 1 .. l, NEW s \in V PROVE R(r, s) \in V
  <2> DEFINE t == Elementwise(AddCT, s, block(r))
  <2>1. block(r) \in Column(m)
    BY <1>4
  <2>2. t \in Column(m)
    BY <1>1, <2>1, ElementwiseIs, Zenon
  <2> HIDE DEF t
  <2>3. rescuePermutation("hash", hashConstants, n, t) \in [0 .. n -> Column(m)]
    BY <1>1, <1>2, <2>2, PermutationRounds
  <2> QED BY <1>1, <2>3 DEF t
<1>6. \A r, s : More(r, s) = R(r, s)
  BY DEF Of
<1>7. digest(message) = [i \in 1 .. BlockSize |-> absorbed[l][i][1]]
  BY DEF digest, Of, m, n, l, block
<1> HIDE DEF zero, V, R, More
<1> DEFINE G == [r \in Nat |-> [s \in V |-> IF r < l THEN R(r + 1, s) ELSE zero]]
<1>8. G \in Steps(V)
  <2>1. ASSUME NEW r \in Nat, NEW s \in V PROVE (IF r < l THEN R(r + 1, s) ELSE zero) \in V
    <3>1. r < l => r + 1 \in 1 .. l
      BY <1>1
    <3> QED BY <1>3, <1>5, <3>1
  <2> QED BY <2>1 DEF Steps
<1>9. PICK h \in [0 .. l -> V] : Loops(h, l, zero, G)
  <2> HIDE DEF G
  <2> QED BY <1>1, <1>3, <1>8, LoopExists
<1>10. h[0] = zero /\ \A r \in 0 .. l - 1 : h[r + 1] = R(r + 1, h[r])
  <2>1. ASSUME NEW r \in 0 .. l - 1 PROVE h[r + 1] = R(r + 1, h[r])
    <3>1. r \in Nat /\ r < l /\ h[r] \in V
      BY <1>1
    <3> QED BY <1>9, <3>1 DEF Loops
  <2> QED BY <1>9, <2>1 DEF Loops
<1> HIDE DEF G
<1>11. h = Def(h)
  <2>1. ASSUME NEW r \in 0 .. l PROVE h[r] = IF r = 0 THEN zero ELSE More(r, h[r - 1])
    <3>1. CASE r # 0
      <4>1. r - 1 \in 0 .. l - 1 /\ (r - 1) + 1 = r
        BY <1>1, <3>1
      <4> QED BY <1>6, <1>10, <3>1, <4>1
    <3> QED BY <1>10, <3>1
  <2> QED BY <2>1
<1>12. absorbed = Def(absorbed)
  BY <1>11
<1> HIDE DEF absorbed
<1>13. absorbed[0] \in V
  BY <1>1, <1>3, <1>12
<1>14. ASSUME NEW r \in 0 .. l - 1, absorbed[r] \in V PROVE absorbed[r + 1] \in V
  <2>1. r + 1 \in 0 .. l /\ r + 1 \in 1 .. l /\ r + 1 # 0 /\ (r + 1) - 1 = r
    BY <1>1
  <2>2. absorbed[r + 1] = More(r + 1, absorbed[r])
    BY <1>12, <2>1
  <2> QED BY <1>5, <1>6, <1>14, <2>1, <2>2
<1> HIDE DEF Def
<1>15. \A r \in 0 .. l : absorbed[r] \in V
  BY <1>1, <1>13, <1>14, LoopStays
<1>16. absorbed[l] \in Column(m)
  BY <1>1, <1>15 DEF V
<1>17. \A i \in 1 .. m : absorbed[l][i][1] \in Element
  BY <1>1, <1>16, ColumnIs
<1>18. \A i \in 1 .. BlockSize : i \in 1 .. m
  BY <1>1
<1> QED BY <1>7, <1>17, <1>18

\* The round keys of a secret are columns.
LEMMA KeysAreColumns ==
  ASSUME NEW secret \in Int
  PROVE  KeysOf(secret) \in [0 .. 2 * Rounds["cipher"] -> Column(BlockSize)]
<1> DEFINE message == <<1, secret, BlockSize>>
<1> DEFINE key == digest(message)
<1>1. BlockSize \in Size /\ BlockSize \in Nat /\ 2 * Rounds["cipher"] \in Nat /\ "cipher" \in Mode
  BY SizesFit, RoundsAreNat DEF Mode
<1>2. message \in Seq(Int)
  BY <1>1
<1> HIDE DEF message
<1>3. key \in [1 .. BlockSize -> Element]
  BY <1>2, DigestIsKey
<1>4. \A x \in Element : x \in Int
  BY OrderIsOdd DEF Element
<1> HIDE DEF key
<1>5. key \in [1 .. BlockSize -> Int]
  BY <1>3, <1>4
<1>6. toVec(key) \in Column(BlockSize)
  BY <1>1, <1>5, ToVecIsColumn
<1>7. rescuePermutation("cipher", cipherConstants, 2 * Rounds["cipher"], toVec(key))
        \in [0 .. 2 * Rounds["cipher"] -> Column(BlockSize)]
  BY <1>1, <1>6, CipherConstantsAreColumns, PermutationRounds
<1> QED BY <1>7 DEF KeysOf, roundKeys, key, message

-----------------------------------------------------------------------------
\* The partition of the rows.

\* What a loop has kept of the first elements: those in T.
Kept(kept, seq, T, n, S) ==
  /\ kept \in [0 .. n -> Seq(S)]
  /\ kept[0] = << >>
  /\ \A k \in 0 .. n - 1 :
       kept[k + 1] = IF seq[k + 1] \in T THEN Append(kept[k], seq[k + 1]) ELSE kept[k]

\* The loop exists.
LEMMA KeptExists ==
  ASSUME NEW n \in Nat, NEW S, NEW T, NEW seq \in [1 .. n -> S]
  PROVE  \E kept : Kept(kept, seq, T, n, S)
<1> DEFINE G == [i \in Nat |-> [v \in Seq(S) |->
                   IF i < n /\ seq[i + 1] \in T THEN Append(v, seq[i + 1]) ELSE v]]
<1>1. G \in Steps(Seq(S)) /\ << >> \in Seq(S)
  <2>1. ASSUME NEW i \in Nat, NEW v \in Seq(S), i < n PROVE Append(v, seq[i + 1]) \in Seq(S)
    <3>1. seq[i + 1] \in S
      BY <2>1
    <3> QED BY <3>1
  <2> QED BY <2>1 DEF Steps
<1>2. PICK kept \in [0 .. n -> Seq(S)] : Loops(kept, n, << >>, G)
  <2> HIDE DEF G
  <2> QED BY <1>1, LoopExists
<1>3. ASSUME NEW k \in 0 .. n - 1
      PROVE  kept[k + 1] = IF seq[k + 1] \in T THEN Append(kept[k], seq[k + 1]) ELSE kept[k]
  <2>1. kept[k] \in Seq(S) /\ k \in Nat /\ k < n
    OBVIOUS
  <2> QED BY <1>2, <2>1 DEF Loops
<1> HIDE DEF G
<1> QED BY <1>2, <1>3 DEF Loops, Kept

\* Rows of w elements, and those that do not begin with zero.
Row(w) == [1 .. w -> Element]
Leading(w) == {row \in Row(w) : row[1] # 0}

\* nlzRows keeps those that do not begin with zero.
LEMMA NlzRowsKeeps ==
  ASSUME NEW n \in Nat, NEW w \in Nat, NEW rows \in [1 .. n -> Row(w)]
  PROVE  \E kept : Kept(kept, rows, Leading(w), n, Row(w)) /\ nlzRows(rows) = kept[n]
<1> DEFINE Def(f) == [k \in 0 .. Len(rows) |->
              IF k = 0 THEN << >>
              ELSE IF ~LeadingZero(rows[k]) THEN Append(f[k - 1], rows[k]) ELSE f[k - 1]]
<1> DEFINE d == CHOOSE f : f = Def(f)
<1>1. PICK kept : Kept(kept, rows, Leading(w), n, Row(w))
  BY KeptExists
<1>2. Len(rows) = n
  BY RowsAndLength
<1>3. \A k \in 1 .. n : rows[k] \in Leading(w) <=> ~LeadingZero(rows[k])
  BY DEF Leading, LeadingZero
<1>4. kept = Def(kept)
  <2>1. ASSUME NEW k \in 0 .. n
        PROVE  kept[k] = IF k = 0 THEN << >>
                         ELSE IF ~LeadingZero(rows[k]) THEN Append(kept[k - 1], rows[k]) ELSE kept[k - 1]
    <3>1. CASE k # 0
      <4>1. k - 1 \in 0 .. n - 1 /\ (k - 1) + 1 = k /\ k \in 1 .. n
        BY <3>1
      <4> QED BY <1>1, <1>3, <3>1, <4>1 DEF Kept
    <3> QED BY <1>1, <3>1 DEF Kept
  <2> QED BY <1>1, <1>2, <2>1 DEF Kept
<1>5. d = Def(d)
  BY <1>4
<1>6. nlzRows(rows) = d[n]
  BY <1>2 DEF nlzRows, filter
<1> HIDE DEF d
<1>7. d[n] = kept[n]
  <2>1. d[0] = kept[0]
    BY <1>1, <1>2, <1>5 DEF Kept
  <2>2. ASSUME NEW k \in 0 .. n - 1, d[k] = kept[k] PROVE d[k + 1] = kept[k + 1]
    <3>1. k + 1 \in 0 .. n /\ k + 1 # 0 /\ (k + 1) - 1 = k /\ k + 1 \in 1 .. n
      OBVIOUS
    <3>2. d[k + 1] = IF ~LeadingZero(rows[k + 1]) THEN Append(d[k], rows[k + 1]) ELSE d[k]
      BY <1>2, <1>5, <3>1
    <3> QED BY <1>1, <1>3, <2>2, <3>1, <3>2 DEF Kept
  <2> HIDE DEF Def
  <2>4. \A k \in 0 .. n - 1 : d[k] = kept[k] => d[k + 1] = kept[k + 1]
    BY <2>2
  <2>3. \A k \in 0 .. n : d[k] = kept[k]
    BY <2>1, <2>4, LoopsAgree, ZenonT(40)
  <2> QED BY <2>3
<1> QED BY <1>1, <1>6, <1>7

\* lzRows keeps the others.
LEMMA LzRowsKeeps ==
  ASSUME NEW n \in Nat, NEW w \in Nat, NEW rows \in [1 .. n -> Row(w)]
  PROVE  \E kept : Kept(kept, rows, Row(w) \ Leading(w), n, Row(w)) /\ lzRows(rows) = kept[n]
<1> DEFINE Def(f) == [k \in 0 .. Len(rows) |->
              IF k = 0 THEN << >>
              ELSE IF LeadingZero(rows[k]) THEN Append(f[k - 1], rows[k]) ELSE f[k - 1]]
<1> DEFINE d == CHOOSE f : f = Def(f)
<1>1. PICK kept : Kept(kept, rows, Row(w) \ Leading(w), n, Row(w))
  BY KeptExists
<1>2. Len(rows) = n
  BY RowsAndLength
<1>3. \A k \in 1 .. n : rows[k] \in Row(w) \ Leading(w) <=> LeadingZero(rows[k])
  BY DEF Leading, LeadingZero
<1>4. kept = Def(kept)
  <2>1. ASSUME NEW k \in 0 .. n
        PROVE  kept[k] = IF k = 0 THEN << >>
                         ELSE IF LeadingZero(rows[k]) THEN Append(kept[k - 1], rows[k]) ELSE kept[k - 1]
    <3>1. CASE k # 0
      <4>1. k - 1 \in 0 .. n - 1 /\ (k - 1) + 1 = k /\ k \in 1 .. n
        BY <3>1
      <4> QED BY <1>1, <1>3, <3>1, <4>1 DEF Kept
    <3> QED BY <1>1, <3>1 DEF Kept
  <2> QED BY <1>1, <1>2, <2>1 DEF Kept
<1>5. d = Def(d)
  BY <1>4
<1>6. lzRows(rows) = d[n]
  BY <1>2 DEF lzRows, filter
<1> HIDE DEF d
<1>7. d[n] = kept[n]
  <2>1. d[0] = kept[0]
    BY <1>1, <1>2, <1>5 DEF Kept
  <2>2. ASSUME NEW k \in 0 .. n - 1, d[k] = kept[k] PROVE d[k + 1] = kept[k + 1]
    <3>1. k + 1 \in 0 .. n /\ k + 1 # 0 /\ (k + 1) - 1 = k /\ k + 1 \in 1 .. n
      OBVIOUS
    <3>2. d[k + 1] = IF LeadingZero(rows[k + 1]) THEN Append(d[k], rows[k + 1]) ELSE d[k]
      BY <1>2, <1>5, <3>1
    <3> QED BY <1>1, <1>3, <2>2, <3>1, <3>2 DEF Kept
  <2> HIDE DEF Def
  <2>4. \A k \in 0 .. n - 1 : d[k] = kept[k] => d[k + 1] = kept[k + 1]
    BY <2>2
  <2>3. \A k \in 0 .. n : d[k] = kept[k]
    BY <2>1, <2>4, LoopsAgree, ZenonT(40)
  <2> QED BY <2>3
<1> QED BY <1>1, <1>6, <1>7

-----------------------------------------------------------------------------
\* The determinant.

\* The summands of the expansion.
Cofactors(d, A, n) ==
  [k \in 1 .. n |-> mul(Alternating(k), mul(A[k][1], d[Minor(A, k, n)]))]

\* D has the determinants of the sizes up to m.
AreDeterminants(D, m) ==
  /\ \A n \in 0 .. m : \A A \in Square(n) : D[n][A] \in Element
  /\ \A A \in Square(0) : D[0][A] = 1
  /\ \A n \in 1 .. m : \A A \in Square(n) :
       D[n][A] = SumUpTo(Cofactors(D[n - 1], A, n), n)

\* The signs are elements.
LEMMA SignsAre ==
  ASSUME NEW k \in Nat
  PROVE  Alternating(k) \in Element /\ Alternating(k + 1) = mul(MinusOne, Alternating(k))
<1>1. MinusOne \in Element /\ 1 \in Element /\ mul(MinusOne, MinusOne) = 1 /\ mul(MinusOne, 1) = MinusOne
  <2>1. MinusOne \in Element /\ mul(MinusOne, MinusOne) = 1
    BY SignsChange
  <2>2. 1 \in Element /\ mul(MinusOne, 1) = mul(1, MinusOne) /\ mul(1, MinusOne) = MinusOne
    BY <2>1, FieldLaws
  <2> QED BY <2>1, <2>2
<1>2. k % 2 = 1 <=> (k + 1) % 2 # 1
  OBVIOUS
<1> QED BY <1>1, <1>2 DEF Alternating, MinusOne

\* What remains without a row and the first column is a square.
LEMMA MinorIsSquare ==
  ASSUME NEW n \in Nat \ {0}, NEW A \in Square(n), NEW i \in 1 .. n
  PROVE  Minor(A, i, n) \in Square(n - 1)
<1>1. ASSUME NEW r \in 1 .. n - 1, NEW c \in 1 .. n - 1
      PROVE  A[IF r < i THEN r ELSE r + 1][c + 1] \in Element
  <2>1. (IF r < i THEN r ELSE r + 1) \in 1 .. n /\ c + 1 \in 1 .. n
    OBVIOUS
  <2> QED BY <2>1 DEF Square
<1> QED BY <1>1 DEF Minor, Square

\* The summands of the expansion are elements.
LEMMA CofactorsAre ==
  ASSUME NEW n \in Nat \ {0}, NEW d, \A B \in Square(n - 1) : d[B] \in Element, NEW A \in Square(n)
  PROVE  \A k \in 1 .. n :
           /\ A[k][1] \in Element /\ d[Minor(A, k, n)] \in Element
           /\ Cofactors(d, A, n)[k] \in Element
           /\ Cofactors(d, A, n)[k] = mul(Alternating(k), mul(A[k][1], d[Minor(A, k, n)]))
<1> SUFFICES ASSUME NEW k \in 1 .. n
             PROVE  /\ A[k][1] \in Element /\ d[Minor(A, k, n)] \in Element
                    /\ Cofactors(d, A, n)[k] \in Element
                    /\ Cofactors(d, A, n)[k] = mul(Alternating(k), mul(A[k][1], d[Minor(A, k, n)]))
  OBVIOUS
<1>1. A[k][1] \in Element
  BY DEF Square
<1>2. d[Minor(A, k, n)] \in Element
  BY MinorIsSquare
<1>3. Alternating(k) \in Element
  BY SignsAre
<1>4. mul(Alternating(k), mul(A[k][1], d[Minor(A, k, n)])) \in Element
  BY <1>1, <1>2, <1>3, FieldClosed
<1> QED BY <1>1, <1>2, <1>4 DEF Cofactors

\* An expansion is the sum of its summands.
LEMMA ExpansionSums ==
  ASSUME NEW n \in Nat \ {0}, NEW d, \A B \in Square(n - 1) : d[B] \in Element, NEW A \in Square(n)
  PROVE  /\ Expansion(d, A, n) = SumUpTo(Cofactors(d, A, n), n)
         /\ Expansion(d, A, n) \in Element
<1> DEFINE u == Cofactors(d, A, n)
<1>1. \A k \in 1 .. n : u[k] \in Element /\ u[k] = mul(Alternating(k), mul(A[k][1], d[Minor(A, k, n)]))
  BY CofactorsAre
<1> HIDE DEF u
<1> DEFINE Def(f) ==
      [k \in 0 .. n |-> IF k = 0 THEN 0
                        ELSE add(f[k - 1], mul(Alternating(k), mul(A[k][1], d[Minor(A, k, n)])))]
<1>2. PICK c : Sums(c, u, n)
  BY <1>1, SumSteps
<1>3. c = Def(c)
  <2>1. ASSUME NEW k \in 0 .. n
        PROVE  c[k] = IF k = 0 THEN 0
                      ELSE add(c[k - 1], mul(Alternating(k), mul(A[k][1], d[Minor(A, k, n)])))
    <3>1. CASE k # 0
      <4>1. k - 1 \in 0 .. n - 1 /\ (k - 1) + 1 = k /\ k \in 1 .. n
        BY <3>1
      <4> QED BY <1>1, <1>2, <3>1, <4>1 DEF Sums
    <3> QED BY <1>2, <3>1 DEF Sums
  <2> QED BY <1>2, <2>1 DEF Sums
<1> DEFINE s == CHOOSE f : f = Def(f)
<1>4. s = Def(s)
  BY <1>3
<1>5. Expansion(d, A, n) = s[n]
  BY DEF Expansion
<1> HIDE DEF s
<1>6. s[n] = c[n]
  <2>1. s[0] = c[0]
    BY <1>2, <1>4 DEF Sums
  <2>2. ASSUME NEW k \in 0 .. n - 1, s[k] = c[k] PROVE s[k + 1] = c[k + 1]
    <3>1. k + 1 \in 0 .. n /\ k + 1 # 0 /\ (k + 1) - 1 = k /\ k + 1 \in 1 .. n
      OBVIOUS
    <3>2. s[k + 1] = add(s[k], u[k + 1])
      BY <1>1, <1>4, <3>1
    <3> QED BY <1>2, <2>2, <3>2 DEF Sums
  <2>3. \A k \in 0 .. n : s[k] = c[k]
    BY <2>1, <2>2, LoopsAgree
  <2> QED BY <2>3
<1>7. c[n] = SumUpTo(u, n) /\ SumUpTo(u, n) \in Element
  BY <1>1, <1>2, SumSteps
<1> QED BY <1>5, <1>6, <1>7 DEF u

\* The determinants of matrices up to a size exist.
LEMMA DeterminantsExist ==
  ASSUME NEW m \in Nat
  PROVE  AreDeterminants(Determinants(m), m)
<1> DEFINE V == UNION {[Square(n) -> Element] : n \in Nat}
<1> DEFINE First == [A \in Square(0) |-> 1]
<1> DEFINE Bigger(n, v) == [A \in Square(n) |-> Expansion(v, A, n)]
<1> DEFINE G == [i \in Nat |-> [v \in V |->
                   IF v \in [Square(i) -> Element] THEN Bigger(i + 1, v) ELSE v]]
<1>1. First \in [Square(0) -> Element] /\ First \in V
  <2>1. First \in [Square(0) -> Element]
    BY FieldClosed
  <2> QED BY <2>1
<1>2. ASSUME NEW i \in Nat, NEW v \in [Square(i) -> Element]
      PROVE  Bigger(i + 1, v) \in [Square(i + 1) -> Element]
  <2>1. ASSUME NEW A \in Square(i + 1) PROVE Expansion(v, A, i + 1) \in Element
    <3>1. i + 1 \in Nat \ {0} /\ (i + 1) - 1 = i
      OBVIOUS
    <3>2. \A B \in Square((i + 1) - 1) : v[B] \in Element
      BY <3>1
    <3> QED BY <2>1, <3>1, <3>2, ExpansionSums
  <2> QED BY <2>1
<1>3. G \in Steps(V)
  <2>1. ASSUME NEW i \in Nat, NEW v \in V
        PROVE  (IF v \in [Square(i) -> Element] THEN Bigger(i + 1, v) ELSE v) \in V
    <3>1. CASE v \in [Square(i) -> Element]
      <4> HIDE DEF Bigger
      <4>1. Bigger(i + 1, v) \in [Square(i + 1) -> Element] /\ i + 1 \in Nat
        BY <1>2, <3>1
      <4> QED BY <3>1, <4>1
    <3> QED BY <2>1, <3>1
  <2> HIDE DEF V, Bigger
  <2> QED BY <2>1 DEF Steps
<1>4. PICK f \in [0 .. m -> V] : Loops(f, m, First, G)
  <2> HIDE DEF G, V, First
  <2> QED BY <1>1, <1>3, LoopExists
<1> HIDE DEF First, Bigger
<1>5. ASSUME NEW n \in 0 .. m - 1, f[n] \in [Square(n) -> Element]
      PROVE  f[n + 1] = Bigger(n + 1, f[n]) /\ f[n + 1] \in [Square(n + 1) -> Element]
  <2>1. n \in Nat /\ f[n] \in V
    OBVIOUS
  <2>2. f[n + 1] = G[n][f[n]]
    BY <1>4 DEF Loops
  <2> HIDE DEF V
  <2>3. f[n + 1] = Bigger(n + 1, f[n])
    BY <1>5, <2>1, <2>2
  <2> QED BY <1>2, <1>5, <2>1, <2>3
<1>6. f[0] = First
  BY <1>4 DEF Loops
<1> HIDE DEF G, V
<1>7. \A n \in 0 .. m : f[n] \in [Square(n) -> Element]
  <2> DEFINE T == {n \in Nat : n <= m => f[n] \in [Square(n) -> Element]}
  <2>1. 0 \in T
    BY <1>1, <1>6
  <2>2. ASSUME NEW n \in Nat, n \in T PROVE n + 1 \in T
    <3>1. n + 1 <= m => n \in 0 .. m - 1 /\ n <= m
      OBVIOUS
    <3> QED BY <1>5, <2>2, <3>1
  <2> HIDE DEF T
  <2>3. Nat \subseteq T
    BY <2>1, <2>2, InductionOfNat
  <2> QED BY <2>3 DEF T
<1> DEFINE Def(D) == [n \in 0 .. m |-> IF n = 0 THEN [A \in Square(0) |-> 1]
                                        ELSE [A \in Square(n) |-> Expansion(D[n - 1], A, n)]]
<1> DEFINE D == Determinants(m)
<1>8. f = Def(f)
  <2>1. ASSUME NEW n \in 0 .. m
        PROVE  f[n] = IF n = 0 THEN [A \in Square(0) |-> 1]
                      ELSE [A \in Square(n) |-> Expansion(f[n - 1], A, n)]
    <3>1. CASE n # 0
      <4>1. n - 1 \in 0 .. m - 1 /\ (n - 1) + 1 = n /\ n - 1 \in 0 .. m
        BY <3>1
      <4>2. f[n - 1] \in [Square(n - 1) -> Element]
        BY <1>7, <4>1
      <4>3. f[n] = Bigger(n, f[n - 1])
        BY <1>5, <4>1, <4>2
      <4> QED BY <3>1, <4>3 DEF Bigger
    <3> QED BY <1>6, <3>1 DEF First
  <2> QED BY <2>1
<1>9. D = Def(D)
  BY <1>8 DEF Determinants
<1> HIDE DEF D
<1>10. \A n \in 0 .. m : D[n] = f[n]
  <2>1. D[0] = f[0]
    BY <1>8, <1>9
  <2>2. ASSUME NEW n \in 0 .. m - 1, D[n] = f[n] PROVE D[n + 1] = f[n + 1]
    <3>1. n + 1 \in 0 .. m /\ n + 1 # 0 /\ (n + 1) - 1 = n
      OBVIOUS
    <3>2. D[n + 1] = [A \in Square(n + 1) |-> Expansion(D[n], A, n + 1)]
      BY <1>9, <3>1
    <3>3. f[n + 1] = [A \in Square(n + 1) |-> Expansion(f[n], A, n + 1)]
      BY <1>8, <3>1
    <3> QED BY <2>2, <3>2, <3>3
  <2> HIDE DEF Def
  <2> QED BY <2>1, <2>2, LoopsAgree
<1>11. \A n \in 0 .. m : \A A \in Square(n) : D[n][A] \in Element
  BY <1>7, <1>10
<1>12. \A A \in Square(0) : D[0][A] = 1
  BY <1>9
<1>13. ASSUME NEW n \in 1 .. m, NEW A \in Square(n)
       PROVE  D[n][A] = SumUpTo(Cofactors(D[n - 1], A, n), n)
  <2>1. n \in Nat \ {0} /\ n \in 0 .. m /\ n - 1 \in 0 .. m /\ n # 0
    OBVIOUS
  <2>2. D[n][A] = Expansion(D[n - 1], A, n)
    <3>1. D[n] = [B \in Square(n) |-> Expansion(D[n - 1], B, n)]
      BY <1>9, <2>1
    <3> QED BY <3>1
  <2>3. \A B \in Square(n - 1) : D[n - 1][B] \in Element
    BY <1>11, <2>1
  <2> QED BY <2>1, <2>2, <2>3, ExpansionSums
<1> QED BY <1>11, <1>12, <1>13 DEF AreDeterminants, D

-----------------------------------------------------------------------------
\* Rows that change places.

\* Two summands that follow each other may change places.
LEMMA SumSwapped ==
  ASSUME NEW n \in Nat, NEW u, NEW w, NEW i \in 1 .. n - 1,
         \A k \in 1 .. n : u[k] \in Element,
         w[i] = u[i + 1], w[i + 1] = u[i],
         \A k \in 1 .. n : k # i /\ k # i + 1 => w[k] = u[k]
  PROVE  SumUpTo(w, n) = SumUpTo(u, n)
<1>1. \A k \in 1 .. n : u[k] \in Element /\ w[k] \in Element
  OBVIOUS
<1>2. /\ SumUpTo(u, 0) = 0 /\ SumUpTo(w, 0) = 0
      /\ \A k \in 0 .. n : SumUpTo(u, k) \in Element
      /\ \A k \in 0 .. n - 1 : /\ SumUpTo(u, k + 1) = add(SumUpTo(u, k), u[k + 1])
                               /\ SumUpTo(w, k + 1) = add(SumUpTo(w, k), w[k + 1])
  BY <1>1, SumNext
<1> DEFINE T == {k \in Nat : k <= n =>
                   SumUpTo(w, k) = IF k = i THEN add(SumUpTo(u, i - 1), u[i + 1]) ELSE SumUpTo(u, k)}
<1>3. 0 \in T
  BY <1>2
<1>4. ASSUME NEW k \in Nat, k \in T PROVE k + 1 \in T
  <2> SUFFICES ASSUME k + 1 <= n
               PROVE  SumUpTo(w, k + 1) = IF k + 1 = i THEN add(SumUpTo(u, i - 1), u[i + 1])
                                          ELSE SumUpTo(u, k + 1)
    OBVIOUS
  <2>1. k \in 0 .. n - 1 /\ k <= n
    OBVIOUS
  <2>2. CASE k + 1 = i
    <3>1. i - 1 = k /\ k # i /\ w[k + 1] = u[i + 1]
      BY <2>2
    <3>2. SumUpTo(w, k) = SumUpTo(u, k)
      BY <1>4, <2>1, <3>1
    <3> QED BY <1>2, <2>1, <2>2, <3>1, <3>2
  <2>3. CASE k = i
    <3> DEFINE s == SumUpTo(u, i - 1)
    <3> DEFINE x == u[i]
    <3> DEFINE y == u[i + 1]
    <3>1. i - 1 \in 0 .. n - 1 /\ i - 1 \in 0 .. n /\ (i - 1) + 1 = i /\ i \in 1 .. n /\ i + 1 \in 1 .. n
      OBVIOUS
    <3>2. s \in Element /\ x \in Element /\ y \in Element
      BY <1>1, <1>2, <3>1
    <3>3. SumUpTo(w, k + 1) = add(add(s, y), x)
      BY <1>2, <1>4, <2>1, <2>3
    <3>4. SumUpTo(u, k + 1) = add(add(s, x), y)
      BY <1>2, <2>1, <2>3, <3>1
    <3> HIDE DEF s, x, y
    <3>5. add(add(s, y), x) = add(s, add(y, x)) /\ add(add(s, x), y) = add(s, add(x, y)) /\ add(x, y) = add(y, x)
      BY <3>2, FieldLaws
    <3> QED BY <2>3, <3>3, <3>4, <3>5
  <2>4. CASE k + 1 # i /\ k # i
    <3>1. w[k + 1] = u[k + 1]
      BY <2>1, <2>4
    <3> QED BY <1>2, <1>4, <2>1, <2>4, <3>1
  <2> QED BY <2>2, <2>3, <2>4
<1> HIDE DEF T
<1>5. Nat \subseteq T
  BY <1>3, <1>4, InductionOfNat
<1>6. n # i
  OBVIOUS
<1> QED BY <1>5, <1>6 DEF T

\* Two rows that follow each other change places.
Swapped(A, i, n) == [r \in 1 .. n |-> IF r = i THEN A[i + 1] ELSE IF r = i + 1 THEN A[i] ELSE A[r]]

\* What the minors of a matrix are when two rows change places.
LEMMA MinorsOfSwapped ==
  ASSUME NEW n \in Nat \ {0}, NEW A \in Square(n), NEW i \in 1 .. n - 1
  PROVE  /\ Swapped(A, i, n) \in Square(n)
         /\ \A k \in 1 .. n :
              /\ k < i => i - 1 \in 1 .. n - 2
                          /\ Minor(Swapped(A, i, n), k, n) = Swapped(Minor(A, k, n), i - 1, n - 1)
              /\ k > i + 1 => i \in 1 .. n - 2
                              /\ Minor(Swapped(A, i, n), k, n) = Swapped(Minor(A, k, n), i, n - 1)
         /\ Minor(Swapped(A, i, n), i, n) = Minor(A, i + 1, n)
         /\ Minor(Swapped(A, i, n), i + 1, n) = Minor(A, i, n)
<1> DEFINE B == Swapped(A, i, n)
<1>1. B \in Square(n)
  <2>1. ASSUME NEW r \in 1 .. n
        PROVE  (IF r = i THEN A[i + 1] ELSE IF r = i + 1 THEN A[i] ELSE A[r]) \in [1 .. n -> Element]
    <3>1. i \in 1 .. n /\ i + 1 \in 1 .. n
      OBVIOUS
    <3> QED BY <3>1 DEF Square
  <2> QED BY <2>1 DEF Swapped, Square
<1>2. \A r \in 1 .. n : B[r] = IF r = i THEN A[i + 1] ELSE IF r = i + 1 THEN A[i] ELSE A[r]
  BY DEF Swapped
<1> HIDE DEF B
<1>3. ASSUME NEW k \in 1 .. n, k < i
      PROVE  i - 1 \in 1 .. n - 2 /\ Minor(B, k, n) = Swapped(Minor(A, k, n), i - 1, n - 1)
  <2>1. i - 1 \in 1 .. n - 2 /\ (i - 1) + 1 = i /\ i - 1 \in 1 .. n - 1 /\ i \in 1 .. n - 1
    BY <1>3
  <2>2. ASSUME NEW r \in 1 .. n - 1
        PROVE  [c \in 1 .. n - 1 |-> B[IF r < k THEN r ELSE r + 1][c + 1]]
                 = IF r = i - 1 THEN Minor(A, k, n)[i]
                   ELSE IF r = i THEN Minor(A, k, n)[i - 1] ELSE Minor(A, k, n)[r]
    <3>1. r \in 1 .. n /\ r + 1 \in 1 .. n
      OBVIOUS
    <3>2. CASE r = i - 1
      <4>1. B[IF r < k THEN r ELSE r + 1] = A[i + 1] /\ ~(i < k)
        BY <1>2, <1>3, <3>1, <3>2
      <4>2. Minor(A, k, n)[i] = [c \in 1 .. n - 1 |-> A[i + 1][c + 1]]
        BY <2>1, <4>1 DEF Minor
      <4> QED BY <3>2, <4>1, <4>2
    <3>3. CASE r = i
      <4>1. B[IF r < k THEN r ELSE r + 1] = A[i] /\ ~(i - 1 < k) /\ i # i - 1
        BY <1>2, <1>3, <3>1, <3>3
      <4>2. Minor(A, k, n)[i - 1] = [c \in 1 .. n - 1 |-> A[i][c + 1]]
        BY <2>1, <4>1 DEF Minor
      <4> QED BY <3>3, <4>1, <4>2
    <3>4. CASE r # i - 1 /\ r # i
      <4>1. B[IF r < k THEN r ELSE r + 1] = A[IF r < k THEN r ELSE r + 1]
        BY <1>2, <1>3, <3>1, <3>4
      <4>2. Minor(A, k, n)[r] = [c \in 1 .. n - 1 |-> A[IF r < k THEN r ELSE r + 1][c + 1]]
        BY DEF Minor
      <4> QED BY <3>4, <4>1, <4>2
    <3> QED BY <3>2, <3>3, <3>4
  <2>3. Minor(B, k, n) = [r \in 1 .. n - 1 |-> [c \in 1 .. n - 1 |-> B[IF r < k THEN r ELSE r + 1][c + 1]]]
    BY DEF Minor
  <2>4. Swapped(Minor(A, k, n), i - 1, n - 1)
          = [r \in 1 .. n - 1 |-> IF r = i - 1 THEN Minor(A, k, n)[i]
                                  ELSE IF r = i THEN Minor(A, k, n)[i - 1] ELSE Minor(A, k, n)[r]]
    BY <2>1 DEF Swapped
  <2> QED BY <2>1, <2>2, <2>3, <2>4
<1>4. ASSUME NEW k \in 1 .. n, k > i + 1
      PROVE  i \in 1 .. n - 2 /\ Minor(B, k, n) = Swapped(Minor(A, k, n), i, n - 1)
  <2>1. i \in 1 .. n - 2 /\ i \in 1 .. n - 1 /\ i + 1 \in 1 .. n - 1
    BY <1>4
  <2>2. ASSUME NEW r \in 1 .. n - 1
        PROVE  [c \in 1 .. n - 1 |-> B[IF r < k THEN r ELSE r + 1][c + 1]]
                 = IF r = i THEN Minor(A, k, n)[i + 1]
                   ELSE IF r = i + 1 THEN Minor(A, k, n)[i] ELSE Minor(A, k, n)[r]
    <3>1. r \in 1 .. n /\ r + 1 \in 1 .. n
      OBVIOUS
    <3>2. CASE r = i
      <4>1. B[IF r < k THEN r ELSE r + 1] = A[i + 1] /\ i + 1 < k
        BY <1>2, <1>4, <3>1, <3>2
      <4>2. Minor(A, k, n)[i + 1] = [c \in 1 .. n - 1 |-> A[i + 1][c + 1]]
        BY <2>1, <4>1 DEF Minor
      <4> QED BY <3>2, <4>1, <4>2
    <3>3. CASE r = i + 1
      <4>1. B[IF r < k THEN r ELSE r + 1] = A[i] /\ i < k /\ i # i + 1
        BY <1>2, <1>4, <3>1, <3>3
      <4>2. Minor(A, k, n)[i] = [c \in 1 .. n - 1 |-> A[i][c + 1]]
        BY <2>1, <4>1 DEF Minor
      <4> QED BY <3>3, <4>1, <4>2
    <3>4. CASE r # i /\ r # i + 1
      <4>1. B[IF r < k THEN r ELSE r + 1] = A[IF r < k THEN r ELSE r + 1]
        BY <1>2, <1>4, <3>1, <3>4
      <4>2. Minor(A, k, n)[r] = [c \in 1 .. n - 1 |-> A[IF r < k THEN r ELSE r + 1][c + 1]]
        BY DEF Minor
      <4> QED BY <3>4, <4>1, <4>2
    <3> QED BY <3>2, <3>3, <3>4
  <2>3. Minor(B, k, n) = [r \in 1 .. n - 1 |-> [c \in 1 .. n - 1 |-> B[IF r < k THEN r ELSE r + 1][c + 1]]]
    BY DEF Minor
  <2>4. Swapped(Minor(A, k, n), i, n - 1)
          = [r \in 1 .. n - 1 |-> IF r = i THEN Minor(A, k, n)[i + 1]
                                  ELSE IF r = i + 1 THEN Minor(A, k, n)[i] ELSE Minor(A, k, n)[r]]
    BY DEF Swapped
  <2> QED BY <2>1, <2>2, <2>3, <2>4
<1>5. Minor(B, i, n) = Minor(A, i + 1, n)
  <2>1. ASSUME NEW r \in 1 .. n - 1
        PROVE  B[IF r < i THEN r ELSE r + 1] = A[IF r < i + 1 THEN r ELSE r + 1]
    BY <1>2
  <2> QED BY <2>1 DEF Minor
<1>6. Minor(B, i + 1, n) = Minor(A, i, n)
  <2>1. ASSUME NEW r \in 1 .. n - 1
        PROVE  B[IF r < i + 1 THEN r ELSE r + 1] = A[IF r < i THEN r ELSE r + 1]
    BY <1>2
  <2> QED BY <2>1 DEF Minor
<1> QED BY <1>1, <1>3, <1>4, <1>5, <1>6 DEF B

\* The determinant changes its sign when two rows that follow each other change places.
SwapLaw(D, n) ==
  \A A \in Square(n) : \A i \in 1 .. n - 1 : D[n][Swapped(A, i, n)] = mul(MinusOne, D[n][A])

\* From one size to the next.
LEMMA SwapStep ==
  ASSUME NEW m \in Nat, NEW D, AreDeterminants(D, m), NEW n \in 1 .. m, SwapLaw(D, n - 1)
  PROVE  SwapLaw(D, n)
<1> SUFFICES ASSUME NEW A \in Square(n), NEW i \in 1 .. n - 1
             PROVE  D[n][Swapped(A, i, n)] = mul(MinusOne, D[n][A])
  BY DEF SwapLaw
<1> DEFINE B == Swapped(A, i, n)
<1> DEFINE d == D[n - 1]
<1> DEFINE u == Cofactors(d, A, n)
<1> DEFINE v == Cofactors(d, B, n)
<1> DEFINE w == [k \in 1 .. n |-> IF k = i THEN u[i + 1] ELSE IF k = i + 1 THEN u[i] ELSE u[k]]
<1>1. n \in Nat \ {0} /\ n \in Nat /\ n - 1 \in 0 .. m /\ n \in 0 .. m
  OBVIOUS
<1>2. \A C \in Square(n - 1) : d[C] \in Element
  BY <1>1 DEF AreDeterminants
<1>3. B \in Square(n)
  BY <1>1, MinorsOfSwapped
<1>4. D[n][A] = SumUpTo(u, n) /\ D[n][B] = SumUpTo(v, n)
  BY <1>3 DEF AreDeterminants
<1>5. \A k \in 1 .. n : /\ A[k][1] \in Element /\ d[Minor(A, k, n)] \in Element
                        /\ u[k] \in Element /\ u[k] = mul(Alternating(k), mul(A[k][1], d[Minor(A, k, n)]))
  <2> HIDE DEF d
  <2> QED BY <1>1, <1>2, CofactorsAre
<1>6. \A k \in 1 .. n : /\ B[k][1] \in Element /\ d[Minor(B, k, n)] \in Element
                        /\ v[k] \in Element /\ v[k] = mul(Alternating(k), mul(B[k][1], d[Minor(B, k, n)]))
  <2> HIDE DEF d, B
  <2> QED BY <1>1, <1>2, <1>3, CofactorsAre
<1>7. \A r \in 1 .. n : B[r] = IF r = i THEN A[i + 1] ELSE IF r = i + 1 THEN A[i] ELSE A[r]
  BY DEF Swapped
<1>8. /\ \A k \in 1 .. n :
           /\ k < i => i - 1 \in 1 .. n - 2 /\ Minor(B, k, n) = Swapped(Minor(A, k, n), i - 1, n - 1)
           /\ k > i + 1 => i \in 1 .. n - 2 /\ Minor(B, k, n) = Swapped(Minor(A, k, n), i, n - 1)
      /\ Minor(B, i, n) = Minor(A, i + 1, n)
      /\ Minor(B, i + 1, n) = Minor(A, i, n)
  BY <1>1, MinorsOfSwapped
<1>9. MinusOne \in Element
  BY SignsChange
<1>10. \A k \in 1 .. n : k < i \/ k > i + 1 => d[Minor(B, k, n)] = mul(MinusOne, d[Minor(A, k, n)])
  <2> SUFFICES ASSUME NEW k \in 1 .. n, k < i \/ k > i + 1
               PROVE  d[Minor(B, k, n)] = mul(MinusOne, d[Minor(A, k, n)])
    OBVIOUS
  <2>1. Minor(A, k, n) \in Square(n - 1)
    BY <1>1, MinorIsSquare
  <2>2. PICK j \in 1 .. n - 2 : Minor(B, k, n) = Swapped(Minor(A, k, n), j, n - 1)
    BY <1>8
  <2>3. (n - 1) - 1 = n - 2
    OBVIOUS
  <2> HIDE DEF B
  <2> QED BY <2>1, <2>2, <2>3 DEF SwapLaw
<1>11. u[i] \in Element /\ u[i + 1] \in Element /\ i \in 1 .. n /\ i + 1 \in 1 .. n
  <2>1. i \in 1 .. n /\ i + 1 \in 1 .. n
    OBVIOUS
  <2> QED BY <1>5, <2>1
<1> HIDE DEF B, d, u, v
<1>12. \A k \in 1 .. n : w[k] \in Element /\ v[k] = mul(MinusOne, w[k])
  <2> SUFFICES ASSUME NEW k \in 1 .. n PROVE w[k] \in Element /\ v[k] = mul(MinusOne, w[k])
    OBVIOUS
  <2>1. k \in Nat /\ Alternating(k) \in Element
    BY SignsAre
  <2>2. CASE k = i
    <3> DEFINE a == Alternating(i)
    <3> DEFINE t == mul(A[i + 1][1], d[Minor(A, i + 1, n)])
    <3>1. a \in Element /\ t \in Element /\ mul(MinusOne, MinusOne) = 1
      BY <1>5, <1>11, <2>1, <2>2, FieldClosed, SignsChange
    <3>2. v[k] = mul(a, t)
      BY <1>6, <1>7, <1>8, <1>11, <2>2
    <3>3. w[k] = mul(Alternating(i + 1), t) /\ w[k] \in Element
      BY <1>5, <1>11, <2>2
    <3>4. Alternating(i + 1) = mul(MinusOne, a)
      BY <2>1, <2>2, SignsAre
    <3> HIDE DEF a, t
    <3>5. mul(MinusOne, mul(mul(MinusOne, a), t)) = mul(a, t)
      <4>1. mul(mul(MinusOne, a), t) = mul(MinusOne, mul(a, t)) /\ mul(a, t) \in Element
        BY <1>9, <3>1, FieldLaws
      <4>2. mul(MinusOne, mul(MinusOne, mul(a, t))) = mul(mul(MinusOne, MinusOne), mul(a, t))
        BY <1>9, <4>1, FieldLaws
      <4>3. mul(1, mul(a, t)) = mul(a, t)
        BY <4>1, FieldLaws
      <4> QED BY <3>1, <4>1, <4>2, <4>3
    <3> QED BY <3>2, <3>3, <3>4, <3>5
  <2>3. CASE k = i + 1
    <3> DEFINE a == Alternating(i)
    <3> DEFINE t == mul(A[i][1], d[Minor(A, i, n)])
    <3>1. a \in Element /\ t \in Element
      <4>1. i \in Nat
        OBVIOUS
      <4> QED BY <1>5, <1>11, <4>1, FieldClosed, SignsAre
    <3>2. v[k] = mul(Alternating(i + 1), t)
      <4>1. B[i + 1] = A[i]
        BY <1>7, <1>11
      <4> QED BY <1>6, <1>8, <1>11, <2>3, <4>1
    <3>3. w[k] = mul(a, t) /\ w[k] \in Element
      <4>1. i + 1 # i
        OBVIOUS
      <4> QED BY <1>5, <1>11, <2>3, <4>1
    <3>4. Alternating(i + 1) = mul(MinusOne, a)
      <4>1. i \in Nat
        OBVIOUS
      <4> QED BY <4>1, SignsAre
    <3> HIDE DEF a, t
    <3>5. mul(mul(MinusOne, a), t) = mul(MinusOne, mul(a, t))
      BY <1>9, <3>1, FieldLaws
    <3> QED BY <3>2, <3>3, <3>4, <3>5
  <2>4. CASE k # i /\ k # i + 1
    <3> DEFINE a == Alternating(k)
    <3> DEFINE x == A[k][1]
    <3> DEFINE y == d[Minor(A, k, n)]
    <3>1. k < i \/ k > i + 1
      BY <2>4
    <3>2. a \in Element /\ x \in Element /\ y \in Element
      BY <1>5, <2>1
    <3>3. v[k] = mul(a, mul(x, mul(MinusOne, y)))
      BY <1>6, <1>7, <1>10, <2>4, <3>1
    <3>4. w[k] = mul(a, mul(x, y)) /\ w[k] \in Element
      BY <1>5, <2>4
    <3> HIDE DEF a, x, y
    <3>5. mul(x, mul(MinusOne, y)) = mul(MinusOne, mul(x, y)) /\ mul(x, y) \in Element
      BY <1>9, <3>2, FactorsMove, FieldClosed
    <3>6. mul(a, mul(MinusOne, mul(x, y))) = mul(MinusOne, mul(a, mul(x, y)))
      BY <1>9, <3>2, <3>5, FactorsMove
    <3> QED BY <3>3, <3>4, <3>5, <3>6
  <2> QED BY <2>2, <2>3, <2>4
<1>13. w[i] = u[i + 1] /\ w[i + 1] = u[i] /\ \A k \in 1 .. n : k # i /\ k # i + 1 => w[k] = u[k]
  BY <1>11
<1> HIDE DEF w
<1>14. SumUpTo(w, n) = SumUpTo(u, n)
  BY <1>1, <1>5, <1>13, SumSwapped
<1>15. SumUpTo(v, n) = mul(MinusOne, SumUpTo(w, n))
  BY <1>1, <1>9, <1>12, SumOfMultiples
<1> QED BY <1>4, <1>14, <1>15 DEF B

\* For every size.
LEMMA SwapsChangeSign ==
  ASSUME NEW m \in Nat, NEW D, AreDeterminants(D, m)
  PROVE  \A n \in 0 .. m : SwapLaw(D, n)
<1> DEFINE T == {n \in Nat : n <= m => SwapLaw(D, n)}
<1>1. 0 \in T
  BY DEF SwapLaw
<1>2. ASSUME NEW n \in Nat, n \in T PROVE n + 1 \in T
  <2>1. ASSUME n + 1 <= m PROVE SwapLaw(D, n + 1)
    <3>1. n + 1 \in 1 .. m /\ (n + 1) - 1 = n /\ n <= m
      BY <2>1
    <3>2. SwapLaw(D, (n + 1) - 1)
      BY <1>2, <3>1
    <3> QED BY <3>1, <3>2, SwapStep
  <2> QED BY <2>1
<1> HIDE DEF T
<1>3. Nat \subseteq T
  BY <1>1, <1>2, InductionOfNat
<1> QED BY <1>3 DEF T

-----------------------------------------------------------------------------
\* Multiples of a row that are added.

\* Row r replaced, a row plus a multiple of another, and a row without its first element.
Replaced(A, r, row, n) == [j \in 1 .. n |-> IF j = r THEN row ELSE A[j]]

Plus(x, c, y, n) == [k \in 1 .. n |-> add(x[k], mul(c, y[k]))]

Rest(x, n) == [k \in 1 .. n - 1 |-> x[k + 1]]

\* What the minors of a matrix are when a row is replaced.
LEMMA MinorsOfReplaced ==
  ASSUME NEW n \in Nat \ {0}, NEW A \in Square(n), NEW r \in 1 .. n, NEW x \in Row(n)
  PROVE  /\ Replaced(A, r, x, n) \in Square(n)
         /\ Rest(x, n) \in Row(n - 1)
         /\ Minor(Replaced(A, r, x, n), r, n) = Minor(A, r, n)
         /\ \A k \in 1 .. n :
              /\ k < r => Minor(Replaced(A, r, x, n), k, n) = Replaced(Minor(A, k, n), r - 1, Rest(x, n), n - 1)
              /\ k > r => Minor(Replaced(A, r, x, n), k, n) = Replaced(Minor(A, k, n), r, Rest(x, n), n - 1)
<1> DEFINE B == Replaced(A, r, x, n)
<1>1. B \in Square(n)
  BY DEF Replaced, Square, Row
<1>2. Rest(x, n) \in Row(n - 1)
  <2>1. \A k \in 1 .. n - 1 : k + 1 \in 1 .. n
    OBVIOUS
  <2> QED BY <2>1 DEF Rest, Row
<1>3. \A j \in 1 .. n : B[j] = IF j = r THEN x ELSE A[j]
  BY DEF Replaced
<1> HIDE DEF B
<1>4. Minor(B, r, n) = Minor(A, r, n)
  <2>1. ASSUME NEW j \in 1 .. n - 1
        PROVE  B[IF j < r THEN j ELSE j + 1] = A[IF j < r THEN j ELSE j + 1]
    BY <1>3
  <2> QED BY <2>1 DEF Minor
<1>5. ASSUME NEW k \in 1 .. n, k < r
      PROVE  Minor(B, k, n) = Replaced(Minor(A, k, n), r - 1, Rest(x, n), n - 1)
  <2>1. ASSUME NEW j \in 1 .. n - 1
        PROVE  [c \in 1 .. n - 1 |-> B[IF j < k THEN j ELSE j + 1][c + 1]]
                 = IF j = r - 1 THEN Rest(x, n) ELSE Minor(A, k, n)[j]
    <3>1. CASE j = r - 1
      <4>1. B[IF j < k THEN j ELSE j + 1] = x
        BY <1>3, <1>5, <3>1
      <4> QED BY <3>1, <4>1 DEF Rest
    <3>2. CASE j # r - 1
      <4>1. B[IF j < k THEN j ELSE j + 1] = A[IF j < k THEN j ELSE j + 1]
        BY <1>3, <1>5, <3>2
      <4>2. Minor(A, k, n)[j] = [c \in 1 .. n - 1 |-> A[IF j < k THEN j ELSE j + 1][c + 1]]
        BY DEF Minor
      <4> QED BY <3>2, <4>1, <4>2
    <3> QED BY <3>1, <3>2
  <2>2. Minor(B, k, n) = [j \in 1 .. n - 1 |-> [c \in 1 .. n - 1 |-> B[IF j < k THEN j ELSE j + 1][c + 1]]]
    BY DEF Minor
  <2> QED BY <2>1, <2>2 DEF Replaced
<1>6. ASSUME NEW k \in 1 .. n, k > r
      PROVE  Minor(B, k, n) = Replaced(Minor(A, k, n), r, Rest(x, n), n - 1)
  <2>1. ASSUME NEW j \in 1 .. n - 1
        PROVE  [c \in 1 .. n - 1 |-> B[IF j < k THEN j ELSE j + 1][c + 1]]
                 = IF j = r THEN Rest(x, n) ELSE Minor(A, k, n)[j]
    <3>1. CASE j = r
      <4>1. B[IF j < k THEN j ELSE j + 1] = x
        BY <1>3, <1>6, <3>1
      <4> QED BY <3>1, <4>1 DEF Rest
    <3>2. CASE j # r
      <4>1. B[IF j < k THEN j ELSE j + 1] = A[IF j < k THEN j ELSE j + 1]
        BY <1>3, <1>6, <3>2
      <4>2. Minor(A, k, n)[j] = [c \in 1 .. n - 1 |-> A[IF j < k THEN j ELSE j + 1][c + 1]]
        BY DEF Minor
      <4> QED BY <3>2, <4>1, <4>2
    <3> QED BY <3>1, <3>2
  <2>2. Minor(B, k, n) = [j \in 1 .. n - 1 |-> [c \in 1 .. n - 1 |-> B[IF j < k THEN j ELSE j + 1][c + 1]]]
    BY DEF Minor
  <2> QED BY <2>1, <2>2 DEF Replaced
<1> QED BY <1>1, <1>2, <1>4, <1>5, <1>6 DEF B

\* A row plus a multiple of another is a row.
LEMMA PlusIsRow ==
  ASSUME NEW n \in Nat, NEW x \in Row(n), NEW y \in Row(n), NEW c \in Element
  PROVE  /\ Plus(x, c, y, n) \in Row(n)
         /\ \A k \in 1 .. n : Plus(x, c, y, n)[k] = add(x[k], mul(c, y[k]))
<1>1. ASSUME NEW k \in 1 .. n PROVE add(x[k], mul(c, y[k])) \in Element
  <2>1. x[k] \in Element /\ y[k] \in Element
    BY DEF Row
  <2> QED BY <2>1, FieldClosed
<1> QED BY <1>1 DEF Plus, Row

\* The determinant is linear in each row.
LinearLaw(D, n) ==
  \A A \in Square(n) : \A r \in 1 .. n : \A x, y \in Row(n) : \A c \in Element :
    D[n][Replaced(A, r, Plus(x, c, y, n), n)]
      = add(D[n][Replaced(A, r, x, n)], mul(c, D[n][Replaced(A, r, y, n)]))

\* From one size to the next.
LEMMA LinearStep ==
  ASSUME NEW m \in Nat, NEW D, AreDeterminants(D, m), NEW n \in 1 .. m, LinearLaw(D, n - 1)
  PROVE  LinearLaw(D, n)
<1> SUFFICES ASSUME NEW A \in Square(n), NEW r \in 1 .. n, NEW x \in Row(n), NEW y \in Row(n), NEW c \in Element
             PROVE  D[n][Replaced(A, r, Plus(x, c, y, n), n)]
                      = add(D[n][Replaced(A, r, x, n)], mul(c, D[n][Replaced(A, r, y, n)]))
  BY DEF LinearLaw
<1> DEFINE z == Plus(x, c, y, n)
<1> DEFINE X == Replaced(A, r, x, n)
<1> DEFINE Y == Replaced(A, r, y, n)
<1> DEFINE Z == Replaced(A, r, z, n)
<1> DEFINE d == D[n - 1]
<1> DEFINE ux == Cofactors(d, X, n)
<1> DEFINE uy == Cofactors(d, Y, n)
<1> DEFINE uz == Cofactors(d, Z, n)
<1> DEFINE cy == [k \in 1 .. n |-> mul(c, uy[k])]
<1>1. n \in Nat \ {0} /\ n \in Nat /\ n - 1 \in 0 .. m /\ n \in 0 .. m /\ 1 \in 1 .. n
  OBVIOUS
<1>2. \A C \in Square(n - 1) : d[C] \in Element
  BY <1>1 DEF AreDeterminants
<1>3. z \in Row(n) /\ \A k \in 1 .. n : z[k] = add(x[k], mul(c, y[k]))
  BY <1>1, PlusIsRow
<1> HIDE DEF z
<1>4. X \in Square(n) /\ Y \in Square(n) /\ Z \in Square(n)
  BY <1>1, <1>3, MinorsOfReplaced
<1>5. D[n][X] = SumUpTo(ux, n) /\ D[n][Y] = SumUpTo(uy, n) /\ D[n][Z] = SumUpTo(uz, n)
  BY <1>4 DEF AreDeterminants
<1>6. \A k \in 1 .. n :
        /\ X[k][1] = IF k = r THEN x[1] ELSE A[k][1]
        /\ Y[k][1] = IF k = r THEN y[1] ELSE A[k][1]
        /\ Z[k][1] = IF k = r THEN z[1] ELSE A[k][1]
  BY DEF Replaced
<1>7. Minor(X, r, n) = Minor(A, r, n) /\ Minor(Y, r, n) = Minor(A, r, n) /\ Minor(Z, r, n) = Minor(A, r, n)
  BY <1>1, <1>3, MinorsOfReplaced
<1>8. ASSUME NEW k \in 1 .. n, k # r
      PROVE  d[Minor(Z, k, n)] = add(d[Minor(X, k, n)], mul(c, d[Minor(Y, k, n)]))
  <2> DEFINE j == IF k < r THEN r - 1 ELSE r
  <2> DEFINE M == Minor(A, k, n)
  <2>1. j \in 1 .. n - 1
    BY <1>8
  <2>2. M \in Square(n - 1)
    BY <1>1, MinorIsSquare
  <2>3. /\ Minor(X, k, n) = Replaced(M, j, Rest(x, n), n - 1) /\ Rest(x, n) \in Row(n - 1)
        /\ Minor(Y, k, n) = Replaced(M, j, Rest(y, n), n - 1) /\ Rest(y, n) \in Row(n - 1)
        /\ Minor(Z, k, n) = Replaced(M, j, Rest(z, n), n - 1)
    <3>1. CASE k < r
      BY <1>1, <1>3, <3>1, MinorsOfReplaced
    <3>2. CASE ~(k < r)
      <4>1. k > r
        BY <1>8, <3>2
      <4> QED BY <1>1, <1>3, <3>2, <4>1, MinorsOfReplaced
    <3> QED BY <3>1, <3>2
  <2>4. Rest(z, n) = Plus(Rest(x, n), c, Rest(y, n), n - 1)
    <3>1. \A i \in 1 .. n - 1 : i + 1 \in 1 .. n
      OBVIOUS
    <3> QED BY <1>3, <3>1 DEF Rest, Plus
  <2> HIDE DEF j, M, X, Y, Z
  <2> QED BY <2>1, <2>2, <2>3, <2>4 DEF LinearLaw
<1>9. \A k \in 1 .. n : /\ X[k][1] \in Element /\ d[Minor(X, k, n)] \in Element
                        /\ ux[k] \in Element /\ ux[k] = mul(Alternating(k), mul(X[k][1], d[Minor(X, k, n)]))
  <2> HIDE DEF d, X
  <2> QED BY <1>1, <1>2, <1>4, CofactorsAre
<1>10. \A k \in 1 .. n : /\ Y[k][1] \in Element /\ d[Minor(Y, k, n)] \in Element
                        /\ uy[k] \in Element /\ uy[k] = mul(Alternating(k), mul(Y[k][1], d[Minor(Y, k, n)]))
  <2> HIDE DEF d, Y
  <2> QED BY <1>1, <1>2, <1>4, CofactorsAre
<1>11. \A k \in 1 .. n : uz[k] = mul(Alternating(k), mul(Z[k][1], d[Minor(Z, k, n)]))
  <2> HIDE DEF d, Z
  <2> QED BY <1>1, <1>2, <1>4, CofactorsAre
<1> HIDE DEF X, Y, Z, d, ux, uy, uz
<1>12. \A k \in 1 .. n : cy[k] \in Element /\ uz[k] = add(ux[k], cy[k])
  <2> SUFFICES ASSUME NEW k \in 1 .. n PROVE cy[k] \in Element /\ uz[k] = add(ux[k], cy[k])
    OBVIOUS
  <2> DEFINE a == Alternating(k)
  <2>1. k \in Nat /\ a \in Element
    BY SignsAre
  <2>2. cy[k] = mul(c, uy[k]) /\ cy[k] \in Element
    BY <1>10, FieldClosed
  <2>3. CASE k = r
    <3> DEFINE p == x[1]
    <3> DEFINE q == y[1]
    <3> DEFINE t == d[Minor(A, r, n)]
    <3>1. p \in Element /\ q \in Element /\ t \in Element
      BY <1>6, <1>7, <1>9, <1>10, <2>3
    <3>2. ux[k] = mul(a, mul(p, t)) /\ uy[k] = mul(a, mul(q, t)) /\ uz[k] = mul(a, mul(add(p, mul(c, q)), t))
      BY <1>1, <1>3, <1>6, <1>7, <1>9, <1>10, <1>11, <2>3
    <3> HIDE DEF a, p, q, t
    <3>3. mul(add(p, mul(c, q)), t) = add(mul(p, t), mul(c, mul(q, t))) /\ mul(p, t) \in Element /\ mul(q, t) \in Element
      <4>1. mul(c, q) \in Element
        BY <3>1, FieldClosed
      <4>2. mul(add(p, mul(c, q)), t) = add(mul(p, t), mul(mul(c, q), t)) /\ mul(mul(c, q), t) = mul(c, mul(q, t))
        BY <3>1, <4>1, FieldLaws
      <4> QED BY <3>1, <4>2, FieldClosed
    <3> DEFINE e == mul(p, t)
    <3> DEFINE f == mul(q, t)
    <3>4. e \in Element /\ f \in Element /\ uz[k] = mul(a, add(e, mul(c, f))) /\ ux[k] = mul(a, e) /\ uy[k] = mul(a, f)
      BY <3>2, <3>3
    <3> HIDE DEF e, f
    <3>5. mul(a, add(e, mul(c, f))) = add(mul(a, e), mul(a, mul(c, f))) /\ mul(a, mul(c, f)) = mul(c, mul(a, f))
      <4>1. mul(c, f) \in Element
        BY <3>4, FieldClosed
      <4>2. a \in Element
        BY <2>1
      <4> QED BY <3>4, <4>1, <4>2, FieldLaws, FactorsMove
    <3> QED BY <2>2, <3>4, <3>5
  <2>4. CASE k # r
    <3> DEFINE b == A[k][1]
    <3> DEFINE p == d[Minor(X, k, n)]
    <3> DEFINE q == d[Minor(Y, k, n)]
    <3>1. b \in Element /\ p \in Element /\ q \in Element
      BY <1>6, <1>9, <1>10, <2>4
    <3>2. ux[k] = mul(a, mul(b, p)) /\ uy[k] = mul(a, mul(b, q)) /\ uz[k] = mul(a, mul(b, add(p, mul(c, q))))
      BY <1>6, <1>8, <1>9, <1>10, <1>11, <2>4
    <3> HIDE DEF a, b, p, q
    <3>3. mul(b, add(p, mul(c, q))) = add(mul(b, p), mul(c, mul(b, q))) /\ mul(b, p) \in Element /\ mul(b, q) \in Element
      <4>1. mul(c, q) \in Element
        BY <3>1, FieldClosed
      <4>2. mul(b, add(p, mul(c, q))) = add(mul(b, p), mul(b, mul(c, q))) /\ mul(b, mul(c, q)) = mul(c, mul(b, q))
        BY <3>1, <4>1, FieldLaws, FactorsMove
      <4> QED BY <3>1, <4>2, FieldClosed
    <3> DEFINE e == mul(b, p)
    <3> DEFINE f == mul(b, q)
    <3>4. e \in Element /\ f \in Element /\ uz[k] = mul(a, add(e, mul(c, f))) /\ ux[k] = mul(a, e) /\ uy[k] = mul(a, f)
      BY <3>2, <3>3
    <3> HIDE DEF e, f
    <3>5. mul(a, add(e, mul(c, f))) = add(mul(a, e), mul(a, mul(c, f))) /\ mul(a, mul(c, f)) = mul(c, mul(a, f))
      <4>1. mul(c, f) \in Element
        BY <3>4, FieldClosed
      <4>2. a \in Element
        BY <2>1
      <4> QED BY <3>4, <4>1, <4>2, FieldLaws, FactorsMove
    <3> QED BY <2>2, <3>4, <3>5
  <2> QED BY <2>3, <2>4
<1>13. SumUpTo(cy, n) = mul(c, SumUpTo(uy, n))
  <2>1. \A k \in 1 .. n : uy[k] \in Element /\ cy[k] = mul(c, uy[k])
    BY <1>10
  <2> HIDE DEF cy
  <2> QED BY <1>1, <2>1, SumOfMultiples
<1> HIDE DEF cy
<1>14. SumUpTo(uz, n) = add(SumUpTo(ux, n), SumUpTo(cy, n))
  BY <1>1, <1>9, <1>12, SumOfSums
<1> QED BY <1>5, <1>13, <1>14 DEF X, Y, Z, z

\* For every size.
LEMMA RowsAreLinear ==
  ASSUME NEW m \in Nat, NEW D, AreDeterminants(D, m)
  PROVE  \A n \in 0 .. m : LinearLaw(D, n)
<1> DEFINE T == {n \in Nat : n <= m => LinearLaw(D, n)}
<1>1. 0 \in T
  BY DEF LinearLaw
<1>2. ASSUME NEW n \in Nat, n \in T PROVE n + 1 \in T
  <2>1. ASSUME n + 1 <= m PROVE LinearLaw(D, n + 1)
    <3>1. n + 1 \in 1 .. m /\ (n + 1) - 1 = n /\ n <= m
      BY <2>1
    <3>2. LinearLaw(D, (n + 1) - 1)
      BY <1>2, <3>1
    <3> QED BY <3>1, <3>2, LinearStep
  <2> QED BY <2>1
<1> HIDE DEF T
<1>3. Nat \subseteq T
  BY <1>1, <1>2, InductionOfNat
<1> QED BY <1>3 DEF T

\* What is the opposite of itself is zero, the order being odd.
LEMMA OppositeOfItself ==
  ASSUME NEW x \in Element, x = mul(MinusOne, x)
  PROVE  x = 0
<1>1. MinusOne \in Element /\ 1 \in Element /\ mul(1, x) = x /\ mul(x, 1) = x /\ mul(x, MinusOne) = x
  BY SignsChange, FieldLaws
<1>2. MinusOne # 1
  BY OrderIsOdd DEF MinusOne
<1> QED BY <1>1, <1>2, MulCancels

\* Two rows that are the same make the determinant zero.
LEMMA SameRows ==
  ASSUME NEW m \in Nat, NEW D, AreDeterminants(D, m), NEW n \in 1 .. m
  PROVE  \A j \in 2 .. n : \A A \in Square(n) : A[1] = A[j] => D[n][A] = 0
<1> DEFINE T == {j \in Nat : j + 2 <= n => \A A \in Square(n) : A[1] = A[j + 2] => D[n][A] = 0}
<1>1. n \in Nat /\ n \in 0 .. m /\ n \in Nat \ {0} /\ \A A \in Square(n) : D[n][A] \in Element
  BY DEF AreDeterminants
<1>2. SwapLaw(D, n)
  BY <1>1, SwapsChangeSign
<1>3. 0 \in T
  <2> SUFFICES ASSUME 2 <= n, NEW A \in Square(n), A[1] = A[2] PROVE D[n][A] = 0
    OBVIOUS
  <2>1. 1 \in 1 .. n - 1 /\ 1 + 1 = 2
    OBVIOUS
  <2>2. Swapped(A, 1, n) = A
    <3>1. \A r \in 1 .. n : (IF r = 1 THEN A[1 + 1] ELSE IF r = 1 + 1 THEN A[1] ELSE A[r]) = A[r]
      OBVIOUS
    <3>2. A = [r \in 1 .. n |-> A[r]]
      BY DEF Square
    <3> QED BY <3>1, <3>2 DEF Swapped
  <2>3. D[n][Swapped(A, 1, n)] = mul(MinusOne, D[n][A])
    BY <1>2, <2>1 DEF SwapLaw
  <2> QED BY <1>1, <2>2, <2>3, OppositeOfItself
<1>4. ASSUME NEW j \in Nat, j \in T PROVE j + 1 \in T
  <2> SUFFICES ASSUME (j + 1) + 2 <= n, NEW A \in Square(n), A[1] = A[(j + 1) + 2] PROVE D[n][A] = 0
    OBVIOUS
  <2> DEFINE i == j + 2
  <2> DEFINE B == Swapped(A, i, n)
  <2>1. i \in 1 .. n - 1 /\ i <= n /\ i + 1 = (j + 1) + 2 /\ i # 1 /\ 1 # i + 1 /\ i \in 1 .. n /\ 1 \in 1 .. n
    OBVIOUS
  <2> HIDE DEF i
  <2>2. B \in Square(n)
    BY <1>1, <2>1, MinorsOfSwapped
  <2>3. B[1] = A[1] /\ B[i] = A[i + 1]
    BY <2>1 DEF Swapped
  <2>4. D[n][B] = 0
    <3>1. \A C \in Square(n) : C[1] = C[i] => D[n][C] = 0
      BY <1>4, <2>1 DEF i
    <3> HIDE DEF B
    <3> QED BY <2>1, <2>2, <2>3, <3>1
  <2>5. D[n][B] = mul(MinusOne, D[n][A])
    BY <1>2, <2>1 DEF SwapLaw
  <2>6. MinusOne \in Element /\ MinusOne # 0
    BY SignsChange
  <2> QED BY <1>1, <2>4, <2>5, <2>6, MulCancels
<1> HIDE DEF T
<1>5. Nat \subseteq T
  BY <1>3, <1>4, InductionOfNat
<1>6. ASSUME NEW j \in 2 .. n, NEW A \in Square(n), A[1] = A[j] PROVE D[n][A] = 0
  <2>1. j - 2 \in T /\ (j - 2) + 2 = j /\ j <= n
    BY <1>5
  <2> QED BY <1>6, <2>1 DEF T
<1> QED BY <1>6

\* A multiple of the first row added to another leaves the determinant as it is.
LEMMA MultipleAdded ==
  ASSUME NEW m \in Nat, NEW D, AreDeterminants(D, m), NEW n \in 1 .. m,
         NEW A \in Square(n), NEW j \in 2 .. n, NEW c \in Element
  PROVE  D[n][Replaced(A, j, Plus(A[j], c, A[1], n), n)] = D[n][A]
<1> DEFINE Y == Replaced(A, j, A[1], n)
<1>1. n \in Nat \ {0} /\ n \in 0 .. m /\ j \in 1 .. n /\ 1 \in 1 .. n /\ 1 # j
  OBVIOUS
<1>2. A[j] \in Row(n) /\ A[1] \in Row(n)
  BY <1>1 DEF Square, Row
<1>3. LinearLaw(D, n)
  BY <1>1, RowsAreLinear
<1>4. D[n][Replaced(A, j, Plus(A[j], c, A[1], n), n)]
        = add(D[n][Replaced(A, j, A[j], n)], mul(c, D[n][Y]))
  BY <1>1, <1>2, <1>3 DEF LinearLaw
<1>5. Replaced(A, j, A[j], n) = A
  <2>1. A = [r \in 1 .. n |-> A[r]]
    BY DEF Square
  <2> QED BY <2>1 DEF Replaced
<1>6. Y \in Square(n) /\ Y[1] = Y[j]
  <2>1. Y \in Square(n)
    BY <1>1, <1>2, MinorsOfReplaced
  <2> QED BY <1>1, <2>1 DEF Replaced
<1> HIDE DEF Y
<1>7. D[n][Y] = 0
  BY <1>6, SameRows
<1>8. D[n][A] \in Element
  BY <1>1 DEF AreDeterminants
<1> QED BY <1>4, <1>5, <1>7, <1>8, FieldLaws

\* Multiples of the first row added to the rows up to k.
MultiplesAdded(A, c, k, n) == [j \in 1 .. n |-> IF j \in 2 .. k THEN Plus(A[j], c[j], A[1], n) ELSE A[j]]

\* They leave the determinant as it is.
LEMMA AllMultiplesAdded ==
  ASSUME NEW m \in Nat, NEW D, AreDeterminants(D, m), NEW n \in 1 .. m,
         NEW A \in Square(n), NEW c \in [1 .. n -> Element]
  PROVE  MultiplesAdded(A, c, n, n) \in Square(n) /\ D[n][MultiplesAdded(A, c, n, n)] = D[n][A]
<1> DEFINE B(k) == MultiplesAdded(A, c, k, n)
<1> DEFINE T == {i \in Nat : i + 1 <= n => B(i + 1) \in Square(n) /\ D[n][B(i + 1)] = D[n][A]}
<1>1. n \in Nat \ {0} /\ 1 \in 1 .. n
  OBVIOUS
<1>2. 0 \in T
  <2>1. B(1) = [j \in 1 .. n |-> A[j]]
    BY DEF MultiplesAdded
  <2>2. B(1) = A
    BY <2>1 DEF Square
  <2> HIDE DEF B
  <2>3. 0 + 1 = 1
    OBVIOUS
  <2> QED BY <2>2, <2>3
<1>3. ASSUME NEW i \in Nat, i \in T PROVE i + 1 \in T
  <2> SUFFICES ASSUME (i + 1) + 1 <= n PROVE B((i + 1) + 1) \in Square(n) /\ D[n][B((i + 1) + 1)] = D[n][A]
    OBVIOUS
  <2> DEFINE k == i + 1
  <2> DEFINE E == B(k)
  <2>1. k \in 1 .. n - 1 /\ k + 1 \in 2 .. n /\ k + 1 \in 1 .. n /\ k + 1 \notin 2 .. k /\ 1 \notin 2 .. k
    OBVIOUS
  <2>2. E \in Square(n) /\ D[n][E] = D[n][A]
    BY <1>3
  <2> HIDE DEF k
  <2>3. E[1] = A[1] /\ E[k + 1] = A[k + 1] /\ c[k + 1] \in Element
    BY <1>1, <2>1 DEF MultiplesAdded
  <2> DEFINE row == Plus(E[k + 1], c[k + 1], E[1], n)
  <2>4. B(k + 1) = Replaced(E, k + 1, row, n)
    <3>1. row = Plus(A[k + 1], c[k + 1], A[1], n)
      BY <2>3
    <3>2. ASSUME NEW j \in 1 .. n
          PROVE  (IF j \in 2 .. k + 1 THEN Plus(A[j], c[j], A[1], n) ELSE A[j]) = IF j = k + 1 THEN row ELSE E[j]
      <4> HIDE DEF row
      <4>1. CASE j = k + 1
        BY <2>1, <3>1, <4>1
      <4>2. CASE j # k + 1
        <5>1. j \in 2 .. k + 1 <=> j \in 2 .. k
          BY <2>1, <4>2
        <5>2. E[j] = IF j \in 2 .. k THEN Plus(A[j], c[j], A[1], n) ELSE A[j]
          BY DEF MultiplesAdded
        <5> HIDE DEF E
        <5> QED BY <4>2, <5>1, <5>2
      <4> QED BY <4>1, <4>2
    <3> HIDE DEF row, E
    <3> QED BY <3>2 DEF MultiplesAdded, Replaced
  <2> HIDE DEF E
  <2>5. D[n][Replaced(E, k + 1, row, n)] = D[n][E]
    BY <2>1, <2>2, <2>3, MultipleAdded
  <2>6. Replaced(E, k + 1, row, n) \in Square(n)
    <3>1. E[k + 1] \in Row(n) /\ E[1] \in Row(n)
      BY <1>1, <2>1, <2>2 DEF Square, Row
    <3>2. row \in Row(n)
      BY <2>3, <3>1, PlusIsRow
    <3> HIDE DEF row
    <3> QED BY <1>1, <2>1, <2>2, <3>2, MinorsOfReplaced
  <2> HIDE DEF B, row
  <2> QED BY <2>2, <2>4, <2>5, <2>6 DEF k
<1> HIDE DEF T
<1>4. n - 1 \in T
  BY <1>1, <1>2, <1>3, InductionOfNat
<1> QED BY <1>1, <1>4 DEF T

\* Equal up to the sign.
UpToSign(x, y) == x = y \/ x = mul(MinusOne, y)

\* What is equal up to the sign to what is equal up to the sign.
LEMMA SignsCombine ==
  /\ \A x, y, z \in Element : UpToSign(x, y) /\ UpToSign(y, z) => UpToSign(x, z)
  /\ \A x, y, z \in Element : UpToSign(x, y) => UpToSign(mul(z, x), mul(z, y))
<1>1. MinusOne \in Element /\ mul(MinusOne, MinusOne) = 1
  BY SignsChange
<1>2. ASSUME NEW z \in Element PROVE mul(MinusOne, mul(MinusOne, z)) = z
  <2>1. mul(MinusOne, mul(MinusOne, z)) = mul(mul(MinusOne, MinusOne), z)
    BY <1>1, FieldLaws
  <2>2. mul(1, z) = z
    BY FieldLaws
  <2> QED BY <1>1, <2>1, <2>2
<1>3. \A y, z \in Element : mul(z, mul(MinusOne, y)) = mul(MinusOne, mul(z, y))
  BY <1>1, FactorsMove
<1> QED BY <1>2, <1>3 DEF UpToSign

\* Row q moved to place p, and those from p on moved by one.
Rotated(A, p, q, n) == [j \in 1 .. n |-> IF j = p THEN A[q] ELSE IF p < j /\ j <= q THEN A[j - 1] ELSE A[j]]

\* It changes the sign of the determinant at most.
LEMMA RotationsChangeSign ==
  ASSUME NEW m \in Nat, NEW D, AreDeterminants(D, m), NEW n \in 1 .. m, NEW A \in Square(n),
         NEW q \in 1 .. n, NEW p \in 1 .. q
  PROVE  Rotated(A, p, q, n) \in Square(n) /\ UpToSign(D[n][Rotated(A, p, q, n)], D[n][A])
<1> DEFINE R(i) == Rotated(A, q - i, q, n)
<1> DEFINE T == {i \in Nat : i < q => R(i) \in Square(n) /\ UpToSign(D[n][R(i)], D[n][A])}
<1>1. n \in Nat \ {0} /\ n \in 0 .. m /\ \A B \in Square(n) : D[n][B] \in Element
  BY DEF AreDeterminants
<1>2. SwapLaw(D, n)
  BY <1>1, SwapsChangeSign
<1>3. 0 \in T
  <2>1. R(0) = A
    <3>1. A = [j \in 1 .. n |-> A[j]]
      BY DEF Square
    <3>2. \A j \in 1 .. n : (IF j = q - 0 THEN A[q] ELSE IF q - 0 < j /\ j <= q THEN A[j - 1] ELSE A[j]) = A[j]
      OBVIOUS
    <3> QED BY <3>1, <3>2 DEF Rotated
  <2> HIDE DEF R
  <2> QED BY <2>1 DEF UpToSign
<1>4. ASSUME NEW i \in Nat, i \in T PROVE i + 1 \in T
  <2> SUFFICES ASSUME i + 1 < q PROVE R(i + 1) \in Square(n) /\ UpToSign(D[n][R(i + 1)], D[n][A])
    OBVIOUS
  <2> DEFINE k == q - (i + 1)
  <2> DEFINE B == R(i)
  <2>1. k \in 1 .. n - 1 /\ k + 1 = q - i /\ k < q /\ k \in 1 .. n /\ k + 1 \in 1 .. n
    OBVIOUS
  <2>2. B \in Square(n) /\ UpToSign(D[n][B], D[n][A])
    BY <1>4
  <2> HIDE DEF k
  <2>3. \A j \in 1 .. n : B[j] = IF j = k + 1 THEN A[q] ELSE IF k + 1 < j /\ j <= q THEN A[j - 1] ELSE A[j]
    BY <2>1 DEF Rotated
  <2> HIDE DEF B
  <2>4. R(i + 1) = Swapped(B, k, n)
    <3>1. \A j \in 1 .. n : (IF j = k THEN A[q] ELSE IF k < j /\ j <= q THEN A[j - 1] ELSE A[j])
                              = IF j = k THEN B[k + 1] ELSE IF j = k + 1 THEN B[k] ELSE B[j]
      BY <2>1, <2>3
    <3>2. R(i + 1) = [j \in 1 .. n |-> IF j = k THEN A[q] ELSE IF k < j /\ j <= q THEN A[j - 1] ELSE A[j]]
      BY DEF Rotated, k
    <3> QED BY <3>1, <3>2 DEF Swapped
  <2> HIDE DEF R
  <2>5. Swapped(B, k, n) \in Square(n)
    BY <1>1, <2>1, <2>2, MinorsOfSwapped
  <2>6. D[n][Swapped(B, k, n)] = mul(MinusOne, D[n][B])
    BY <1>2, <2>1, <2>2 DEF SwapLaw
  <2>7. UpToSign(D[n][Swapped(B, k, n)], D[n][B])
    BY <2>6 DEF UpToSign
  <2>8. D[n][A] \in Element /\ D[n][B] \in Element /\ D[n][Swapped(B, k, n)] \in Element
    BY <1>1, <2>2, <2>5
  <2> QED BY <2>2, <2>4, <2>5, <2>7, <2>8, SignsCombine
<1> HIDE DEF T
<1>5. q - p \in T
  BY <1>3, <1>4, InductionOfNat
<1>6. q - p < q /\ q - (q - p) = p
  OBVIOUS
<1> QED BY <1>5, <1>6 DEF T

-----------------------------------------------------------------------------
\* The order of the rows.

\* The rows that are kept.
LEMMA KeptAre ==
  ASSUME NEW n \in Nat, NEW S, NEW T \in SUBSET S, NEW seq \in [1 .. n -> S], NEW kept, Kept(kept, seq, T, n, S)
  PROVE  \A k \in 0 .. n : kept[k] \in Seq(T)
<1>1. kept[0] \in Seq(T)
  BY DEF Kept
<1>2. ASSUME NEW k \in 0 .. n - 1, kept[k] \in Seq(T) PROVE kept[k + 1] \in Seq(T)
  <2>1. kept[k + 1] = IF seq[k + 1] \in T THEN Append(kept[k], seq[k + 1]) ELSE kept[k]
    BY DEF Kept
  <2>2. CASE seq[k + 1] \in T
    BY <1>2, <2>1, <2>2
  <2>3. CASE seq[k + 1] \notin T
    BY <1>2, <2>1, <2>3
  <2> QED BY <2>2, <2>3
<1> QED BY <1>1, <1>2, LoopStays

\* What is kept of the first k rows, and the other rows where they were.
Sorted(a, b, A, k, n) ==
  [j \in 1 .. n |-> IF j <= Len(a) THEN a[j] ELSE IF j <= k THEN b[j - Len(a)] ELSE A[j]]

\* One more row is sorted.
LEMMA SortedNext ==
  ASSUME NEW n \in Nat, NEW A \in Square(n), NEW k \in 0 .. n - 1,
         NEW a \in Seq(Row(n)), NEW b \in Seq(Row(n)), Len(a) + Len(b) = k
  PROVE  /\ Sorted(a, Append(b, A[k + 1]), A, k + 1, n) = Sorted(a, b, A, k, n)
         /\ Sorted(Append(a, A[k + 1]), b, A, k + 1, n) = Rotated(Sorted(a, b, A, k, n), Len(a) + 1, k + 1, n)
<1> DEFINE l == Len(a)
<1> DEFINE row == A[k + 1]
<1>1. row \in Row(n) /\ l \in 0 .. k /\ Len(b) = k - l
  BY DEF Square, Row
<1>2. /\ Len(Append(b, row)) = (k - l) + 1 /\ Append(b, row)[(k - l) + 1] = row
      /\ \A i \in 1 .. k - l : Append(b, row)[i] = b[i]
  BY <1>1
<1>3. /\ Len(Append(a, row)) = l + 1 /\ Append(a, row)[l + 1] = row
      /\ \A i \in 1 .. l : Append(a, row)[i] = a[i]
  BY <1>1
<1>4. Sorted(a, Append(b, row), A, k + 1, n) = Sorted(a, b, A, k, n)
  <2>1. ASSUME NEW j \in 1 .. n
        PROVE  (IF j <= l THEN a[j] ELSE IF j <= k + 1 THEN Append(b, row)[j - l] ELSE A[j])
                 = IF j <= l THEN a[j] ELSE IF j <= k THEN b[j - l] ELSE A[j]
    <3>1. CASE j = k + 1
      <4>1. ~(j <= l) /\ j <= k + 1 /\ ~(j <= k) /\ j - l = (k - l) + 1
        BY <1>1, <3>1
      <4> QED BY <1>2, <3>1, <4>1
    <3>2. CASE j <= k /\ ~(j <= l)
      <4>1. j - l \in 1 .. k - l /\ j <= k + 1
        BY <1>1, <3>2
      <4> QED BY <1>2, <3>2, <4>1
    <3>3. CASE j <= l \/ j > k + 1
      BY <1>1, <3>3
    <3> QED BY <3>1, <3>2, <3>3
  <2> HIDE DEF row
  <2> QED BY <2>1 DEF Sorted, l
<1>5. Sorted(Append(a, row), b, A, k + 1, n) = Rotated(Sorted(a, b, A, k, n), l + 1, k + 1, n)
  <2> DEFINE M == Sorted(a, b, A, k, n)
  <2>1. \A j \in 1 .. n : M[j] = IF j <= l THEN a[j] ELSE IF j <= k THEN b[j - l] ELSE A[j]
    BY DEF Sorted
  <2> HIDE DEF M
  <2>2. ASSUME NEW j \in 1 .. n
        PROVE  (IF j <= l + 1 THEN Append(a, row)[j] ELSE IF j <= k + 1 THEN b[j - (l + 1)] ELSE A[j])
                 = IF j = l + 1 THEN M[k + 1] ELSE IF l + 1 < j /\ j <= k + 1 THEN M[j - 1] ELSE M[j]
    <3>1. CASE j = l + 1
      <4>1. k + 1 \in 1 .. n /\ ~(k + 1 <= l) /\ ~(k + 1 <= k)
        BY <1>1
      <4>2. M[k + 1] = row
        BY <2>1, <4>1
      <4> QED BY <1>1, <1>3, <3>1, <4>2
    <3>2. CASE l + 1 < j /\ j <= k + 1
      <4>1. j - 1 \in 1 .. n /\ ~(j - 1 <= l) /\ j - 1 <= k /\ (j - 1) - l = j - (l + 1) /\ ~(j <= l + 1) /\ j # l + 1
        BY <1>1, <3>2
      <4>2. M[j - 1] = b[(j - 1) - l]
        BY <2>1, <4>1
      <4> QED BY <3>2, <4>1, <4>2
    <3>3. CASE j <= l
      <4>1. j <= l + 1 /\ j # l + 1 /\ ~(l + 1 < j) /\ j \in 1 .. l
        BY <1>1, <3>3
      <4> QED BY <1>3, <2>1, <3>3, <4>1
    <3>4. CASE j > k + 1
      <4>1. ~(j <= l + 1) /\ ~(j <= k + 1) /\ ~(j <= k) /\ ~(j <= l) /\ j # l + 1
        BY <1>1, <3>4
      <4> QED BY <2>1, <4>1
    <3> QED BY <1>1, <3>1, <3>2, <3>3, <3>4
  <2>3. Len(Append(a, row)) = l + 1
    BY <1>3
  <2> HIDE DEF row, l
  <2>4. Sorted(Append(a, row), b, A, k + 1, n)
          = [j \in 1 .. n |-> IF j <= l + 1 THEN Append(a, row)[j] ELSE IF j <= k + 1 THEN b[j - (l + 1)] ELSE A[j]]
    BY <2>3 DEF Sorted
  <2> QED BY <2>2, <2>4 DEF Rotated, M
<1> QED BY <1>4, <1>5

\* The rows sorted by their first element have the determinant up to its sign.
LEMMA SortingChangesSign ==
  ASSUME NEW m \in Nat, NEW D, AreDeterminants(D, m), NEW n \in 1 .. m, NEW A \in Square(n)
  PROVE  /\ nlzRows(A) \in Seq(Leading(n)) /\ lzRows(A) \in Seq(Row(n) \ Leading(n))
         /\ Len(nlzRows(A)) + Len(lzRows(A)) = n
         /\ nlzRows(A) \o lzRows(A) \in Square(n)
         /\ UpToSign(D[n][nlzRows(A) \o lzRows(A)], D[n][A])
<1>1. n \in Nat /\ n \in 0 .. m /\ A \in [1 .. n -> Row(n)] /\ \A B \in Square(n) : D[n][B] \in Element
  <2>1. n \in Nat /\ n \in 0 .. m
    OBVIOUS
  <2>2. \A B \in Square(n) : D[n][B] \in Element
    BY <2>1 DEF AreDeterminants
  <2>3. A \in [1 .. n -> Row(n)]
    BY DEF Square, Row
  <2> QED BY <2>1, <2>2, <2>3
<1>2. PICK a : Kept(a, A, Leading(n), n, Row(n)) /\ nlzRows(A) = a[n]
  BY <1>1, NlzRowsKeeps
<1>3. PICK b : Kept(b, A, Row(n) \ Leading(n), n, Row(n)) /\ lzRows(A) = b[n]
  BY <1>1, LzRowsKeeps
<1>4. \A k \in 0 .. n : a[k] \in Seq(Leading(n)) /\ b[k] \in Seq(Row(n) \ Leading(n))
  <2>1. Leading(n) \in SUBSET Row(n) /\ Row(n) \ Leading(n) \in SUBSET Row(n)
    BY DEF Leading
  <2>2. \A k \in 0 .. n : a[k] \in Seq(Leading(n))
    BY <1>1, <1>2, <2>1, KeptAre
  <2>3. \A k \in 0 .. n : b[k] \in Seq(Row(n) \ Leading(n))
    BY <1>1, <1>3, <2>1, KeptAre
  <2> QED BY <2>2, <2>3
<1>5. \A k \in 0 .. n : a[k] \in Seq(Row(n)) /\ b[k] \in Seq(Row(n))
  BY <1>2, <1>3 DEF Kept
<1> DEFINE S(k) == Sorted(a[k], b[k], A, k, n)
<1> DEFINE P(k) == /\ Len(a[k]) + Len(b[k]) = k
                   /\ S(k) \in Square(n) /\ UpToSign(D[n][S(k)], D[n][A])
<1> DEFINE T == {k \in Nat : k <= n => P(k)}
<1>6. 0 \in T
  <2>1. a[0] = << >> /\ b[0] = << >>
    BY <1>2, <1>3 DEF Kept
  <2>2. Len(a[0]) = 0 /\ Len(b[0]) = 0
    BY <2>1
  <2>3. S(0) = [j \in 1 .. n |-> A[j]]
    BY <2>2 DEF Sorted
  <2>4. S(0) = A
    BY <2>3 DEF Square
  <2> HIDE DEF S
  <2>5. Len(a[0]) + Len(b[0]) = 0
    BY <2>2
  <2>6. P(0)
    BY <2>4, <2>5 DEF UpToSign
  <2> HIDE DEF P
  <2> QED BY <2>6
<1>7. ASSUME NEW k \in Nat, k \in T PROVE k + 1 \in T
  <2> HIDE DEF P
  <2> SUFFICES ASSUME k + 1 <= n PROVE P(k + 1)
    OBVIOUS
  <2>1. k \in 0 .. n - 1 /\ k \in 0 .. n /\ k + 1 \in 1 .. n
    BY <1>1
  <2>2. P(k)
    BY <1>7, <2>1
  <2>6. Len(a[k]) + Len(b[k]) = k
    <3> HIDE DEF S
    <3> QED BY <2>2 DEF P
  <2>7. S(k) \in Square(n) /\ UpToSign(D[n][S(k)], D[n][A])
    <3> HIDE DEF S
    <3> QED BY <2>2 DEF P
  <2>3. a[k] \in Seq(Row(n)) /\ b[k] \in Seq(Row(n)) /\ A[k + 1] \in Row(n)
    BY <1>1, <1>5, <2>1
  <2>8. /\ Sorted(a[k], Append(b[k], A[k + 1]), A, k + 1, n) = S(k)
        /\ Sorted(Append(a[k], A[k + 1]), b[k], A, k + 1, n) = Rotated(S(k), Len(a[k]) + 1, k + 1, n)
    <3> DEFINE x == a[k]
    <3> DEFINE y == b[k]
    <3>1. x \in Seq(Row(n)) /\ y \in Seq(Row(n)) /\ Len(x) + Len(y) = k
      BY <2>3, <2>6
    <3> HIDE DEF x, y
    <3>2. /\ Sorted(x, Append(y, A[k + 1]), A, k + 1, n) = Sorted(x, y, A, k, n)
          /\ Sorted(Append(x, A[k + 1]), y, A, k + 1, n) = Rotated(Sorted(x, y, A, k, n), Len(x) + 1, k + 1, n)
      BY <1>1, <2>1, <3>1, SortedNext
    <3> QED BY <3>2 DEF x, y
  <2>4. CASE A[k + 1] \in Leading(n)
    <3>1. a[k + 1] = Append(a[k], A[k + 1]) /\ b[k + 1] = b[k]
      BY <1>2, <1>3, <2>1, <2>4 DEF Kept
    <3>2. S(k + 1) = Rotated(S(k), Len(a[k]) + 1, k + 1, n)
      BY <2>8, <3>1
    <3>3. Len(a[k + 1]) = Len(a[k]) + 1 /\ Len(a[k]) \in Nat /\ Len(b[k]) \in Nat
      BY <2>3, <3>1
    <3>4. Len(a[k]) + 1 \in 1 .. k + 1 /\ Len(a[k + 1]) + Len(b[k + 1]) = k + 1
      <4> DEFINE x == Len(a[k])
      <4> DEFINE y == Len(b[k])
      <4>1. x \in Nat /\ y \in Nat /\ x + y = k
        BY <2>6, <3>3
      <4> HIDE DEF x, y
      <4>2. x + 1 \in 1 .. k + 1 /\ (x + 1) + y = k + 1
        BY <4>1
      <4>3. Len(a[k + 1]) = x + 1 /\ Len(b[k + 1]) = y
        BY <3>1, <3>3 DEF x, y
      <4> QED BY <4>2, <4>3 DEF x
    <3> HIDE DEF S
    <3>5. S(k + 1) \in Square(n) /\ UpToSign(D[n][S(k + 1)], D[n][S(k)])
      BY <2>1, <2>7, <3>2, <3>4, RotationsChangeSign
    <3>6. UpToSign(D[n][S(k + 1)], D[n][A])
      BY <1>1, <2>7, <3>5, SignsCombine
    <3> QED BY <3>4, <3>5, <3>6 DEF P
  <2>5. CASE A[k + 1] \notin Leading(n)
    <3>1. a[k + 1] = a[k] /\ b[k + 1] = Append(b[k], A[k + 1])
      BY <1>2, <1>3, <2>1, <2>3, <2>5 DEF Kept
    <3>2. S(k + 1) = S(k)
      BY <2>8, <3>1
    <3>3. Len(b[k + 1]) = Len(b[k]) + 1 /\ Len(a[k]) \in Nat /\ Len(b[k]) \in Nat
      BY <2>3, <3>1
    <3>4. Len(a[k + 1]) + Len(b[k + 1]) = k + 1
      <4> DEFINE x == Len(a[k])
      <4> DEFINE y == Len(b[k])
      <4>1. x \in Nat /\ y \in Nat /\ x + y = k
        BY <2>6, <3>3
      <4> HIDE DEF x, y
      <4>2. x + (y + 1) = k + 1
        BY <4>1
      <4>3. Len(a[k + 1]) = x /\ Len(b[k + 1]) = y + 1
        BY <3>1, <3>3 DEF x, y
      <4> QED BY <4>2, <4>3
    <3> HIDE DEF S
    <3> QED BY <2>7, <3>2, <3>4 DEF P
  <2> QED BY <2>4, <2>5
<1> HIDE DEF T
<1>8. n \in T
  BY <1>1, <1>6, <1>7, InductionOfNat
<1>9. Len(a[n]) + Len(b[n]) = n /\ S(n) \in Square(n) /\ UpToSign(D[n][S(n)], D[n][A])
  <2>1. P(n)
    <3> HIDE DEF P
    <3> QED BY <1>1, <1>8 DEF T
  <2> HIDE DEF S
  <2> QED BY <2>1
<1>10. S(n) = a[n] \o b[n]
  <2> DEFINE x == a[n]
  <2> DEFINE y == b[n]
  <2>1. x \in Seq(Row(n)) /\ y \in Seq(Row(n)) /\ Len(x) + Len(y) = n
    <3>1. n \in 0 .. n
      BY <1>1
    <3> HIDE DEF S
    <3> QED BY <1>5, <1>9, <3>1
  <2>2. S(n) = [j \in 1 .. n |-> IF j <= Len(x) THEN x[j] ELSE IF j <= n THEN y[j - Len(x)] ELSE A[j]]
    BY DEF Sorted
  <2> HIDE DEF x, y, S
  <2>3. x \o y = [j \in 1 .. n |-> IF j <= Len(x) THEN x[j] ELSE y[j - Len(x)]]
    <3>1. x \o y \in Seq(Row(n)) /\ Len(x \o y) = n
      BY <2>1
    <3>2. \A j \in 1 .. n : (x \o y)[j] = IF j <= Len(x) THEN x[j] ELSE y[j - Len(x)]
      BY <2>1
    <3>3. x \o y = [j \in 1 .. n |-> (x \o y)[j]]
      <4> DEFINE z == x \o y
      <4>1. z \in Seq(Row(n)) /\ Len(z) = n
        BY <3>1
      <4> HIDE DEF z
      <4>2. z = [j \in 1 .. n |-> z[j]]
        BY <4>1
      <4> QED BY <4>2 DEF z
    <3> QED BY <3>2, <3>3
  <2>4. \A j \in 1 .. n : j <= n
    OBVIOUS
  <2> QED BY <2>2, <2>3, <2>4 DEF x, y
<1> HIDE DEF S
<1>11. nlzRows(A) \in Seq(Leading(n)) /\ lzRows(A) \in Seq(Row(n) \ Leading(n))
  BY <1>1, <1>2, <1>3, <1>4
<1>12. nlzRows(A) \o lzRows(A) = S(n)
  BY <1>2, <1>3, <1>10
<1> QED BY <1>2, <1>3, <1>9, <1>11, <1>12

-----------------------------------------------------------------------------
\* Elimination.

\* The expansion along a first column that is zero, or zero below its first element.
LEMMA ExpansionOfZeros ==
  ASSUME NEW m \in Nat, NEW D, AreDeterminants(D, m), NEW n \in 1 .. m, NEW A \in Square(n),
         \A k \in 2 .. n : A[k][1] = 0
  PROVE  /\ A[1][1] \in Element /\ D[n - 1][Minor(A, 1, n)] \in Element
         /\ D[n][A] = mul(A[1][1], D[n - 1][Minor(A, 1, n)])
<1> DEFINE d == D[n - 1]
<1> DEFINE u == Cofactors(d, A, n)
<1>1. n \in Nat \ {0} /\ n \in Nat /\ n - 1 \in 0 .. m /\ 1 \in 1 .. n
  OBVIOUS
<1>2. \A C \in Square(n - 1) : d[C] \in Element
  BY <1>1 DEF AreDeterminants
<1>3. \A k \in 1 .. n : /\ A[k][1] \in Element /\ d[Minor(A, k, n)] \in Element
                        /\ u[k] \in Element /\ u[k] = mul(Alternating(k), mul(A[k][1], d[Minor(A, k, n)]))
  <2> HIDE DEF d
  <2> QED BY <1>1, <1>2, CofactorsAre
<1>4. D[n][A] = SumUpTo(u, n)
  BY DEF AreDeterminants
<1> HIDE DEF d, u
<1>5. ASSUME NEW k \in 1 .. n, k # 1 PROVE u[k] = 0
  <2>1. A[k][1] = 0 /\ Alternating(k) \in Element /\ d[Minor(A, k, n)] \in Element
    BY <1>3, <1>5, SignsAre
  <2>2. mul(0, d[Minor(A, k, n)]) = 0 /\ mul(Alternating(k), 0) = 0
    BY <2>1, FieldLaws
  <2> QED BY <1>3, <2>1, <2>2
<1>6. SumUpTo(u, n) = u[1]
  BY <1>1, <1>3, <1>5, SumOfOne
<1>7. u[1] = mul(A[1][1], d[Minor(A, 1, n)])
  <2>1. Alternating(1) = 1
    BY DEF Alternating
  <2>2. A[1][1] \in Element /\ d[Minor(A, 1, n)] \in Element
    BY <1>1, <1>3
  <2>3. mul(A[1][1], d[Minor(A, 1, n)]) \in Element
    BY <2>2, FieldClosed
  <2>4. mul(1, mul(A[1][1], d[Minor(A, 1, n)])) = mul(A[1][1], d[Minor(A, 1, n)])
    BY <2>3, FieldLaws
  <2> QED BY <1>1, <1>3, <2>1, <2>4
<1> QED BY <1>1, <1>3, <1>4, <1>6, <1>7 DEF d

\* Row j of the rows a \o b after a multiple of the first is subtracted from those of a.
Reduced(a, b, j, n) ==
  [k \in 1 .. n |-> IF j <= Len(a) THEN sub(a[j][k], mul(a[j][1], mul(inv(a[1][1]), a[1][k])))
                    ELSE b[j - Len(a)][k]]

\* The reduced rows are rows.
LEMMA ReducedIsRow ==
  ASSUME NEW n \in Nat \ {0}, NEW a \in Seq(Leading(n)), a # << >>, NEW b \in Seq(Row(n) \ Leading(n)),
         Len(a) + Len(b) = n, NEW j \in 1 .. n
  PROVE  Reduced(a, b, j, n) \in Row(n)
<1> SUFFICES ASSUME NEW k \in 1 .. n
             PROVE  (IF j <= Len(a) THEN sub(a[j][k], mul(a[j][1], mul(inv(a[1][1]), a[1][k])))
                     ELSE b[j - Len(a)][k]) \in Element
  BY DEF Reduced, Row
<1>1. Len(a) \in 1 .. n /\ Len(b) = n - Len(a) /\ 1 \in 1 .. n
  BY DEF Leading
<1>2. \A i \in 1 .. Len(a) : a[i] \in Leading(n)
  OBVIOUS
<1>3. \A i \in 1 .. Len(b) : b[i] \in Row(n)
  OBVIOUS
<1>4. CASE j <= Len(a)
  <2>1. a[j] \in Leading(n) /\ a[1] \in Leading(n)
    BY <1>1, <1>2, <1>4
  <2>2. a[j][k] \in Element /\ a[j][1] \in Element /\ a[1][k] \in Element /\ a[1][1] \in Element /\ a[1][1] # 0
    BY <1>1, <2>1 DEF Leading, Row
  <2>3. inv(a[1][1]) \in Element
    BY <2>2, InverseExists
  <2> QED BY <1>4, <2>2, <2>3, FieldClosed
<1>5. CASE ~(j <= Len(a))
  <2>1. j - Len(a) \in 1 .. Len(b)
    BY <1>1, <1>5
  <2>2. b[j - Len(a)] \in Row(n)
    BY <1>3, <2>1
  <2> QED BY <1>5, <2>2 DEF Row
<1> QED BY <1>4, <1>5

\* The reduced rows but the first, without their first column.
ReducedRows(a, b, n) == [r \in 1 .. n - 1 |-> [c \in 1 .. n - 1 |-> Reduced(a, b, r + 1, n)[c + 1]]]

\* They are what Eliminated returns.
LEMMA EliminatedIs ==
  ASSUME NEW n \in Nat \ {0}, NEW A, NEW a \in Seq(Leading(n)), a # << >>, NEW b \in Seq(Row(n) \ Leading(n)),
         Len(a) + Len(b) = n, nlzRows(A) = a, lzRows(A) = b
  PROVE  Eliminated(A) = ReducedRows(a, b, n)
<1> DEFINE l == Len(a)
<1> DEFINE normalized == [k \in DOMAIN Head(a) |-> mul(inv(Head(a)[1]), Head(a)[k])]
<1> DEFINE processed == [i \in 1 .. Len(a) - 1 |->
              LET row == a[i + 1] IN [k \in DOMAIN row |-> sub(row[k], mul(row[1], normalized[k]))]]
<1> DEFINE remaining == processed \o b
<1>1. Eliminated(A) = [i \in DOMAIN remaining |-> Tail(remaining[i])]
  BY DEF Eliminated, Eliminate
<1>2. l \in 1 .. n /\ Len(b) = n - l /\ Len(b) \in Nat /\ 1 \in 1 .. n
  BY DEF Leading
<1>3. Head(a) = a[1]
  BY <1>2
<1>4. \A i \in 1 .. l : a[i] \in [1 .. n -> Element] /\ DOMAIN a[i] = 1 .. n
  BY DEF Leading, Row
<1>5. \A k \in 1 .. n : normalized[k] = mul(inv(a[1][1]), a[1][k])
  BY <1>2, <1>3, <1>4
<1> HIDE DEF normalized
<1>6. ASSUME NEW i \in 1 .. l - 1
      PROVE  processed[i] = Reduced(a, b, i + 1, n) /\ processed[i] \in Row(n)
  <2>1. i + 1 \in 1 .. l /\ i + 1 <= l /\ i + 1 \in 1 .. n
    BY <1>2
  <2>2. DOMAIN a[i + 1] = 1 .. n
    BY <1>4, <2>1
  <2>3. processed[i] = [k \in 1 .. n |-> sub(a[i + 1][k], mul(a[i + 1][1], normalized[k]))]
    BY <2>2
  <2> HIDE DEF processed
  <2>4. processed[i] = Reduced(a, b, i + 1, n)
    BY <1>5, <2>1, <2>3 DEF Reduced
  <2> QED BY <1>2, <2>1, <2>4, ReducedIsRow
<1>7. processed \in Seq(Row(n)) /\ Len(processed) = l - 1
  <2>1. processed \in [1 .. l - 1 -> Row(n)] /\ l - 1 \in Nat
    BY <1>2, <1>6
  <2> HIDE DEF processed, l
  <2> QED BY <2>1, RowsAndLength
<1> HIDE DEF processed
<1>8. DOMAIN remaining = 1 .. n - 1 /\ remaining \in Seq(Row(n))
  <2>1. b \in Seq(Row(n))
    OBVIOUS
  <2>2. remaining \in Seq(Row(n)) /\ Len(remaining) = (l - 1) + Len(b)
    BY <1>7, <2>1
  <2>3. DOMAIN remaining = 1 .. Len(remaining)
    BY <2>2
  <2> QED BY <1>2, <2>2, <2>3
<1>9. ASSUME NEW r \in 1 .. n - 1 PROVE remaining[r] = Reduced(a, b, r + 1, n)
  <2>1. CASE r <= l - 1
    <3>1. r \in 1 .. l - 1
      BY <2>1
    <3>2. remaining[r] = processed[r]
      BY <1>7, <3>1
    <3>3. processed[r] = Reduced(a, b, r + 1, n)
      BY <1>6, <3>1
    <3> QED BY <3>2, <3>3
  <2>2. CASE ~(r <= l - 1)
    <3>1. r - (l - 1) \in 1 .. Len(b) /\ r - (l - 1) = (r + 1) - l /\ ~(r + 1 <= l) /\ r \in (l - 1) + 1 .. (l - 1) + Len(b)
      BY <1>2, <2>2
    <3>2. remaining[r] = b[r - (l - 1)]
      BY <1>2, <1>7, <3>1
    <3>3. b[(r + 1) - l] \in Row(n)
      BY <3>1
    <3>4. b[(r + 1) - l] = [k \in 1 .. n |-> b[(r + 1) - l][k]]
      BY <3>3 DEF Row
    <3>5. Reduced(a, b, r + 1, n) = [k \in 1 .. n |-> b[(r + 1) - l][k]]
      BY <3>1 DEF Reduced
    <3> QED BY <3>1, <3>2, <3>4, <3>5
  <2> QED BY <2>1, <2>2
<1> HIDE DEF remaining
<1>10. ASSUME NEW r \in 1 .. n - 1
       PROVE  Tail(remaining[r]) = [c \in 1 .. n - 1 |-> Reduced(a, b, r + 1, n)[c + 1]]
  <2> DEFINE row == remaining[r]
  <2>1. row \in [1 .. n -> Element] /\ n \in Nat
    BY <1>8 DEF Row
  <2>2. row = Reduced(a, b, r + 1, n)
    BY <1>9
  <2> HIDE DEF row
  <2>3. Len(row) = n /\ row \in Seq(Element)
    BY <2>1, RowsAndLength
  <2>4. Tail(row) = [c \in 1 .. n - 1 |-> row[c + 1]]
    <3>1. row # << >> /\ Len(row) = n
      BY <2>3
    <3>2. Tail(row) \in Seq(Element) /\ Len(Tail(row)) = n - 1 /\ \A c \in 1 .. n - 1 : Tail(row)[c] = row[c + 1]
      BY <2>3, <3>1
    <3> DEFINE z == Tail(row)
    <3>3. z \in Seq(Element) /\ Len(z) = n - 1 /\ \A c \in 1 .. n - 1 : z[c] = row[c + 1]
      BY <3>2
    <3> HIDE DEF z
    <3>4. z = [c \in 1 .. n - 1 |-> z[c]]
      BY <3>3
    <3> QED BY <3>3, <3>4 DEF z
  <2> QED BY <2>2, <2>4 DEF row
<1> QED BY <1>1, <1>8, <1>10 DEF ReducedRows

\* The sign of either.
LEMMA SignOfEither ==
  ASSUME NEW x \in Element, NEW y \in Element, UpToSign(x, y)
  PROVE  UpToSign(y, x)
<1>1. MinusOne \in Element /\ mul(MinusOne, MinusOne) = 1
  BY SignsChange
<1>2. mul(MinusOne, mul(MinusOne, y)) = mul(mul(MinusOne, MinusOne), y) /\ mul(1, y) = y
  BY <1>1, FieldLaws
<1> QED BY <1>1, <1>2 DEF UpToSign

\* Without a row that does not begin with zero the determinant is zero.
LEMMA NoPivotIsSingular ==
  ASSUME NEW m \in Nat, NEW D, AreDeterminants(D, m), NEW n \in 1 .. m, NEW A \in Square(n), nlzRows(A) = << >>
  PROVE  D[n][A] = 0
<1> DEFINE b == lzRows(A)
<1>1. n \in Nat \ {0} /\ n \in 0 .. m /\ 1 \in 1 .. n
  OBVIOUS
<1>2. /\ nlzRows(A) \in Seq(Leading(n)) /\ b \in Seq(Row(n) \ Leading(n))
      /\ Len(nlzRows(A)) + Len(b) = n
      /\ nlzRows(A) \o b \in Square(n) /\ UpToSign(D[n][nlzRows(A) \o b], D[n][A])
  BY SortingChangesSign
<1> HIDE DEF b
<1>3. b \in Seq(Row(n) \ Leading(n)) /\ Len(b) = n /\ << >> \o b = b
  <2>1. Len(nlzRows(A)) = 0 /\ Len(b) \in Nat
    BY <1>2
  <2> QED BY <1>2, <2>1
<1>4. b \in Square(n) /\ UpToSign(D[n][b], D[n][A])
  BY <1>2, <1>3
<1>5. \A k \in 1 .. n : b[k][1] = 0
  <2>1. \A k \in 1 .. n : b[k] \in Row(n) \ Leading(n)
    BY <1>3
  <2> QED BY <2>1 DEF Leading
<1>6. /\ D[n - 1][Minor(b, 1, n)] \in Element
      /\ D[n][b] = mul(b[1][1], D[n - 1][Minor(b, 1, n)])
  <2>1. \A k \in 2 .. n : b[k][1] = 0
    BY <1>5
  <2> QED BY <1>4, <2>1, ExpansionOfZeros
<1>7. D[n][b] = 0
  <2> DEFINE z == D[n - 1][Minor(b, 1, n)]
  <2>1. z \in Element /\ D[n][b] = mul(0, z)
    BY <1>1, <1>5, <1>6
  <2> HIDE DEF z
  <2> QED BY <2>1, FieldLaws
<1>8. D[n][A] \in Element /\ 0 \in Element /\ MinusOne \in Element
  BY <1>1, SignsChange, FieldClosed DEF AreDeterminants
<1>9. UpToSign(D[n][A], 0)
  BY <1>4, <1>7, <1>8, SignOfEither
<1>10. mul(MinusOne, 0) = 0
  BY <1>8, FieldLaws
<1> QED BY <1>9, <1>10 DEF UpToSign

\* A difference is the sum with the opposite, and zero with the same.
LEMMA DifferenceIsSum ==
  /\ \A x, y \in Element : sub(x, y) = add(x, mul(MinusOne, y))
  /\ \A x \in Element : sub(x, x) = 0
<1>1. MinusOne \in Element
  BY SignsChange
<1>2. ASSUME NEW y \in Element PROVE add(y, mul(MinusOne, y)) = 0
  <2>1. mul(y, add(1, MinusOne)) = add(mul(y, 1), mul(y, MinusOne)) /\ mul(y, MinusOne) = mul(MinusOne, y)
    BY <1>1, FieldLaws
  <2>2. mul(y, 1) = mul(1, y) /\ mul(1, y) = y /\ mul(y, 0) = 0
    BY FieldLaws
  <2>3. add(1, MinusOne) = 0
    <3>1. Order \in Nat /\ Order > 2 /\ 1 + (Order - 1) = Order /\ Order % Order = 0
      BY OrderIsOdd
    <3>2. MinusOne = Order - 1
      BY <3>1 DEF MinusOne
    <3> QED BY <3>1, <3>2 DEF add
  <2> QED BY <2>1, <2>2, <2>3
<1>3. ASSUME NEW x \in Element, NEW y \in Element PROVE sub(x, y) = add(x, mul(MinusOne, y))
  <2> DEFINE o == mul(MinusOne, y)
  <2>1. o \in Element
    BY <1>1, FieldClosed
  <2>2. add(o, y) = 0
    BY <1>2, <2>1, FieldLaws
  <2> HIDE DEF o
  <2>3. add(add(x, o), y) = add(x, add(o, y)) /\ add(x, 0) = x /\ add(x, o) \in Element
    BY <2>1, FieldLaws
  <2>4. sub(add(add(x, o), y), y) = add(x, o)
    BY <2>3, FieldLaws
  <2> QED BY <2>2, <2>3, <2>4 DEF o
<1>4. \A x \in Element : sub(x, x) = 0
  <2>1. \A x \in Element : x \in Int /\ x - x = 0
    BY OrderIsOdd DEF Element
  <2>2. Order \in Nat /\ Order > 2 /\ 0 % Order = 0
    BY OrderIsOdd
  <2> QED BY <2>1, <2>2 DEF sub
<1> QED BY <1>3, <1>4

\* What is added to the rows.
Multipliers(a, n) ==
  [j \in 1 .. n |-> IF j <= Len(a) THEN mul(MinusOne, mul(a[j][1], inv(a[1][1]))) ELSE 0]

\* The reduced rows come of multiples of the first row and begin with zero.
LEMMA ReducedIs ==
  ASSUME NEW n \in Nat \ {0}, NEW a \in Seq(Leading(n)), a # << >>, NEW b \in Seq(Row(n) \ Leading(n)),
         Len(a) + Len(b) = n
  PROVE  /\ Multipliers(a, n) \in [1 .. n -> Element]
         /\ \A j \in 2 .. n :
              /\ Reduced(a, b, j, n) = Plus((a \o b)[j], Multipliers(a, n)[j], (a \o b)[1], n)
              /\ Reduced(a, b, j, n)[1] = 0
<1> DEFINE f == Multipliers(a, n)
<1> DEFINE p == a[1][1]
<1>1. Len(a) \in 1 .. n /\ Len(b) = n - Len(a) /\ 1 \in 1 .. n
  BY DEF Leading
<1>2. \A i \in 1 .. Len(a) : a[i] \in Row(n) /\ a[i][1] # 0
  BY DEF Leading
<1>3. \A i \in 1 .. Len(b) : b[i] \in Row(n) /\ b[i][1] = 0
  BY DEF Leading
<1>4. p \in Element /\ inv(p) \in Element /\ mul(p, inv(p)) = 1 /\ MinusOne \in Element
  <2>1. p \in Element /\ p # 0
    BY <1>1, <1>2 DEF Row
  <2> HIDE DEF p
  <2> QED BY <2>1, InverseExists, SignsChange
<1>5. \A j \in 1 .. Len(a) : f[j] = mul(MinusOne, mul(a[j][1], inv(p))) /\ a[j][1] \in Element
  BY <1>1, <1>2 DEF Multipliers, Row
<1>6. \A j \in 1 .. n : ~(j <= Len(a)) => f[j] = 0
  BY DEF Multipliers
<1>7. f \in [1 .. n -> Element]
  <2>1. ASSUME NEW j \in 1 .. n PROVE f[j] \in Element
    <3>1. CASE j <= Len(a)
      <4>1. j \in 1 .. Len(a)
        BY <3>1
      <4> HIDE DEF f, p
      <4> QED BY <1>4, <1>5, <4>1, FieldClosed
    <3>2. CASE ~(j <= Len(a))
      BY <1>6, <3>2, FieldClosed
    <3> QED BY <3>1, <3>2
  <2>2. f = [j \in 1 .. n |-> f[j]]
    BY DEF Multipliers
  <2> HIDE DEF f
  <2> QED BY <2>1, <2>2
<1>8. (a \o b)[1] = a[1] /\ \A j \in 1 .. n : (a \o b)[j] = IF j <= Len(a) THEN a[j] ELSE b[j - Len(a)]
  BY <1>1
<1> HIDE DEF f, p
<1>9. ASSUME NEW j \in 2 .. n, j <= Len(a)
      PROVE  Reduced(a, b, j, n) = Plus(a[j], f[j], a[1], n) /\ Reduced(a, b, j, n)[1] = 0
  <2>1. j \in 1 .. Len(a) /\ 1 \in 1 .. Len(a)
    BY <1>1, <1>9
  <2>2. \A k \in 1 .. n : a[j][k] \in Element /\ a[1][k] \in Element
    BY <1>2, <2>1 DEF Row
  <2> DEFINE x == a[j][1]
  <2>3. x \in Element /\ f[j] = mul(MinusOne, mul(x, inv(p)))
    BY <1>5, <2>1
  <2> HIDE DEF x
  <2>4. ASSUME NEW k \in 1 .. n
        PROVE  sub(a[j][k], mul(x, mul(inv(p), a[1][k]))) = add(a[j][k], mul(f[j], a[1][k]))
    <3> DEFINE y == a[1][k]
    <3> DEFINE z == a[j][k]
    <3>1. y \in Element /\ z \in Element
      BY <2>2
    <3> HIDE DEF y, z
    <3>2. mul(x, mul(inv(p), y)) \in Element /\ mul(x, inv(p)) \in Element
      BY <1>4, <2>3, <3>1, FieldClosed
    <3>3. sub(z, mul(x, mul(inv(p), y))) = add(z, mul(MinusOne, mul(x, mul(inv(p), y))))
      BY <3>1, <3>2, DifferenceIsSum
    <3>4. mul(mul(x, inv(p)), y) = mul(x, mul(inv(p), y))
      BY <1>4, <2>3, <3>1, FieldLaws
    <3>5. mul(mul(MinusOne, mul(x, inv(p))), y) = mul(MinusOne, mul(mul(x, inv(p)), y))
      BY <1>4, <3>1, <3>2, FieldLaws
    <3> QED BY <2>3, <3>3, <3>4, <3>5 DEF y, z
  <2>5. Reduced(a, b, j, n) = [k \in 1 .. n |-> sub(a[j][k], mul(x, mul(inv(p), a[1][k])))]
    BY <1>9 DEF Reduced, x, p
  <2>6. Reduced(a, b, j, n) = Plus(a[j], f[j], a[1], n)
    BY <2>4, <2>5 DEF Plus
  <2>7. Reduced(a, b, j, n)[1] = sub(x, mul(x, mul(inv(p), p)))
    BY <1>1, <2>5 DEF x, p
  <2>8. mul(inv(p), p) = 1 /\ mul(x, 1) = x
    BY <1>4, <2>3, FieldLaws
  <2> QED BY <2>3, <2>6, <2>7, <2>8, DifferenceIsSum
<1>10. ASSUME NEW j \in 2 .. n, ~(j <= Len(a))
       PROVE  Reduced(a, b, j, n) = Plus(b[j - Len(a)], f[j], a[1], n) /\ Reduced(a, b, j, n)[1] = 0
  <2>1. j - Len(a) \in 1 .. Len(b) /\ 1 \in 1 .. Len(a) /\ j \in 1 .. n
    BY <1>1, <1>10
  <2>2. \A k \in 1 .. n : b[j - Len(a)][k] \in Element /\ a[1][k] \in Element
    BY <1>2, <1>3, <2>1 DEF Row
  <2>3. f[j] = 0
    BY <1>6, <1>10, <2>1
  <2>4. ASSUME NEW k \in 1 .. n PROVE add(b[j - Len(a)][k], mul(f[j], a[1][k])) = b[j - Len(a)][k]
    <3> DEFINE y == a[1][k]
    <3> DEFINE z == b[j - Len(a)][k]
    <3>1. y \in Element /\ z \in Element
      BY <2>2
    <3> HIDE DEF y, z
    <3>2. add(z, mul(0, y)) = z
      BY <3>1, FieldLaws
    <3> QED BY <2>3, <3>2 DEF y, z
  <2>5. Reduced(a, b, j, n) = [k \in 1 .. n |-> b[j - Len(a)][k]]
    BY <1>10 DEF Reduced
  <2>6. Reduced(a, b, j, n)[1] = 0
    BY <1>1, <1>3, <2>1, <2>5
  <2> QED BY <2>4, <2>5, <2>6 DEF Plus
<1> QED BY <1>7, <1>8, <1>9, <1>10 DEF f

\* A round of det takes the first element of the pivot row out of the determinant, up to its sign.
LEMMA EliminationStep ==
  ASSUME NEW m \in Nat, NEW D, AreDeterminants(D, m), NEW n \in 1 .. m, NEW A \in Square(n), nlzRows(A) # << >>
  PROVE  /\ Eliminated(A) \in Square(n - 1)
         /\ Head(nlzRows(A))[1] \in Element \ {0}
         /\ UpToSign(D[n][A], mul(Head(nlzRows(A))[1], D[n - 1][Eliminated(A)]))
<1> DEFINE a == nlzRows(A)
<1> DEFINE b == lzRows(A)
<1> DEFINE S == a \o b
<1> DEFINE f == Multipliers(a, n)
<1> DEFINE E == MultiplesAdded(S, f, n, n)
<1> DEFINE p == Head(a)[1]
<1>1. n \in Nat \ {0} /\ n \in 0 .. m /\ n - 1 \in 0 .. m /\ 1 \in 1 .. n
  OBVIOUS
<1>2. /\ a \in Seq(Leading(n)) /\ b \in Seq(Row(n) \ Leading(n)) /\ Len(a) + Len(b) = n
      /\ S \in Square(n) /\ UpToSign(D[n][S], D[n][A])
  BY SortingChangesSign
<1>3. a # << >> /\ nlzRows(A) = a /\ lzRows(A) = b
  OBVIOUS
<1> HIDE DEF a, b, S
<1>4. Eliminated(A) = ReducedRows(a, b, n)
  <2>1. a \in Seq(Leading(n)) /\ b \in Seq(Row(n) \ Leading(n)) /\ Len(a) + Len(b) = n
    BY <1>2
  <2> QED BY <1>1, <1>3, <2>1, EliminatedIs
<1>5. Len(a) \in 1 .. n /\ Head(a) = a[1] /\ S[1] = a[1] /\ a[1] \in Leading(n)
  <2>1. a \in Seq(Row(n)) /\ b \in Seq(Row(n)) /\ Len(a) + Len(b) = n
    BY <1>2 DEF Leading
  <2>2. Len(a) \in 1 .. n
    BY <1>3, <2>1
  <2>3. a[1] \in Leading(n)
    BY <1>2, <2>2
  <2>4. Head(a) = a[1]
    BY <1>3, <2>1
  <2>5. S[1] = a[1]
    BY <2>1, <2>2 DEF S
  <2> QED BY <2>2, <2>3, <2>4, <2>5
<1>6. p \in Element \ {0} /\ p = S[1][1]
  BY <1>1, <1>5 DEF Leading, Row
<1>7. /\ f \in [1 .. n -> Element]
      /\ \A j \in 2 .. n : Reduced(a, b, j, n) = Plus(S[j], f[j], S[1], n) /\ Reduced(a, b, j, n)[1] = 0
  BY <1>1, <1>2, <1>3, ReducedIs DEF S
<1> HIDE DEF f, p
<1>8. E \in Square(n) /\ D[n][E] = D[n][S]
  <2>1. S \in Square(n) /\ f \in [1 .. n -> Element]
    BY <1>2, <1>7
  <2> QED BY <2>1, AllMultiplesAdded
<1>9. E[1] = S[1] /\ \A j \in 2 .. n : E[j] = Reduced(a, b, j, n)
  BY <1>1, <1>7 DEF MultiplesAdded
<1> HIDE DEF E
<1>10. E[1][1] \in Element /\ D[n - 1][Minor(E, 1, n)] \in Element /\ D[n][E] = mul(E[1][1], D[n - 1][Minor(E, 1, n)])
  <2>1. \A k \in 2 .. n : E[k][1] = 0
    BY <1>7, <1>9
  <2> QED BY <1>8, <2>1, ExpansionOfZeros
<1>11. Minor(E, 1, n) = Eliminated(A)
  <2>1. ASSUME NEW r \in 1 .. n - 1 PROVE E[IF r < 1 THEN r ELSE r + 1] = Reduced(a, b, r + 1, n)
    <3>1. ~(r < 1) /\ r + 1 \in 2 .. n
      OBVIOUS
    <3> QED BY <1>9, <3>1
  <2> QED BY <1>4, <2>1 DEF Minor, ReducedRows
<1>12. Eliminated(A) \in Square(n - 1)
  BY <1>1, <1>8, <1>11, MinorIsSquare
<1>13. UpToSign(D[n][A], mul(p, D[n - 1][Eliminated(A)]))
  <2>1. D[n][S] = mul(p, D[n - 1][Eliminated(A)])
    BY <1>6, <1>8, <1>9, <1>10, <1>11
  <2>2. D[n][S] \in Element /\ D[n][A] \in Element
    BY <1>1, <1>2 DEF AreDeterminants
  <2> QED BY <1>2, <2>1, <2>2, SignOfEither
<1> QED BY <1>6, <1>12, <1>13 DEF p, a

\* A round of det, and the states of its loop.
DetRound(s) ==
  IF s.det = 0 \/ nlzRows(s.rows) = << >> THEN [det |-> 0, rows |-> << >>]
  ELSE [det |-> mul(s.det, Head(nlzRows(s.rows))[1]), rows |-> Eliminated(s.rows)]

DetStates == [det : Element, rows : {<< >>} \cup UNION {Square(k) : k \in Nat}]

\* What is left of the determinant of A when size rows are left.
Remains(s, D, A, n, size) ==
  /\ s \in DetStates
  /\ s.det = 0 => D[n][A] = 0
  /\ s.det # 0 => s.rows \in Square(size) /\ UpToSign(D[n][A], mul(s.det, D[size][s.rows]))

\* At first all of it is.
LEMMA RemainsAtFirst ==
  ASSUME NEW m \in Nat, NEW D, AreDeterminants(D, m), NEW A \in Square(m)
  PROVE  Remains([det |-> 1, rows |-> A], D, A, m, m)
<1>1. m \in 0 .. m
  OBVIOUS
<1>2. D[m][A] \in Element
  BY <1>1 DEF AreDeterminants
<1>3. mul(1, D[m][A]) = D[m][A]
  BY <1>2, FieldLaws
<1>4. [det |-> 1, rows |-> A] \in DetStates
  BY FieldClosed DEF DetStates
<1> QED BY <1>3, <1>4 DEF Remains, UpToSign

\* A round leaves the rest.
LEMMA RemainsNext ==
  ASSUME NEW m \in Nat, NEW D, AreDeterminants(D, m), NEW A \in Square(m), NEW k \in 1 .. m,
         NEW s, Remains(s, D, A, m, k)
  PROVE  Remains(DetRound(s), D, A, m, k - 1)
<1> DEFINE d == s.det
<1> DEFINE R == s.rows
<1> DEFINE x == D[m][A]
<1>1. k - 1 \in Nat /\ k - 1 \in 0 .. m /\ k \in 0 .. m /\ m \in 0 .. m
  OBVIOUS
<1>2. x \in Element /\ MinusOne \in Element /\ 0 \in Element /\ mul(MinusOne, 0) = 0
  <2>1. x \in Element
    BY <1>1 DEF AreDeterminants
  <2>2. MinusOne \in Element
    BY SignsChange
  <2> QED BY <2>1, <2>2, FieldLaws
<1>3. d \in Element
  BY DEF Remains, DetStates
<1>4. CASE d = 0 \/ nlzRows(R) = << >>
  <2>1. DetRound(s) = [det |-> 0, rows |-> << >>]
    BY <1>4 DEF DetRound
  <2>2. x = 0
    <3>1. CASE d = 0
      BY <3>1 DEF Remains
    <3>2. CASE d # 0
      <4>1. R \in Square(k) /\ UpToSign(x, mul(d, D[k][R])) /\ nlzRows(R) = << >>
        BY <1>4, <3>2 DEF Remains
      <4> HIDE DEF d, R, x
      <4>2. D[k][R] = 0
        BY <4>1, NoPivotIsSingular
      <4>3. mul(d, 0) = 0
        BY <1>3, FieldLaws
      <4> QED BY <1>2, <4>1, <4>2, <4>3 DEF UpToSign
    <3> QED BY <3>1, <3>2
  <2>3. [det |-> 0, rows |-> << >>] \in DetStates
    BY <1>2 DEF DetStates
  <2> QED BY <2>1, <2>2, <2>3 DEF Remains
<1>5. CASE d # 0 /\ nlzRows(R) # << >>
  <2> DEFINE p == Head(nlzRows(R))[1]
  <2> DEFINE Q == Eliminated(R)
  <2>1. DetRound(s) = [det |-> mul(d, p), rows |-> Q]
    BY <1>5 DEF DetRound
  <2>2. R \in Square(k) /\ UpToSign(x, mul(d, D[k][R]))
    BY <1>5 DEF Remains
  <2> HIDE DEF d, R, x
  <2>3. /\ Q \in Square(k - 1) /\ p \in Element \ {0}
        /\ UpToSign(D[k][R], mul(p, D[k - 1][Q]))
    BY <1>5, <2>2, EliminationStep
  <2> HIDE DEF p, Q
  <2> DEFINE y == D[k][R]
  <2> DEFINE z == D[k - 1][Q]
  <2>4. y \in Element /\ z \in Element
    BY <1>1, <2>2, <2>3 DEF AreDeterminants
  <2>5. UpToSign(x, mul(d, y)) /\ UpToSign(y, mul(p, z))
    BY <2>2, <2>3
  <2> HIDE DEF y, z
  <2>6. mul(p, z) \in Element /\ mul(d, y) \in Element /\ mul(d, mul(p, z)) \in Element /\ mul(mul(d, p), z) = mul(d, mul(p, z))
    <3>1. p \in Element
      BY <2>3
    <3>2. mul(p, z) \in Element /\ mul(d, y) \in Element
      BY <1>3, <2>4, <3>1, FieldClosed
    <3>3. mul(d, mul(p, z)) \in Element
      BY <1>3, <3>2, FieldClosed
    <3> QED BY <1>3, <2>4, <3>1, <3>2, <3>3, FieldLaws
  <2>7. UpToSign(mul(d, y), mul(d, mul(p, z)))
    BY <1>3, <2>4, <2>5, <2>6, SignsCombine
  <2>8. UpToSign(x, mul(mul(d, p), z))
    BY <1>2, <2>5, <2>6, <2>7, SignsCombine
  <2>9. mul(d, p) \in Element /\ mul(d, p) # 0
    BY <1>3, <1>5, <2>3, MulCancels, FieldClosed
  <2>10. [det |-> mul(d, p), rows |-> Q] \in DetStates
    BY <1>1, <2>3, <2>9 DEF DetStates
  <2> QED BY <2>1, <2>3, <2>8, <2>9, <2>10 DEF Remains, x, z
<1> QED BY <1>4, <1>5

\* det returns the determinant up to its sign (rescue-cipher.ts:431-456).
LEMMA DetIsDeterminant ==
  ASSUME NEW n \in Nat, NEW A \in Square(n)
  PROVE  det(A) \in Element /\ Determinant(A) \in Element /\ UpToSign(Determinant(A), det(A))
<1> DEFINE D == Determinants(n)
<1> DEFINE V == DetStates
<1> DEFINE First == [det |-> 1, rows |-> A]
<1> DEFINE G == [i \in Nat |-> [s \in V |-> IF DetRound(s) \in V THEN DetRound(s) ELSE s]]
<1>1. AreDeterminants(D, n)
  BY DeterminantsExist
<1>2. Len(A) = n
  BY RowsAndLength DEF Square
<1>3. Determinant(A) = D[n][A]
  BY <1>2 DEF Determinant
<1> HIDE DEF D
<1>4. Remains(First, D, A, n, n)
  BY <1>1, RemainsAtFirst
<1>5. First \in V
  BY <1>4 DEF Remains
<1>6. G \in Steps(V)
  BY DEF Steps
<1> HIDE DEF V, First
<1>7. PICK f \in [0 .. n -> V] : Loops(f, n, First, G)
  <2> HIDE DEF G
  <2> QED BY <1>5, <1>6, LoopExists
<1>8. f[0] = First
  BY <1>7 DEF Loops
<1>9. ASSUME NEW i \in 0 .. n - 1, Remains(f[i], D, A, n, n - i)
      PROVE  f[i + 1] = DetRound(f[i]) /\ Remains(f[i + 1], D, A, n, n - (i + 1))
  <2>1. n - i \in 1 .. n /\ (n - i) - 1 = n - (i + 1)
    OBVIOUS
  <2>2. Remains(DetRound(f[i]), D, A, n, n - (i + 1))
    BY <1>1, <1>9, <2>1, RemainsNext
  <2>3. DetRound(f[i]) \in V
    BY <2>2 DEF Remains, V
  <2>4. f[i + 1] = G[i][f[i]] /\ i \in Nat /\ f[i] \in V
    BY <1>7 DEF Loops
  <2>5. f[i + 1] = DetRound(f[i])
    BY <2>3, <2>4
  <2> QED BY <2>2, <2>5
<1> HIDE DEF G
<1>10. \A i \in 0 .. n : Remains(f[i], D, A, n, n - i)
  <2> DEFINE T == {i \in Nat : i <= n => Remains(f[i], D, A, n, n - i)}
  <2>1. 0 \in T
    <3>1. n - 0 = n
      OBVIOUS
    <3> QED BY <1>4, <1>8, <3>1
  <2>2. ASSUME NEW i \in Nat, i \in T PROVE i + 1 \in T
    <3>1. i + 1 <= n => i \in 0 .. n - 1 /\ i <= n
      OBVIOUS
    <3> QED BY <1>9, <2>2, <3>1
  <2> HIDE DEF T
  <2>3. Nat \subseteq T
    BY <2>1, <2>2, InductionOfNat
  <2> QED BY <2>3 DEF T
<1> DEFINE Def(g) ==
      [i \in 0 .. Len(A) |->
         IF i = 0 THEN [det |-> 1, rows |-> A]
         ELSE LET s == g[i - 1]
              IN  IF s.det = 0 \/ nlzRows(s.rows) = << >> THEN [det |-> 0, rows |-> << >>]
                  ELSE [det |-> mul(s.det, Head(nlzRows(s.rows))[1]), rows |-> Eliminated(s.rows)]]
<1>11. f = Def(f)
  <2>1. ASSUME NEW i \in 0 .. n
        PROVE  f[i] = IF i = 0 THEN [det |-> 1, rows |-> A] ELSE DetRound(f[i - 1])
    <3>1. CASE i # 0
      <4>1. i - 1 \in 0 .. n - 1 /\ (i - 1) + 1 = i /\ i - 1 \in 0 .. n
        BY <3>1
      <4> QED BY <1>9, <1>10, <3>1, <4>1
    <3> QED BY <1>8, <3>1 DEF First
  <2> QED BY <1>2, <2>1 DEF DetRound
<1> DEFINE step == CHOOSE g : g = Def(g)
<1>12. step = Def(step)
  BY <1>11
<1>13. det(A) = step[n].det
  BY <1>2 DEF det
<1> HIDE DEF step
<1>14. step[n] = f[n]
  <2>1. step[0] = f[0]
    BY <1>2, <1>11, <1>12
  <2>2. ASSUME NEW i \in 0 .. n - 1, step[i] = f[i] PROVE step[i + 1] = f[i + 1]
    <3>1. i + 1 \in 0 .. n /\ i + 1 # 0 /\ (i + 1) - 1 = i
      OBVIOUS
    <3>2. step[i + 1] = DetRound(step[i])
      BY <1>2, <1>12, <3>1 DEF DetRound
    <3>3. f[i + 1] = DetRound(f[i])
      BY <1>2, <1>11, <3>1 DEF DetRound
    <3> QED BY <2>2, <3>2, <3>3
  <2> HIDE DEF Def
  <2>3. \A i \in 0 .. n : step[i] = f[i]
    BY <2>1, <2>2, LoopsAgree
  <2> QED BY <2>3
<1> DEFINE s == f[n]
<1>15. Remains(s, D, A, n, 0)
  <2>1. n \in 0 .. n /\ n - n = 0
    OBVIOUS
  <2> QED BY <1>10, <2>1
<1>16. det(A) = s.det /\ D[n][A] \in Element
  <2>1. n \in 0 .. n
    OBVIOUS
  <2> QED BY <1>1, <1>13, <1>14, <2>1 DEF AreDeterminants
<1> HIDE DEF s
<1>17. s.det \in Element
  BY <1>15 DEF Remains, DetStates
<1>18. CASE s.det = 0
  BY <1>3, <1>15, <1>16, <1>17, <1>18 DEF Remains, UpToSign
<1>19. CASE s.det # 0
  <2>1. s.rows \in Square(0) /\ UpToSign(D[n][A], mul(s.det, D[0][s.rows]))
    BY <1>15, <1>19 DEF Remains
  <2>2. D[0][s.rows] = 1
    BY <1>1, <2>1 DEF AreDeterminants
  <2>3. mul(s.det, 1) = mul(1, s.det) /\ mul(1, s.det) = s.det
    BY <1>17, FieldLaws
  <2> QED BY <1>3, <1>16, <1>17, <2>1, <2>2, <2>3
<1> QED BY <1>18, <1>19

-----------------------------------------------------------------------------
\* Messages.

\* What is added to a plaintext is an element.
LEMMA KeystreamIsElement ==
  ASSUME NEW keys \in [0 .. 2 * Rounds["cipher"] -> Column(BlockSize)],
         NEW nonce \in [bytes : Nat, value : Nat], NEW n \in Nat \ {0}
  PROVE  Keystream(keys, nonce, n) \in Element
<1> DEFINE m == BlockSize
<1> DEFINE i == (n - 1) \div m
<1> DEFINE j == ((n - 1) % m) + 1
<1> DEFINE counter == Counter(nonce, i)
<1> DEFINE l == 2 * Rounds["cipher"]
<1>1. m \in Size /\ m \in Nat \ {0} /\ m \in Nat /\ l \in Nat /\ "cipher" \in Mode
  BY SizesFit, RoundsAreNat DEF Mode
<1>2. i \in Int /\ j \in 1 .. m
  <2> DEFINE x == n - 1
  <2>1. x \in Int
    OBVIOUS
  <2> HIDE DEF m, x
  <2>2. x \div m \in Int /\ x % m \in 0 .. m - 1
    BY <1>1, <2>1, Division
  <2>3. (x % m) + 1 \in 1 .. m
    BY <1>1, <2>2
  <2> QED BY <2>2, <2>3 DEF x
<1> HIDE DEF i, j
<1>3. counter \in [1 .. m -> Int]
  <2>1. nonce.value \in Int
    OBVIOUS
  <2> QED BY <1>2, <2>1 DEF Counter
<1> HIDE DEF counter
<1>4. toVec(counter) \in Column(m)
  BY <1>1, <1>3, ToVecIsColumn
<1> DEFINE v == toVec(counter)
<1> HIDE DEF v
<1>5. rescuePermutation("cipher", keys, l, v) \in [0 .. l -> Column(m)]
  <2>1. keys \in [0 .. l -> Column(m)] /\ v \in Column(m)
    BY <1>4 DEF v
  <2> HIDE DEF l, m
  <2> QED BY <1>1, <2>1, PermutationRounds
<1>6. permute(keys, v) \in Column(m)
  <2>1. permute(keys, v) = rescuePermutation("cipher", keys, l, v)[l]
    BY DEF permute
  <2> HIDE DEF l, m
  <2> QED BY <1>1, <1>5, <2>1
<1>7. permute(keys, v)[j][1] \in Element
  <2> HIDE DEF m
  <2> QED BY <1>1, <1>2, <1>6, ColumnIs
<1>8. Keystream(keys, nonce, n) = permute(keys, v)[j][1]
  BY DEF Keystream, v, counter, i, j
<1> QED BY <1>7, <1>8

\* Both directions of the cipher on a block.
LEMMA PermutationsInvert ==
  ASSUME NEW keys \in [0 .. 2 * Rounds["cipher"] -> Column(BlockSize)], NEW s \in Column(BlockSize)
  PROVE  permuteInverse(keys, permute(keys, s)) = s /\ permute(keys, permuteInverse(keys, s)) = s
BY RoundsAreNat, PermutationInverts DEF permute, permuteInverse, Mode

\* Both directions of the cipher on a message.
LEMMA MessagesInvert ==
  ASSUME NEW keys \in [0 .. 2 * Rounds["cipher"] -> Column(BlockSize)],
         NEW nonce \in [bytes : Nat, value : Nat], NEW plaintext \in Seq(Int), Encrypts(plaintext, nonce)
  PROVE  /\ encrypt_raw(keys, plaintext, nonce) \in Seq(Element)
         /\ decrypt_raw(keys, encrypt_raw(keys, plaintext, nonce), nonce) = plaintext
<1> DEFINE k(n) == Keystream(keys, nonce, n)
<1> DEFINE c == encrypt_raw(keys, plaintext, nonce)
<1>1. DOMAIN plaintext = 1 .. Len(plaintext) /\ Len(plaintext) \in Nat /\ plaintext = [n \in DOMAIN plaintext |-> plaintext[n]]
  OBVIOUS
<1>2. ASSUME NEW n \in DOMAIN plaintext
      PROVE  /\ AddCT(plaintext[n], k(n)) \in Element
             /\ SubCT(AddCT(plaintext[n], k(n)), k(n)) = plaintext[n]
  <2>1. plaintext[n] \in Int /\ n \in Nat \ {0}
    BY <1>1
  <2>2. /\ verifyBinSize(plaintext[n], BinSize - 1)
        /\ ~ctSignBit(plaintext[n], BinSize)
        /\ ctLt(plaintext[n], Order, BinSize)
    BY DEF Encrypts
  <2>3. plaintext[n] \in Element
    BY <2>1, <2>2, EncryptsElements, Zenon
  <2>4. k(n) \in Element
    BY <2>1, KeystreamIsElement
  <2> DEFINE x == plaintext[n]
  <2> DEFINE y == k(n)
  <2>5. x \in Element /\ y \in Element
    BY <2>3, <2>4
  <2> HIDE DEF x, y
  <2>6. AddCT(x, y) = add(x, y) /\ add(x, y) \in Element
    BY <2>5, AddCTAdds, FieldClosed
  <2>7. SubCT(add(x, y), y) = sub(add(x, y), y)
    BY <2>5, <2>6, AddCTAdds
  <2>8. sub(add(x, y), y) = x
    BY <2>5, FieldLaws
  <2> QED BY <2>6, <2>7, <2>8 DEF x, y
<1>3. c = [n \in DOMAIN plaintext |-> AddCT(plaintext[n], k(n))]
  BY DEF encrypt_raw
<1> HIDE DEF c, k
<1>4. DOMAIN c = DOMAIN plaintext /\ \A n \in DOMAIN plaintext : c[n] = AddCT(plaintext[n], k(n))
  BY <1>3
<1>5. c \in Seq(Element)
  <2>1. c \in [1 .. Len(plaintext) -> Element]
    BY <1>1, <1>2, <1>3
  <2> QED BY <1>1, <2>1
<1>6. decrypt_raw(keys, c, nonce) = [n \in DOMAIN plaintext |-> SubCT(c[n], k(n))]
  BY <1>4 DEF decrypt_raw, k
<1>7. \A n \in DOMAIN plaintext : SubCT(c[n], k(n)) = plaintext[n]
  BY <1>2, <1>4
<1>8. [n \in DOMAIN plaintext |-> SubCT(c[n], k(n))] = [n \in DOMAIN plaintext |-> plaintext[n]]
  BY <1>7
<1> QED BY <1>1, <1>5, <1>6, <1>8 DEF c

-----------------------------------------------------------------------------
\* The inputs.
InputOK ==
  \/ input = NoInput
  \/ \E x, y \in Operands : input = [kind |-> "pair", x |-> x, y |-> y]
  \/ \E k \in Secrets, s \in States : input = [kind |-> "state", secret |-> k, state |-> s]
  \/ \E k \in Secrets, n \in Nonces, p \in Plaintexts :
       input = [kind |-> "message", secret |-> k, nonce |-> n, plaintext |-> p]
  \/ \E A \in Matrices : input = [kind |-> "matrix", rows |-> A]

\* The inputs are among those that the constants give.
LEMMA Inputs == CipherSpec => []InputOK
<1>1. CipherInit => InputOK
  BY DEF CipherInit, InputOK
<1>2. InputOK /\ [CipherNext]_input => InputOK'
  BY Zenon DEF CipherNext, InputOK
<1> QED BY <1>1, <1>2, PTL DEF CipherSpec

\* The arithmetic is exact for every input.
LEMMA ArithmeticOfPairs == InputOK => FieldArithmeticIsExact
<1> SUFFICES ASSUME InputOK, input.kind = "pair" PROVE FieldArithmeticIsExact
  BY DEF FieldArithmeticIsExact
<1>1. PICK x \in Operands, y \in Operands : input = [kind |-> "pair", x |-> x, y |-> y]
  BY DEF InputOK, NoInput
<1>2. x \in Int /\ y \in Int /\ input.x = x /\ input.y = y
  BY <1>1, InputsAssumption
<1> DEFINE half == (Order - 1) \div 2
<1>3. Order \in Nat /\ Order > 2
  BY OrderIsOdd
<1>4. {x, y} \subseteq Element => AddCT(x, y) = add(x, y) /\ SubCT(x, y) = sub(x, y)
  BY AddCTAdds
<1>5. {x, y} \subseteq -Order .. Order => (ctLt(x, y, BinSize) <=> x < y)
  <2> DEFINE h == TwoTo[BinSize - 1]
  <2>1. h \in Nat /\ 2 * Order < h
    BY BinSizeIsEnough
  <2>2. x - y \in -h .. h - 1 => (ctLt(x, y, BinSize) <=> x < y)
    <3> HIDE DEF h
    <3>1. h = TwoTo[BinSize - 1]
      BY DEF h
    <3> QED BY <1>2, <3>1, LessThanWraps
  <2> HIDE DEF h
  <2>3. x \in -Order .. Order /\ y \in -Order .. Order => x - y \in -h .. h - 1
    BY <1>2, <1>3, <2>1
  <2> QED BY <2>2, <2>3
<1>6. Encrypts(<<y, x>>, [bytes |-> NonceLength, value |-> 0]) <=> {x, y} \subseteq Element
  <2> DEFINE E(v) == verifyBinSize(v, BinSize - 1) /\ ~ctSignBit(v, BinSize) /\ ctLt(v, Order, BinSize)
  <2>1. Encrypts(<<y, x>>, [bytes |-> NonceLength, value |-> 0]) <=> \A n \in 1 .. 2 : E(<<y, x>>[n])
    BY DEF Encrypts
  <2>2. (E(x) <=> x \in Element) /\ (E(y) <=> y \in Element)
    <3>1. E(x) <=> x \in Element
      BY <1>2, EncryptsElements, Zenon
    <3>2. E(y) <=> y \in Element
      BY <1>2, EncryptsElements, Zenon
    <3> QED BY <3>1, <3>2
  <2> HIDE DEF E
  <2>3. (\A n \in 1 .. 2 : E(<<y, x>>[n])) <=> E(y) /\ E(x)
    <3>1. \A n \in 1 .. 2 : n = 1 \/ n = 2
      OBVIOUS
    <3>2. <<y, x>>[1] = y /\ <<y, x>>[2] = x /\ 1 \in 1 .. 2 /\ 2 \in 1 .. 2
      OBVIOUS
    <3> QED BY <3>1, <3>2
  <2> QED BY <2>1, <2>2, <2>3
<1>7. Encryptable(x) <=> x \in 1 - Order .. Order - 1
  BY <1>2, EncryptableIsBetween
<1>8. Encryptable(x) =>
        LET e == encodeAsRescueEncryptable(x)
        IN  /\ e = x % Order
            /\ decodeRescueDecryptedToBigInt(e) = x <=> x \in -half .. half
  <2>1. ASSUME Encryptable(x)
        PROVE  LET e == encodeAsRescueEncryptable(x)
               IN  /\ e = x % Order
                   /\ decodeRescueDecryptedToBigInt(e) = x <=> x \in -half .. half
    BY <1>7, <2>1, EncodeDecode
  <2> QED BY <2>1
<1> QED BY <1>2, <1>4, <1>5, <1>6, <1>7, <1>8 DEF FieldArithmeticIsExact

\* For every odd prime order and all integers: the arithmetic on bits is that of the field,
\* comparisons are right up to the order, encrypt takes exactly the elements of the field, and exactly
\* the integers between -Order and Order are encoded, of which the lower half come back
\* (rescue-cipher.ts:146-235).
THEOREM FieldArithmetic == CipherSpec => []FieldArithmeticIsExact
BY Inputs, ArithmeticOfPairs, PTL

\* Both directions undo each other for every input.
LEMMA InputsDecrypt == InputOK => DecryptionInverts
<1> SUFFICES ASSUME InputOK PROVE DecryptionInverts
  OBVIOUS
<1>1. \A k \in Secrets : Keys[k] \in [0 .. 2 * Rounds["cipher"] -> Column(BlockSize)]
  BY InputsAssumption, KeysAreColumns DEF Keys
<1>2. ASSUME input.kind = "state"
      PROVE  LET keys == Keys[input.secret]
                 s == toVec(input.state)
             IN  /\ Of(LAMBDA t : permuteInverse(keys, t), permute(keys, s)) = s
                 /\ Of(LAMBDA t : permute(keys, t), permuteInverse(keys, s)) = s
  <2>1. PICK k \in Secrets, v \in States : input = [kind |-> "state", secret |-> k, state |-> v]
    BY <1>2 DEF InputOK, NoInput
  <2> DEFINE keys == Keys[k]
  <2> DEFINE s == toVec(v)
  <2>2. keys \in [0 .. 2 * Rounds["cipher"] -> Column(BlockSize)]
    BY <1>1
  <2>3. s \in Column(BlockSize)
    <3>1. v \in [1 .. BlockSize -> Int] /\ BlockSize \in Nat
      BY InputsAssumption, CipherAssumption
    <3> QED BY <3>1, ToVecIsColumn
  <2> HIDE DEF keys, s
  <2>4. permuteInverse(keys, permute(keys, s)) = s /\ permute(keys, permuteInverse(keys, s)) = s
    BY <2>2, <2>3, PermutationsInvert
  <2>5. /\ Of(LAMBDA t : permuteInverse(keys, t), permute(keys, s)) = s
        /\ Of(LAMBDA t : permute(keys, t), permuteInverse(keys, s)) = s
    BY <2>4 DEF Of
  <2>6. keys = Keys[input.secret] /\ s = toVec(input.state)
    BY <2>1 DEF keys, s
  <2> QED BY <2>5, <2>6
<1>3. ASSUME input.kind = "message", Encrypts(input.plaintext, input.nonce)
      PROVE  LET keys == Keys[input.secret]
                 decrypted(c) == IF c \in Seq(Element) THEN decrypt_raw(keys, c, input.nonce) ELSE << >>
             IN  Of(decrypted, encrypt_raw(keys, input.plaintext, input.nonce)) = input.plaintext
  <2>1. PICK k \in Secrets, n \in Nonces, p \in Plaintexts :
          input = [kind |-> "message", secret |-> k, nonce |-> n, plaintext |-> p]
    BY <1>3 DEF InputOK, NoInput
  <2> DEFINE keys == Keys[input.secret]
  <2> DEFINE nonce == input.nonce
  <2> DEFINE plaintext == input.plaintext
  <2>2. keys \in [0 .. 2 * Rounds["cipher"] -> Column(BlockSize)]
    BY <1>1, <2>1
  <2>3. nonce \in [bytes : Nat, value : Nat] /\ plaintext \in Seq(Int)
    BY <2>1, InputsAssumption
  <2>4. Encrypts(plaintext, nonce)
    BY <1>3
  <2> HIDE DEF keys, nonce, plaintext
  <2>5. /\ encrypt_raw(keys, plaintext, nonce) \in Seq(Element)
        /\ decrypt_raw(keys, encrypt_raw(keys, plaintext, nonce), nonce) = plaintext
    BY <2>2, <2>3, <2>4, MessagesInvert
  <2> DEFINE decrypted(c) == IF c \in Seq(Element) THEN decrypt_raw(keys, c, nonce) ELSE << >>
  <2>6. Of(decrypted, encrypt_raw(keys, plaintext, nonce)) = plaintext
    BY <2>5 DEF Of
  <2> QED BY <2>6 DEF keys, nonce, plaintext
<1> QED BY <1>2, <1>3 DEF DecryptionInverts

\* For every odd prime order, block size, number of rounds, secret and nonce: the inverse permutation
\* undoes the permutation and is undone by it, and decrypt returns what encrypt was given, for texts of every length
\* (rescue-cipher.ts:844-863, 985-1016).
THEOREM Decryption == CipherSpec => []DecryptionInverts
BY Inputs, InputsDecrypt, PTL

\* Elimination is right for every matrix of the inputs.
LEMMA InputsDeterminants == InputOK => SingularIsFound
<1> SUFFICES ASSUME InputOK, input.kind = "matrix"
             PROVE  det(input.rows) \in {Determinant(input.rows), sub(0, Determinant(input.rows))}
  BY DEF SingularIsFound
<1>1. PICK A \in Matrices : input = [kind |-> "matrix", rows |-> A]
  BY DEF InputOK, NoInput
<1> DEFINE x == Determinant(A)
<1> DEFINE y == det(A)
<1>2. Len(A) \in Nat /\ A \in Square(Len(A))
  BY InputsAssumption DEF Square
<1>3. x \in Element /\ y \in Element /\ UpToSign(x, y)
  BY <1>2, DetIsDeterminant
<1> HIDE DEF x, y
<1>4. UpToSign(y, x)
  BY <1>3, SignOfEither
<1>5. sub(0, x) = mul(MinusOne, x)
  <2>1. mul(MinusOne, x) \in Element /\ 0 \in Element
    BY <1>3, SignsChange, FieldClosed
  <2>2. sub(0, x) = add(0, mul(MinusOne, x))
    BY <1>3, <2>1, DifferenceIsSum
  <2> QED BY <2>1, <2>2, FieldLaws
<1>6. y \in {x, sub(0, x)}
  BY <1>4, <1>5 DEF UpToSign
<1> QED BY <1>1, <1>6 DEF x, y

\* For every odd prime order and square matrix over the field: det, which exchanges rows without
\* counting the exchanges, returns the determinant up to its sign, and so zero for the singular
\* matrices and no others (rescue-cipher.ts:431-456).
THEOREM Singular == CipherSpec => []SingularIsFound
BY Inputs, InputsDeterminants, PTL

\* For every odd prime order, block size and stream of SHAKE256: the matrix that the key schedule
\* samples until det is not zero ("check for inversability") is not singular
\* (rescue-cipher.ts:599-607).
THEOREM RoundConstantsAreInvertible == Determinant(RoundConstantMat) # 0
<1> DEFINE A == RoundConstantMat
<1> DEFINE x == Determinant(A)
<1> DEFINE y == det(A)
<1>1. BlockSize \in Nat /\ A \in Square(BlockSize) /\ y # 0
  BY CipherAssumption, ConstantMatExists DEF Matrix, Square
<1>2. x \in Element /\ y \in Element /\ UpToSign(x, y)
  BY <1>1, DetIsDeterminant
<1> HIDE DEF x, y
<1>3. UpToSign(y, x) /\ MinusOne \in Element
  BY <1>2, SignOfEither, SignsChange
<1>4. mul(MinusOne, 0) = 0
  BY <1>3, FieldLaws
<1>5. x # 0
  BY <1>1, <1>3, <1>4 DEF UpToSign
<1> QED BY <1>5 DEF x
=============================================================================
