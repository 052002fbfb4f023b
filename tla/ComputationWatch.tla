--------------------------- MODULE ComputationWatch ---------------------------
(***************************************************************************)
(* The two ways in which kit-plugin-arcium waits for a computation to be    *)
(* finalized: awaitComputationFinalization polls the last transactions of   *)
(* the Arcium program, awaitComputationFinalizationSubscription listens to  *)
(* their logs and races with a timer.  All calls of the model wait for the  *)
(* same computation; Other stands for every other one.                      *)
(***************************************************************************)
EXTENDS Integers, Sequences

CONSTANTS
  Poll,         \* invocations of awaitComputationFinalization
  Sub,          \* invocations of awaitComputationFinalizationSubscription
  Window,       \* signatures one request returns (limit)
  MaxAttempts,  \* maxAttempts
  MaxLag,       \* bound: transactions a node may be behind
  MaxTx         \* bound: transactions of the Arcium program

Wait == Poll \cup Sub

ASSUME ConstantsAssumption ==
  /\ Poll \cap Sub = {}
  /\ Window \in Nat \ {0}
  /\ MaxAttempts \in Nat \ {0}
  /\ MaxLag \in Nat
  /\ MaxTx \in Nat

VARIABLES
  log,      \* the transactions of the Arcium program, the latest last
  state,    \* state[w]: where call w is
  result,   \* result[w]: the transaction whose signature w returned, or 0
  attempt,  \* attempt[p]: the loop variable of poll p
  todo,     \* todo[p]: the signatures it has still to look at, the latest first
  listed,   \* listed[p]: the signatures of this attempt, if all has gone well so far
  covered,  \* covered[p]: the signatures of the attempts in which all went well
  from,     \* from[s]: length of the log when the subscription was established
  read,     \* read[s]: the last transaction that s was notified of
  timer     \* timer[s]: the timeout of s is armed

pollVars == <<attempt, todo, listed, covered>>
subVars == <<from, read, timer>>
vars == <<log, state, result, attempt, todo, listed, covered, from, read, timer>>

-----------------------------------------------------------------------------
\* A transaction is what the code reads of it: the FinalizeComputationEvent
\* that parseAnchorEventFromLogs finds first in its logs, and its error.
Tx == [event : {"awaited", "other", "none"}, err : BOOLEAN]

\* Offset and program id of the event are those of the computation.
Matches(t) == t.event = "awaited"

\* The latest signatures of a node that has n transactions, the latest first.
Signatures(n) ==
  LET size == IF n < Window THEN n ELSE Window
  IN  [j \in 1 .. size |-> n - j + 1]

\* What a call that was made has not settled yet.
Pending == {"asking", "scanning", "pausing", "subscribing", "listening", "closed"}

Init ==
  /\ log = << >>
  /\ state = [w \in Wait |-> "idle"]
  /\ result = [w \in Wait |-> 0]
  /\ attempt = [p \in Poll |-> 0]
  /\ todo = [p \in Poll |-> << >>]
  /\ listed = [p \in Poll |-> {}]
  /\ covered = [p \in Poll |-> {}]
  /\ from = [s \in Sub |-> 0]
  /\ read = [s \in Sub |-> 0]
  /\ timer = [s \in Sub |-> FALSE]

Return(w, i) ==
  /\ state' = [state EXCEPT ![w] = "resolved"]
  /\ result' = [result EXCEPT ![w] = i]

-----------------------------------------------------------------------------
\* The poll.

awaitComputationFinalization(p) ==
  /\ state[p] = "idle"
  /\ state' = [state EXCEPT ![p] = "asking"]
  /\ UNCHANGED <<log, result, pollVars, subVars>>

\* The attempt goes on with the signatures in rest, or is over; good are those
\* it had listed, if all has gone well.
GoOn(p, rest, good) ==
  /\ todo' = [todo EXCEPT ![p] = rest]
  /\ listed' = [listed EXCEPT ![p] = good]
  /\ IF rest # << >>
       THEN /\ state' = [state EXCEPT ![p] = "scanning"]
            /\ UNCHANGED covered
       ELSE /\ state' = [state EXCEPT ![p] = "pausing"]
            /\ covered' = [covered EXCEPT ![p] = @ \cup good]

\* getSignaturesForAddress returns.
SignaturesRead(p) ==
  /\ state[p] = "asking"
  /\ \E n \in {m \in 0 .. Len(log) : m + MaxLag >= Len(log)} :
       LET latest == Signatures(n)
       IN  GoOn(p, latest, IF n = Len(log) THEN {latest[j] : j \in DOMAIN latest} ELSE {})
  /\ UNCHANGED <<log, result, attempt, subVars>>

\* getTransaction returns null: the node that was asked does not have it.
TransactionMissing(p) ==
  /\ state[p] = "scanning"
  /\ Head(todo[p]) + MaxLag > Len(log)
  /\ GoOn(p, Tail(todo[p]), {})
  /\ UNCHANGED <<log, result, attempt, subVars>>

\* Mutant of TransactionRead: a transaction that failed ends the scan.
TransactionReadBreak(p) ==
  /\ state[p] = "scanning"
  /\ LET i == Head(todo[p])
     IN  IF Matches(log[i])
           THEN Return(p, i) /\ UNCHANGED <<todo, listed, covered>>
           ELSE /\ GoOn(p, IF log[i].err THEN << >> ELSE Tail(todo[p]), listed[p])
                /\ UNCHANGED result
  /\ UNCHANGED <<log, attempt, subVars>>

\* getTransaction returns: the signature is returned, or the next one looked at.
TransactionRead(p) ==
  /\ state[p] = "scanning"
  /\ LET i == Head(todo[p])
     IN  IF Matches(log[i])
           THEN Return(p, i) /\ UNCHANGED <<todo, listed, covered>>
           ELSE GoOn(p, Tail(todo[p]), listed[p]) /\ UNCHANGED result
  /\ UNCHANGED <<log, attempt, subVars>>

\* A request fails: the attempt is over as well.
PollError(p) ==
  /\ state[p] \in {"asking", "scanning"}
  /\ state' = [state EXCEPT ![p] = "pausing"]
  /\ listed' = [listed EXCEPT ![p] = {}]
  /\ UNCHANGED <<log, result, attempt, todo, covered, subVars>>

\* Mutant of Paused: the last attempt is followed by one more.
PausedLate(p) ==
  /\ state[p] = "pausing"
  /\ attempt' = [attempt EXCEPT ![p] = @ + 1]
  /\ state' = [state EXCEPT ![p] = IF attempt[p] < MaxAttempts THEN "asking" ELSE "rejected"]
  /\ UNCHANGED <<log, result, todo, listed, covered, subVars>>

\* Mutant of Paused: the attempts are not counted.
PausedForever(p) ==
  /\ state[p] = "pausing"
  /\ state' = [state EXCEPT ![p] = "asking"]
  /\ UNCHANGED <<log, result, pollVars, subVars>>

\* After the pause the next attempt starts, or the call throws.
Paused(p) ==
  /\ state[p] = "pausing"
  /\ attempt' = [attempt EXCEPT ![p] = @ + 1]
  /\ state' = [state EXCEPT ![p] =
       IF attempt[p] + 1 < MaxAttempts THEN "asking" ELSE "rejected"]
  /\ UNCHANGED <<log, result, todo, listed, covered, subVars>>

-----------------------------------------------------------------------------
\* The subscription.

awaitComputationFinalizationSubscription(s) ==
  /\ state[s] = "idle"
  /\ state' = [state EXCEPT ![s] = "subscribing"]
  /\ timer' = [timer EXCEPT ![s] = TRUE]
  /\ UNCHANGED <<log, result, from, read, pollVars>>

Subscribed(s) ==
  /\ state[s] = "subscribing"
  /\ state' = [state EXCEPT ![s] = "listening"]
  /\ from' = [from EXCEPT ![s] = Len(log)]
  /\ read' = [read EXCEPT ![s] = Len(log)]
  /\ UNCHANGED <<log, result, timer, pollVars>>

\* Mutant of Notified: the error of the transaction is not looked at.
NotifiedOfFailed(s) ==
  /\ state[s] = "listening"
  /\ read[s] < Len(log)
  /\ read' = [read EXCEPT ![s] = @ + 1]
  /\ IF Matches(log[read[s] + 1])
       THEN /\ Return(s, read[s] + 1)
            /\ timer' = [timer EXCEPT ![s] = FALSE]
       ELSE UNCHANGED <<state, result, timer>>
  /\ UNCHANGED <<log, from, pollVars>>

\* The notification of the next transaction: one that failed is passed over.
Notified(s) ==
  /\ state[s] = "listening"
  /\ read[s] < Len(log)
  /\ read' = [read EXCEPT ![s] = @ + 1]
  /\ LET t == log[read[s] + 1]
     IN  IF ~t.err /\ Matches(t)
           THEN /\ Return(s, read[s] + 1)
                /\ timer' = [timer EXCEPT ![s] = FALSE]
           ELSE UNCHANGED <<state, result, timer>>
  /\ UNCHANGED <<log, from, pollVars>>

\* The node closes the stream without an error: the loop ends, the timer does not.
StreamEnded(s) ==
  /\ state[s] = "listening"
  /\ state' = [state EXCEPT ![s] = "closed"]
  /\ UNCHANGED <<log, result, subVars, pollVars>>

\* The subscription or the stream fails: the call rejects with the error.
StreamFailed(s) ==
  /\ state[s] \in {"subscribing", "listening"}
  /\ state' = [state EXCEPT ![s] = "rejected"]
  /\ timer' = [timer EXCEPT ![s] = FALSE]
  /\ UNCHANGED <<log, result, from, read, pollVars>>

\* 120 seconds have passed: the stream is aborted and the call rejects; the
\* AbortError of the stream finds the promise settled.  (An AbortError that is not
\* the client's own would settle nothing: none is assumed to come.)
Timeout(s) ==
  /\ timer[s]
  /\ timer' = [timer EXCEPT ![s] = FALSE]
  /\ state' = [state EXCEPT ![s] = "rejected"]
  /\ UNCHANGED <<log, result, from, read, pollVars>>

-----------------------------------------------------------------------------
\* A transaction of the Arcium program is confirmed; the computation that is
\* awaited is finalized by no more than one transaction that succeeds.
Confirm(t) ==
  /\ Len(log) < MaxTx
  /\ ~t.err /\ Matches(t) => \A i \in 1 .. Len(log) : log[i].err \/ ~Matches(log[i])
  /\ log' = Append(log, t)
  /\ UNCHANGED <<state, result, pollVars, subVars>>

ProceedPoll(p) ==
  \/ SignaturesRead(p)
  \/ TransactionMissing(p)
  \/ TransactionRead(p)
  \/ PollError(p)
  \/ Paused(p)

Next ==
  \/ \E p \in Poll : awaitComputationFinalization(p) \/ ProceedPoll(p)
  \/ \E s \in Sub : \/ awaitComputationFinalizationSubscription(s)
                    \/ Subscribed(s)
                    \/ Notified(s)
                    \/ StreamEnded(s)
                    \/ StreamFailed(s)
                    \/ Timeout(s)
  \/ \E t \in Tx : Confirm(t)

\* Every request of a poll returns or fails, and the timer of a subscription
\* goes off; nothing is assumed of the stream.
Fairness ==
  /\ \A p \in Poll : WF_vars(ProceedPoll(p))
  /\ \A s \in Sub : WF_vars(Timeout(s))

Spec == Init /\ [][Next]_vars /\ Fairness

-----------------------------------------------------------------------------
\* Properties.

TypeOK ==
  /\ log \in Seq(Tx)
  /\ Len(log) <= MaxTx
  /\ state \in [Wait -> Pending \cup {"idle", "resolved", "rejected"}]
  /\ result \in [Wait -> 0 .. Len(log)]
  /\ attempt \in [Poll -> 0 .. MaxAttempts]
  /\ todo \in [Poll -> Seq(1 .. Len(log))]
  /\ listed \in [Poll -> SUBSET (1 .. Len(log))]
  /\ covered \in [Poll -> SUBSET (1 .. Len(log))]
  /\ from \in [Sub -> 0 .. Len(log)]
  /\ read \in [Sub -> 0 .. Len(log)]
  /\ timer \in [Sub -> BOOLEAN]

Finalizes(i) == ~log[i].err /\ Matches(log[i])

\* A poll that has not found the event was not shown it: no transaction carries it
\* that was listed by an attempt whose requests were all answered, none of them by
\* a node without the transaction, whatever came between attempts.
PollMissesNothing ==
  \A p \in Poll : state[p] # "resolved" =>
    \A i \in covered[p] : ~Matches(log[i])

\* The subscription returns the first transaction after it was established
\* that finalizes the computation, and a call that times out, fails or is
\* still waiting was not notified of one.
SubscriptionReturnsFirst ==
  \A s \in Sub :
    /\ \A i \in from[s] + 1 .. read[s] : Finalizes(i) => i = result[s]
    /\ state[s] = "resolved" => from[s] < result[s] /\ Finalizes(result[s])

\* Every call settles, even when the stream is silent or ends.
EveryCallSettles ==
  \A w \in Wait : state[w] \in Pending ~> state[w] \in {"resolved", "rejected"}
===============================================================================
