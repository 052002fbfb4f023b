---------------------------- MODULE QueueCreation ----------------------------
(***************************************************************************)
(* getOrCreateTaskQueue of kit-plugin-tuktuk-task-scheduler.  The queue of  *)
(* a name is looked up and, when there is none, created with the next queue *)
(* id of the program; then the user is made an authority of the queue, by a *)
(* second transaction.  A call may end between the two, and calls of the    *)
(* same or of other users run at the same time.                             *)
(*                                                                          *)
(* Reads are answered by nodes that may be behind, as in TaskQueue: chain   *)
(* holds the states a read can still see, up to the latest confirmed one.   *)
(***************************************************************************)
EXTENDS Integers, Sequences

CONSTANTS
  Call,     \* invocations of getOrCreateTaskQueue
  User,     \* the users that make them
  Name,     \* names of task queues
  MaxLag    \* bound: states a node may be behind (0: there is one node)

ASSUME ConstantsAssumption == MaxLag \in Nat

\* Queue ids count up from one; zero stands for no queue.
NoQueue == 0

VARIABLES
  chain,   \* states of the program that a read may see, the latest last
  net,     \* transactions sent and not executed
  landed,  \* transactions executed with success
  failed,  \* transactions that failed on chain
  state,   \* state[c]: where call c is
  user,    \* user[c]: who makes it
  name,    \* name[c]: the queue name it is given
  queue,   \* queue[c]: the queue id c found or set out to create
  begun    \* begun[c]: what had landed when c began, and whether no node lagged

callVars == <<state, user, name, queue>>
argVars == <<user, name>>
vars == <<chain, net, landed, failed, state, argVars, queue, begun>>

Seen == {chain[i] : i \in 1 .. Len(chain)}
Confirmed == chain[Len(chain)]

CreateTx(c) == [kind |-> "create", call |-> c]
AuthorityTx(c) == [kind |-> "authority", call |-> c]
Tx == [kind : {"create", "authority"}, call : Call]

-----------------------------------------------------------------------------
\* The state of the program: the creator of every queue, the queue of every
\* name, and the authorities of the queues.
Init ==
  /\ chain = << [creators |-> << >>, mapping |-> [n \in Name |-> NoQueue], authority |-> {}] >>
  /\ net = {}
  /\ landed = {}
  /\ failed = {}
  /\ state = [c \in Call |-> "idle"]
  /\ user \in [Call -> User]
  /\ name \in [Call -> Name]
  /\ queue = [c \in Call |-> NoQueue]
  /\ begun = [c \in Call |-> [landed |-> {}, settled |-> FALSE]]

\* The name mappings are read: the queue of the name is used if there is one.
getOrCreateTaskQueue(c) ==
  /\ state[c] = "idle"
  /\ \E q \in Seen : LET found == q.mapping[name[c]]
                     IN  /\ queue' = [queue EXCEPT ![c] = found]
                         /\ state' = [state EXCEPT ![c] =
                              IF found = NoQueue THEN "missing" ELSE "found"]
  /\ begun' = [begun EXCEPT ![c] = [landed |-> landed, settled |-> Len(chain) = 1]]
  /\ UNCHANGED <<chain, net, landed, failed, argVars>>

\* Mutant of ConfigRead: the id of the newest queue, counted from zero.
ConfigReadNewest(c) ==
  /\ state[c] = "missing"
  /\ state' = [state EXCEPT ![c] = "creating"]
  /\ \E q \in Seen : queue' = [queue EXCEPT ![c] = Len(q.creators) - 1]
  /\ net' = net \cup {CreateTx(c)}
  /\ UNCHANGED <<chain, landed, failed, argVars, begun>>

\* nextTaskQueueId is read and the queue of that id created.
ConfigRead(c) ==
  /\ state[c] = "missing"
  /\ state' = [state EXCEPT ![c] = "creating"]
  /\ \E q \in Seen : queue' = [queue EXCEPT ![c] = Len(q.creators) + 1]
  /\ net' = net \cup {CreateTx(c)}
  /\ UNCHANGED <<chain, landed, failed, argVars, begun>>

\* Mutant of Created: the creation is sent and not awaited.
CreatedUnconfirmed(c) ==
  /\ state[c] = "creating"
  /\ state' = [state EXCEPT ![c] = "found"]
  /\ UNCHANGED <<chain, net, landed, failed, argVars, queue, begun>>

Created(c) ==
  /\ state[c] = "creating"
  /\ CreateTx(c) \in landed
  /\ state' = [state EXCEPT ![c] = "found"]
  /\ UNCHANGED <<chain, net, landed, failed, argVars, queue, begun>>

\* Mutant of AuthorityRead: the authority is added without a look.
AuthorityAssumed(c) ==
  /\ state[c] = "found"
  /\ state' = [state EXCEPT ![c] = "adding"]
  /\ net' = net \cup {AuthorityTx(c)}
  /\ UNCHANGED <<chain, landed, failed, argVars, queue, begun>>

\* The authority account is read; only a user that has none adds it.
AuthorityRead(c) ==
  /\ state[c] = "found"
  /\ \E q \in Seen :
       IF <<queue[c], user[c]>> \in q.authority
         THEN /\ state' = [state EXCEPT ![c] = "resolved"]
              /\ UNCHANGED net
         ELSE /\ state' = [state EXCEPT ![c] = "adding"]
              /\ net' = net \cup {AuthorityTx(c)}
  /\ UNCHANGED <<chain, landed, failed, argVars, queue, begun>>

Added(c) ==
  /\ state[c] = "adding"
  /\ AuthorityTx(c) \in landed
  /\ state' = [state EXCEPT ![c] = "resolved"]
  /\ UNCHANGED <<chain, net, landed, failed, argVars, queue, begun>>

\* A read or a transaction is reported as failed, or the program of the user
\* stops: whatever was sent may have landed, or may land later.
Rejected(c) ==
  /\ state[c] \in {"missing", "found", "creating", "adding"}
  /\ state' = [state EXCEPT ![c] = "rejected"]
  /\ UNCHANGED <<chain, net, landed, failed, argVars, queue, begun>>

-----------------------------------------------------------------------------
\* The TukTuk program.

\* A queue is created with the next id, and for a name that has none; an
\* authority is added by the creator of the queue, once.
Acceptable(t) ==
  \/ /\ t.kind = "create"
     /\ queue[t.call] = Len(Confirmed.creators) + 1
     /\ Confirmed.mapping[name[t.call]] = NoQueue
  \/ /\ t.kind = "authority"
     /\ queue[t.call] \in DOMAIN Confirmed.creators
     /\ Confirmed.creators[queue[t.call]] = user[t.call]
     /\ <<queue[t.call], user[t.call]>> \notin Confirmed.authority

Applied(t) ==
  IF t.kind = "create"
    THEN [Confirmed EXCEPT !.creators = Append(@, user[t.call]),
                           !.mapping[name[t.call]] = queue[t.call]]
    ELSE [Confirmed EXCEPT !.authority = @ \cup {<<queue[t.call], user[t.call]>>}]

Execute(t) ==
  /\ net' = net \ {t}
  /\ IF Acceptable(t)
       THEN /\ chain' = Append(IF Len(chain) > MaxLag THEN Tail(chain) ELSE chain, Applied(t))
            /\ landed' = landed \cup {t}
            /\ UNCHANGED failed
       ELSE /\ failed' = failed \cup {t}
            /\ UNCHANGED <<chain, landed>>
  /\ UNCHANGED <<callVars, begun>>

\* The nodes that are furthest behind catch up by a state.
CatchUp ==
  /\ Len(chain) > 1
  /\ chain' = Tail(chain)
  /\ UNCHANGED <<net, landed, failed, callVars, begun>>

-----------------------------------------------------------------------------
Proceed(c) ==
  \/ ConfigRead(c)
  \/ Created(c)
  \/ AuthorityRead(c)
  \/ Added(c)
  \/ Rejected(c)

Next ==
  \/ \E c \in Call : getOrCreateTaskQueue(c) \/ Proceed(c)
  \/ \E t \in net : Execute(t)
  \/ CatchUp

Spec == Init /\ [][Next]_vars

-----------------------------------------------------------------------------
\* Properties.

ProgramState == [creators : Seq(User), mapping : [Name -> Nat],
                 authority : SUBSET (Nat \X User)]

TypeOK ==
  /\ chain \in Seq(ProgramState)
  /\ chain # << >>
  /\ net \subseteq Tx
  /\ landed \subseteq Tx
  /\ failed \subseteq Tx
  /\ state \in [Call -> {"idle", "missing", "creating", "found", "adding",
                         "resolved", "rejected"}]
  /\ user \in [Call -> User]
  /\ name \in [Call -> Name]
  /\ queue \in [Call -> Nat]
  /\ begun \in [Call -> [landed : SUBSET Tx, settled : BOOLEAN]]

\* A call that fulfilled returned the queue of its name, and its user may queue
\* tasks in it, whatever stale reads led there and whatever other calls did
\* between its two transactions.
ReadyIsUsable ==
  \A c \in Call : state[c] = "resolved" =>
    /\ queue[c] = Confirmed.mapping[name[c]]
    /\ queue[c] # NoQueue
    /\ <<queue[c], user[c]>> \in Confirmed.authority

\* Nothing came between: when call c began every node had the latest state, and
\* since then only transactions of c landed.
Undisturbed(c) ==
  /\ begun[c].settled
  /\ landed \ begun[c].landed \subseteq {CreateTx(c), AuthorityTx(c)}

\* A transaction of an undisturbed call fails only when the queue of the name
\* is of another user.  So a user whose earlier call ended anywhere, before,
\* between or after its two transactions, gets the queue by calling again.
UndisturbedSucceeds ==
  \A t \in failed : Undisturbed(t.call) =>
    /\ t.kind = "authority"
    /\ queue[t.call] \in DOMAIN Confirmed.creators
    /\ Confirmed.creators[queue[t.call]] # user[t.call]

=============================================================================
