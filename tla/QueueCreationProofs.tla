------------------------- MODULE QueueCreationProofs -------------------------
(***************************************************************************)
(* Theorems about QueueCreation, for every set of calls, users and names    *)
(* and nodes that are behind by any number of states.                       *)
(***************************************************************************)
EXTENDS QueueCreation, TLAPS

-----------------------------------------------------------------------------
\* The inductive invariant.

\* Nothing that a state of the program shows is taken back by a later one.
Behind(p, q) ==
  /\ \A n \in Name : p.mapping[n] # NoQueue => q.mapping[n] = p.mapping[n]
  /\ p.authority \subseteq q.authority

\* Names and authorities are of queues that exist.
WellFormed(p) ==
  /\ \A n \in Name : p.mapping[n] # NoQueue => p.mapping[n] \in 1 .. Len(p.creators)
  /\ \A a \in p.authority : a[1] \in 1 .. Len(p.creators)

NodesAreBehind == \A i \in 1 .. Len(chain) : Behind(chain[i], Confirmed)

\* How far a call is once it has sent a transaction, and what it knows when the
\* transaction has landed.
SentOnce(c) ==
  /\ CreateTx(c) \in net \cup landed \cup failed =>
       /\ state[c] \in {"creating", "found", "adding", "resolved", "rejected"}
       /\ queue[c] # NoQueue
  /\ CreateTx(c) \in net => state[c] \in {"creating", "rejected"} /\ CreateTx(c) \notin landed
  /\ CreateTx(c) \in landed => queue[c] = Confirmed.mapping[name[c]]
  /\ AuthorityTx(c) \in net \cup landed \cup failed =>
       /\ state[c] \in {"adding", "resolved", "rejected"}
       /\ CreateTx(c) \notin net
       /\ queue[c] # NoQueue
       /\ queue[c] = Confirmed.mapping[name[c]]
  /\ AuthorityTx(c) \in net => AuthorityTx(c) \notin landed
  /\ AuthorityTx(c) \in landed => <<queue[c], user[c]>> \in Confirmed.authority

HasQueue(c) ==
  /\ state[c] \in {"found", "adding", "resolved"} =>
       /\ queue[c] # NoQueue
       /\ queue[c] = Confirmed.mapping[name[c]]
       /\ CreateTx(c) \notin net
  /\ state[c] = "resolved" => <<queue[c], user[c]>> \in Confirmed.authority

\* What call c has landed since it began.
Own(c) == {CreateTx(c), AuthorityTx(c)}

\* A call that nothing came between has seen the latest state and works on it.
Alone(c) ==
  /\ begun[c].landed \subseteq landed
  /\ Own(c) \cap begun[c].landed = {}
  /\ state[c] # "idle" /\ Undisturbed(c) =>
       /\ Own(c) \cap landed = {} => Len(chain) = 1
       /\ state[c] = "missing" => Confirmed.mapping[name[c]] = NoQueue
       /\ CreateTx(c) \in net =>
            /\ queue[c] = Len(Confirmed.creators) + 1
            /\ Confirmed.mapping[name[c]] = NoQueue
       /\ CreateTx(c) \in landed /\ AuthorityTx(c) \notin landed =>
            <<queue[c], user[c]>> \notin Confirmed.authority
       /\ AuthorityTx(c) \in net => <<queue[c], user[c]>> \notin Confirmed.authority

IInv ==
  /\ TypeOK
  /\ NodesAreBehind
  /\ WellFormed(Confirmed)
  /\ \A c \in Call : SentOnce(c) /\ HasQueue(c) /\ Alone(c)
  /\ UndisturbedSucceeds

-----------------------------------------------------------------------------
\* Transactions.

LEMMA TxFacts ==
  /\ \A c, d \in Call : CreateTx(c) = CreateTx(d) => c = d
  /\ \A c, d \in Call : AuthorityTx(c) = AuthorityTx(d) => c = d
  /\ \A c, d \in Call : CreateTx(c) # AuthorityTx(d)
  /\ \A c \in Call : CreateTx(c) \in Tx /\ AuthorityTx(c) \in Tx
  /\ \A c \in Call : CreateTx(c).call = c /\ CreateTx(c).kind = "create"
  /\ \A c \in Call : AuthorityTx(c).call = c /\ AuthorityTx(c).kind = "authority"
  /\ \A t \in Tx : t.call \in Call /\ t \in Own(t.call)
BY DEF CreateTx, AuthorityTx, Tx, Own

\* A transaction under way has not been executed.
LEMMA NetIsFresh ==
  ASSUME IInv, NEW t \in net
  PROVE  /\ t.call \in Call
         /\ t = CreateTx(t.call) \/ t = AuthorityTx(t.call)
         /\ t \notin landed
<1>1. t \in Tx
  BY DEF IInv, TypeOK
<1>2. t.call \in Call /\ (t = CreateTx(t.call) \/ t = AuthorityTx(t.call))
  BY <1>1, TxFacts DEF Own
<1> QED BY <1>2 DEF IInv, SentOnce

-----------------------------------------------------------------------------
\* The state of the program.

\* A later state shows what an earlier one did.
Grown(p, q) ==
  /\ Behind(p, q)
  /\ Len(p.creators) <= Len(q.creators)
  /\ \A i \in 1 .. Len(p.creators) : q.creators[i] = p.creators[i]

LEMMA ConfirmedType == TypeOK => Confirmed \in ProgramState
BY DEF TypeOK, Confirmed

\* A transaction that is accepted adds to the state of the program.
LEMMA AppliedGrows ==
  ASSUME TypeOK, WellFormed(Confirmed), NEW t \in net, Acceptable(t), queue[t.call] \in Nat \ {NoQueue}
  PROVE  /\ Applied(t) \in ProgramState
         /\ Grown(Confirmed, Applied(t))
         /\ WellFormed(Applied(t))
         /\ t.kind = "create" => /\ Applied(t).mapping[name[t.call]] = queue[t.call]
                                 /\ Applied(t).authority = Confirmed.authority
         /\ t.kind = "authority" => <<queue[t.call], user[t.call]>> \in Applied(t).authority
<1> DEFINE p == Confirmed
           c == t.call
           q == Applied(t)
<1>1. /\ p \in ProgramState
      /\ c \in Call
      /\ t.kind \in {"create", "authority"}
      /\ name[c] \in Name
      /\ user[c] \in User
  BY ConfirmedType DEF TypeOK, Tx
<1>2. p.creators \in Seq(User) /\ p.mapping \in [Name -> Nat] /\ p.authority \subseteq Nat \X User
  BY <1>1 DEF ProgramState
<1>3. CASE t.kind = "create"
  <2>1. /\ q.creators = Append(p.creators, user[c])
        /\ q.mapping = [p.mapping EXCEPT ![name[c]] = queue[c]]
        /\ q.authority = p.authority
        /\ q \in ProgramState
    <3>1. q = [p EXCEPT !.creators = Append(@, user[c]), !.mapping[name[c]] = queue[c]]
      BY <1>3 DEF Applied
    <3>2. Append(p.creators, user[c]) \in Seq(User)
      BY <1>1, <1>2
    <3> HIDE DEF q, p
    <3>3. q.creators = Append(p.creators, user[c]) /\ q.authority = p.authority
      BY <1>1, <3>1 DEF ProgramState
    <3>4. q.mapping = [p.mapping EXCEPT ![name[c]] = queue[c]]
      BY <1>1, <3>1 DEF ProgramState
    <3>5. q.mapping \in [Name -> Nat]
      BY <1>1, <1>2, <3>4
    <3>6. q \in ProgramState
      BY <1>1, <1>2, <3>1, <3>2, <3>3, <3>5 DEF ProgramState
    <3> QED BY <3>3, <3>4, <3>6
  <2>2. queue[c] = Len(p.creators) + 1 /\ p.mapping[name[c]] = NoQueue
    BY <1>3 DEF Acceptable
  <2>3. /\ Len(q.creators) = Len(p.creators) + 1
        /\ \A i \in 1 .. Len(p.creators) : q.creators[i] = p.creators[i]
    BY <1>1, <1>2, <2>1
  <2>4. Behind(p, q)
    BY <1>1, <1>2, <2>1, <2>2 DEF Behind
  <2>5. WellFormed(q)
    BY <1>1, <1>2, <2>1, <2>2, <2>3 DEF WellFormed
  <2> QED BY <1>1, <1>2, <1>3, <2>1, <2>3, <2>4, <2>5 DEF Grown
<1>4. CASE t.kind = "authority"
  <2>1. /\ q.creators = p.creators
        /\ q.mapping = p.mapping
        /\ q.authority = p.authority \cup {<<queue[c], user[c]>>}
        /\ q \in ProgramState
    <3>1. q = [p EXCEPT !.authority = p.authority \cup {<<queue[c], user[c]>>}]
      BY <1>4 DEF Applied
    <3>2. p.authority \cup {<<queue[c], user[c]>>} \subseteq Nat \X User
      BY <1>1, <1>2
    <3> HIDE DEF q, p
    <3>3. /\ q.creators = p.creators
          /\ q.mapping = p.mapping
          /\ q.authority = p.authority \cup {<<queue[c], user[c]>>}
      BY <1>1, <3>1 DEF ProgramState
    <3>4. q \in ProgramState
      BY <1>1, <1>2, <3>1, <3>2, <3>3 DEF ProgramState
    <3> QED BY <3>3, <3>4
  <2>2. queue[c] \in 1 .. Len(p.creators)
    BY <1>2, <1>4 DEF Acceptable
  <2>3. Behind(p, q)
    BY <2>1 DEF Behind
  <2>4. WellFormed(q)
    BY <1>2, <2>1, <2>2 DEF WellFormed
  <2> QED BY <1>2, <1>4, <2>1, <2>3, <2>4 DEF Grown
<1> QED BY <1>1, <1>3, <1>4

LEMMA AppendFacts ==
  ASSUME NEW S, NEW s \in Seq(S), NEW e \in S
  PROVE  /\ Append(s, e) \in Seq(S)
         /\ Len(Append(s, e)) = Len(s) + 1
         /\ Append(s, e)[Len(s) + 1] = e
         /\ \A i \in 1 .. Len(s) : Append(s, e)[i] = s[i]
OBVIOUS

LEMMA TailFacts ==
  ASSUME NEW S, NEW s \in Seq(S), Len(s) > 1
  PROVE  /\ Tail(s) \in Seq(S) /\ Tail(s) # << >>
         /\ Len(Tail(s)) = Len(s) - 1
         /\ \A i \in 1 .. Len(Tail(s)) : i + 1 \in 1 .. Len(s) /\ Tail(s)[i] = s[i + 1]
<1>1. /\ Tail(s) \in Seq(S)
      /\ Len(Tail(s)) = Len(s) - 1
      /\ \A i \in 1 .. Len(Tail(s)) : i + 1 \in 1 .. Len(s) /\ Tail(s)[i] = s[i + 1]
  OBVIOUS
<1>2. Len(Tail(s)) # 0 /\ Len(<< >>) = 0
  BY <1>1
<1>3. Tail(s) # << >>
  BY <1>2, Zenon
<1> QED BY <1>1, <1>3

\* What the nodes may serve after it.
LEMMA ChainGrows ==
  ASSUME TypeOK, NEW p \in ProgramState,
         chain' = Append(IF Len(chain) > MaxLag THEN Tail(chain) ELSE chain, p)
  PROVE  /\ chain' \in Seq(ProgramState) /\ chain' # << >>
         /\ Confirmed' = p
         /\ \A i \in 1 .. Len(chain') : chain'[i] = p \/ \E j \in 1 .. Len(chain) : chain'[i] = chain[j]
<1> DEFINE old == IF Len(chain) > MaxLag THEN Tail(chain) ELSE chain
<1>1. chain \in Seq(ProgramState) /\ chain # << >>
  BY DEF TypeOK
<1>2. old \in Seq(ProgramState) /\ \A i \in 1 .. Len(old) : \E j \in 1 .. Len(chain) : old[i] = chain[j]
  <2>1. CASE Len(chain) > MaxLag
    <3>1. /\ old = Tail(chain)
          /\ old \in Seq(ProgramState)
          /\ Len(old) = Len(chain) - 1
          /\ \A i \in 1 .. Len(old) : i + 1 \in 1 .. Len(chain) /\ old[i] = chain[i + 1]
      BY <1>1, <2>1
    <3> QED BY <3>1
  <2>2. CASE ~ (Len(chain) > MaxLag)
    BY <1>1, <2>2
  <2> QED BY <2>1, <2>2
<1> HIDE DEF old
<1>3. chain' = Append(old, p)
  BY DEF old
<1>5. old \in Seq(ProgramState) /\ Len(old) \in Nat
  BY <1>2
<1>4. /\ chain' \in Seq(ProgramState)
      /\ Len(chain') = Len(old) + 1
      /\ chain'[Len(old) + 1] = p
      /\ \A i \in 1 .. Len(old) : chain'[i] = old[i]
  <2>1. /\ Append(old, p) \in Seq(ProgramState)
        /\ Len(Append(old, p)) = Len(old) + 1
        /\ Append(old, p)[Len(old) + 1] = p
        /\ \A i \in 1 .. Len(old) : Append(old, p)[i] = old[i]
    BY <1>5, AppendFacts
  <2> QED BY <1>3, <2>1, Zenon
<1> QED BY <1>2, <1>4, <1>5 DEF Confirmed

-----------------------------------------------------------------------------
\* IInv is inductive.

LEMMA InitIInv == Init => IInv
<1> SUFFICES ASSUME Init PROVE IInv
  OBVIOUS
<1> DEFINE p == [creators |-> << >>, mapping |-> [n \in Name |-> NoQueue], authority |-> {}]
<1>1. chain = <<p>> /\ net = {} /\ landed = {} /\ failed = {}
  BY DEF Init
<1>2. p \in ProgramState
  BY DEF ProgramState, NoQueue
<1>3. WellFormed(p) /\ Behind(p, p)
  BY DEF WellFormed, Behind
<1> HIDE DEF p
<1>4. Confirmed = p /\ Len(chain) = 1 /\ chain[1] = p
  BY <1>1 DEF Confirmed
<1>5. TypeOK
  <2>1. chain \in Seq(ProgramState) /\ chain # << >>
    BY <1>1, <1>2
  <2>2. /\ state = [c \in Call |-> "idle"]
        /\ user \in [Call -> User] /\ name \in [Call -> Name]
        /\ queue = [c \in Call |-> NoQueue]
        /\ begun = [c \in Call |-> [landed |-> {}, settled |-> FALSE]]
    BY DEF Init
  <2>3. /\ state \in [Call -> {"idle", "missing", "creating", "found", "adding",
                                "resolved", "rejected"}]
        /\ queue \in [Call -> Nat]
        /\ begun \in [Call -> [landed : SUBSET Tx, settled : BOOLEAN]]
    BY <2>2 DEF NoQueue
  <2> QED BY <1>1, <2>1, <2>2, <2>3 DEF TypeOK
<1>6. NodesAreBehind
  BY <1>3, <1>4 DEF NodesAreBehind
<1>7. \A c \in Call : SentOnce(c) /\ HasQueue(c) /\ Alone(c)
  BY <1>1 DEF Init, SentOnce, HasQueue, Alone, Own
<1> QED BY <1>1, <1>3, <1>4, <1>5, <1>6, <1>7 DEF IInv, UndisturbedSucceeds

\* Every action keeps the types.
LEMMA TypeStep ==
  ASSUME IInv, [Next]_vars
  PROVE  TypeOK'
<1> USE DEF IInv
<1>1. ASSUME NEW c \in Call, getOrCreateTaskQueue(c)
      PROVE  TypeOK'
  <2>1. PICK q \in Seen : queue' = [queue EXCEPT ![c] = q.mapping[name[c]]]
    BY <1>1 DEF getOrCreateTaskQueue
  <2>2. q \in ProgramState
    BY DEF Seen, TypeOK
  <2>3. q.mapping[name[c]] \in Nat
    BY <2>2 DEF ProgramState, TypeOK
  <2> QED BY <1>1, <2>1, <2>3 DEF getOrCreateTaskQueue, TypeOK, argVars
<1>2. ASSUME NEW c \in Call, ConfigRead(c)
      PROVE  TypeOK'
  <2>1. PICK q \in Seen : queue' = [queue EXCEPT ![c] = Len(q.creators) + 1]
    BY <1>2 DEF ConfigRead
  <2>2. q \in ProgramState
    BY DEF Seen, TypeOK
  <2>3. Len(q.creators) + 1 \in Nat
    BY <2>2 DEF ProgramState
  <2> QED BY <1>2, <2>1, <2>3, TxFacts DEF ConfigRead, TypeOK, argVars
<1>3. ASSUME NEW c \in Call, Created(c) \/ AuthorityRead(c) \/ Added(c) \/ Rejected(c)
      PROVE  TypeOK'
  <2>1. UNCHANGED <<chain, landed, failed, user, name, queue, begun>>
    BY <1>3 DEF Created, AuthorityRead, Added, Rejected, argVars
  <2>2. net' \subseteq net \cup {AuthorityTx(c)}
    BY <1>3 DEF Created, AuthorityRead, Added, Rejected
  <2>3. PICK st \in {"found", "adding", "resolved", "rejected"} : state' = [state EXCEPT ![c] = st]
    BY <1>3 DEF Created, AuthorityRead, Added, Rejected
  <2> QED BY <2>1, <2>2, <2>3, TxFacts DEF TypeOK
<1>4. ASSUME NEW t \in net, Execute(t)
      PROVE  TypeOK'
  <2>1. /\ UNCHANGED <<state, user, name, queue, begun>>
        /\ net' \subseteq Tx /\ landed' \subseteq Tx /\ failed' \subseteq Tx
    BY <1>4 DEF Execute, TypeOK, callVars
  <2>2. CASE Acceptable(t)
    <3>1. queue[t.call] \in Nat \ {NoQueue}
      BY NetIsFresh DEF SentOnce, TypeOK
    <3>2. Applied(t) \in ProgramState
      BY <2>2, <3>1, AppliedGrows
    <3>3. chain' \in Seq(ProgramState) /\ chain' # << >>
      BY <1>4, <2>2, <3>2, ChainGrows DEF Execute
    <3> QED BY <2>1, <3>3 DEF TypeOK
  <2>3. CASE ~ Acceptable(t)
    BY <1>4, <2>1, <2>3 DEF Execute, TypeOK
  <2> QED BY <2>2, <2>3
<1>5. CASE CatchUp
  <2>1. Tail(chain) \in Seq(ProgramState) /\ Tail(chain) # << >>
    BY <1>5, TailFacts DEF CatchUp, TypeOK
  <2> QED BY <1>5, <2>1 DEF CatchUp, TypeOK, callVars
<1>6. CASE UNCHANGED vars
  BY <1>6 DEF vars, argVars, TypeOK
<1> QED BY <1>1, <1>2, <1>3, <1>4, <1>5, <1>6 DEF Next, Proceed

\* A step of one call that sends at most a transaction of its own: what is left
\* to show is about this call.
LEMMA CallStep ==
  ASSUME IInv, TypeOK', NEW c \in Call,
         UNCHANGED <<chain, landed, failed, user, name>>,
         \A d \in Call \ {c} : state'[d] = state[d] /\ queue'[d] = queue[d] /\ begun'[d] = begun[d],
         net \subseteq net',
         net' \subseteq net \cup Own(c),
         Own(c) \cap failed # {} => queue'[c] = queue[c] /\ begun'[c] = begun[c],
         SentOnce(c)', HasQueue(c)', Alone(c)'
  PROVE  IInv'
<1> USE DEF IInv
<1>1. Confirmed' = Confirmed
  BY DEF Confirmed
<1>2. NodesAreBehind'
  BY <1>1 DEF NodesAreBehind
<1>3. WellFormed(Confirmed)'
  BY <1>1
<1>4. ASSUME NEW d \in Call \ {c}
      PROVE  SentOnce(d)' /\ HasQueue(d)' /\ Alone(d)'
  <2>1. /\ CreateTx(d) \in net' <=> CreateTx(d) \in net
        /\ AuthorityTx(d) \in net' <=> AuthorityTx(d) \in net
    BY TxFacts DEF Own
  <2>2. SentOnce(d)'
    BY <1>1, <2>1 DEF SentOnce
  <2>3. HasQueue(d)'
    BY <1>1, <2>1 DEF HasQueue
  <2>4. Alone(d)'
    BY <1>1, <2>1 DEF Alone, Undisturbed, Own
  <2> QED BY <2>2, <2>3, <2>4
<1>5. UndisturbedSucceeds'
  <2> SUFFICES ASSUME NEW t \in failed', Undisturbed(t.call)'
               PROVE  /\ t.kind = "authority"
                      /\ queue'[t.call] \in DOMAIN Confirmed'.creators
                      /\ Confirmed'.creators[queue'[t.call]] # user'[t.call]
    BY DEF UndisturbedSucceeds
  <2>1. t \in Tx /\ t.call \in Call /\ t \in Own(t.call) \cap failed
    BY TxFacts DEF TypeOK
  <2>2. queue'[t.call] = queue[t.call] /\ begun'[t.call] = begun[t.call]
    BY <2>1
  <2>3. Undisturbed(t.call)
    BY <2>2 DEF Undisturbed
  <2> QED BY <1>1, <2>1, <2>2, <2>3 DEF UndisturbedSucceeds
<1> QED BY <1>2, <1>3, <1>4, <1>5

LEMMA CallSteps ==
  ASSUME IInv, TypeOK', NEW c \in Call, getOrCreateTaskQueue(c) \/ Proceed(c)
  PROVE  IInv'
<1> USE DEF IInv
<1>1. Confirmed' = Confirmed /\ UNCHANGED <<chain, landed, failed, user, name>>
  BY DEF getOrCreateTaskQueue, Proceed, ConfigRead, Created, AuthorityRead, Added,
         Rejected, argVars, Confirmed
<1>2. SentOnce(c) /\ HasQueue(c) /\ Alone(c)
  OBVIOUS
<1>3. Confirmed \in ProgramState /\ name[c] \in Name /\ user[c] \in User
  BY ConfirmedType DEF TypeOK
<1>4. \A q \in Seen : Behind(q, Confirmed) /\ q \in ProgramState
  BY DEF NodesAreBehind, Seen, TypeOK
<1>5. Len(chain) = 1 => \A q \in Seen : q = Confirmed
  BY DEF Seen, Confirmed
<1>6. CreateTx(c) # AuthorityTx(c)
  BY TxFacts
<1>7. CASE getOrCreateTaskQueue(c)
  <2>1. /\ state[c] = "idle"
        /\ UNCHANGED net
        /\ begun' = [begun EXCEPT ![c] = [landed |-> landed, settled |-> Len(chain) = 1]]
    BY <1>7 DEF getOrCreateTaskQueue
  <2>2. PICK q \in Seen :
          /\ queue' = [queue EXCEPT ![c] = q.mapping[name[c]]]
          /\ state' = [state EXCEPT ![c] = IF q.mapping[name[c]] = NoQueue THEN "missing" ELSE "found"]
    BY <1>7 DEF getOrCreateTaskQueue
  <2>3. Own(c) \cap (net \cup landed \cup failed) = {}
    BY <1>2, <2>1 DEF SentOnce, Own
  <2>4. /\ queue'[c] = q.mapping[name[c]]
        /\ state'[c] = IF queue'[c] = NoQueue THEN "missing" ELSE "found"
        /\ begun'[c].landed = landed
        /\ begun'[c].settled = (Len(chain) = 1)
    BY <2>1, <2>2 DEF TypeOK
  <2>5. queue'[c] # NoQueue => queue'[c] = Confirmed.mapping[name[c]]
    BY <1>3, <1>4, <2>4 DEF Behind
  <2>6. SentOnce(c)'
    BY <1>1, <2>1, <2>3 DEF SentOnce, Own
  <2>7. HasQueue(c)'
    BY <1>1, <2>1, <2>3, <2>4, <2>5 DEF HasQueue, Own
  <2>8. Alone(c)'
    BY <1>1, <1>5, <2>1, <2>3, <2>4 DEF Alone, Undisturbed, Own
  <2>9. \A d \in Call \ {c} : state'[d] = state[d] /\ queue'[d] = queue[d] /\ begun'[d] = begun[d]
    BY <2>1, <2>2 DEF TypeOK
  <2> QED BY <1>1, <2>1, <2>3, <2>6, <2>7, <2>8, <2>9, CallStep
<1>8. CASE ConfigRead(c)
  <2>1. /\ state[c] = "missing"
        /\ state' = [state EXCEPT ![c] = "creating"]
        /\ net' = net \cup {CreateTx(c)}
        /\ UNCHANGED begun
    BY <1>8 DEF ConfigRead
  <2>2. PICK q \in Seen : queue' = [queue EXCEPT ![c] = Len(q.creators) + 1]
    BY <1>8 DEF ConfigRead
  <2>3. Own(c) \cap (net \cup landed \cup failed) = {}
    BY <1>2, <2>1 DEF SentOnce, Own
  <2>4. /\ state'[c] = "creating"
        /\ queue'[c] = Len(q.creators) + 1
        /\ Len(q.creators) \in Nat
    BY <1>4, <2>1, <2>2 DEF TypeOK, ProgramState
  <2>5. queue'[c] # NoQueue
    BY <2>4 DEF NoQueue
  <2>6. SentOnce(c)'
    BY <1>1, <1>6, <2>1, <2>3, <2>4, <2>5 DEF SentOnce, Own
  <2>7. HasQueue(c)'
    BY <2>4 DEF HasQueue
  <2>8. Alone(c)'
    <3>1. Undisturbed(c)' <=> Undisturbed(c)
      BY <1>1, <2>1 DEF Undisturbed
    <3>2. CreateTx(c) \notin landed /\ AuthorityTx(c) \notin net'
      BY <1>6, <2>1, <2>3 DEF Own
    <3>3. Undisturbed(c) => Len(chain) = 1 /\ Confirmed.mapping[name[c]] = NoQueue
      BY <1>2, <2>1, <2>3 DEF Alone
    <3>4. Undisturbed(c) => queue'[c] = Len(Confirmed.creators) + 1
      BY <1>5, <2>4, <3>3
    <3> QED BY <1>1, <1>2, <2>1, <2>4, <3>1, <3>2, <3>3, <3>4 DEF Alone, Own
  <2>9. \A d \in Call \ {c} : state'[d] = state[d] /\ queue'[d] = queue[d] /\ begun'[d] = begun[d]
    BY <2>1, <2>2 DEF TypeOK
  <2> QED BY <1>1, <2>1, <2>3, <2>6, <2>7, <2>8, <2>9, CallStep DEF Own
<1>9. CASE AuthorityRead(c)
  <2>1. state[c] = "found" /\ UNCHANGED <<queue, begun>>
    BY <1>9 DEF AuthorityRead
  <2>2. PICK q \in Seen :
          \/ /\ <<queue[c], user[c]>> \in q.authority
             /\ state' = [state EXCEPT ![c] = "resolved"]
             /\ UNCHANGED net
          \/ /\ <<queue[c], user[c]>> \notin q.authority
             /\ state' = [state EXCEPT ![c] = "adding"]
             /\ net' = net \cup {AuthorityTx(c)}
    BY <1>9 DEF AuthorityRead
  <2>3. AuthorityTx(c) \notin net \cup landed \cup failed
    BY <1>2, <2>1 DEF SentOnce
  <2>4. \A d \in Call \ {c} : state'[d] = state[d]
    BY <2>2 DEF TypeOK
  <2>5. Undisturbed(c)' <=> Undisturbed(c)
    BY <1>1, <2>1 DEF Undisturbed
  <2>6. CASE state' = [state EXCEPT ![c] = "resolved"] /\ <<queue[c], user[c]>> \in q.authority /\ UNCHANGED net
    <3>1. state'[c] = "resolved" /\ <<queue[c], user[c]>> \in Confirmed.authority
      BY <1>4, <2>6 DEF TypeOK, Behind
    <3>2. SentOnce(c)' /\ HasQueue(c)'
      BY <1>1, <1>2, <2>1, <2>6, <3>1 DEF SentOnce, HasQueue
    <3>3. Alone(c)'
      BY <1>1, <1>2, <2>1, <2>5, <2>6, <3>1 DEF Alone, Own
    <3> QED BY <1>1, <2>1, <2>4, <2>6, <3>2, <3>3, CallStep
  <2>7. CASE /\ <<queue[c], user[c]>> \notin q.authority
             /\ state' = [state EXCEPT ![c] = "adding"]
             /\ net' = net \cup {AuthorityTx(c)}
    <3>1. state'[c] = "adding"
      BY <2>7 DEF TypeOK
    <3>2. SentOnce(c)' /\ HasQueue(c)'
      BY <1>1, <1>2, <1>6, <2>1, <2>3, <2>7, <3>1 DEF SentOnce, HasQueue
    <3>3. Undisturbed(c) => <<queue[c], user[c]>> \notin Confirmed.authority
      <4>1. CASE CreateTx(c) \in landed
        BY <1>2, <2>1, <2>3, <4>1 DEF Alone
      <4>2. CASE CreateTx(c) \notin landed
        BY <1>2, <1>5, <2>1, <2>3, <2>7, <4>2 DEF Alone, Own
      <4> QED BY <4>1, <4>2
    <3>4. CreateTx(c) \notin net'
      BY <1>2, <1>6, <2>1, <2>7 DEF HasQueue
    <3>5. Alone(c)'
      BY <1>1, <1>2, <2>1, <2>5, <3>1, <3>3, <3>4 DEF Alone, Own
    <3> QED BY <1>1, <2>1, <2>4, <2>7, <3>2, <3>5, CallStep DEF Own
  <2> QED BY <2>2, <2>6, <2>7
<1>10. CASE Created(c) \/ Added(c) \/ Rejected(c)
  <2>1. UNCHANGED <<net, queue, begun>>
    BY <1>10 DEF Created, Added, Rejected
  <2>2. /\ state'[c] \in {"found", "resolved", "rejected"}
        /\ state[c] \notin {"idle"}
        /\ \A d \in Call \ {c} : state'[d] = state[d]
        /\ state'[c] = "found" => state[c] = "creating" /\ CreateTx(c) \in landed
        /\ state'[c] = "resolved" => state[c] = "adding" /\ AuthorityTx(c) \in landed
    BY <1>10 DEF Created, Added, Rejected, TypeOK
  <2>3. AuthorityTx(c) \in net \cup landed \cup failed => state[c] = "adding" \/ state'[c] = "rejected"
    BY <1>2, <1>10 DEF SentOnce, Created, Added, Rejected
  <2>4. SentOnce(c)'
    BY <1>1, <1>2, <2>1, <2>2, <2>3 DEF SentOnce
  <2>5. HasQueue(c)'
    BY <1>1, <1>2, <2>1, <2>2 DEF SentOnce, HasQueue
  <2>6. Alone(c)'
    BY <1>1, <1>2, <2>1, <2>2 DEF Alone, Undisturbed, Own
  <2> QED BY <1>1, <2>1, <2>2, <2>4, <2>5, <2>6, CallStep
<1> QED BY <1>7, <1>8, <1>9, <1>10 DEF Proceed

\* A transaction that lands changes the state of the program; whoever did not send
\* it is disturbed.
LEMMA LandStep ==
  ASSUME IInv, TypeOK', NEW t \in net, Execute(t), Acceptable(t)
  PROVE  IInv'
<1> USE DEF IInv
<1> DEFINE c == t.call
<1>1. /\ c \in Call
      /\ t = CreateTx(c) \/ t = AuthorityTx(c)
      /\ t \notin landed
  BY NetIsFresh
<1>2. /\ net' = net \ {t}
      /\ landed' = landed \cup {t}
      /\ UNCHANGED <<failed, state, user, name, queue, begun>>
      /\ chain' = Append(IF Len(chain) > MaxLag THEN Tail(chain) ELSE chain, Applied(t))
  BY DEF Execute, callVars
<1>3. queue[c] \in Nat \ {NoQueue}
  BY <1>1 DEF SentOnce, TypeOK
<1>4. /\ Applied(t) \in ProgramState
      /\ Grown(Confirmed, Applied(t))
      /\ WellFormed(Applied(t))
      /\ t.kind = "create" => /\ Applied(t).mapping[name[c]] = queue[c]
                              /\ Applied(t).authority = Confirmed.authority
      /\ t.kind = "authority" => <<queue[c], user[c]>> \in Applied(t).authority
  BY <1>3, AppliedGrows
<1>5. /\ Confirmed' = Applied(t)
      /\ \A i \in 1 .. Len(chain') :
           chain'[i] = Applied(t) \/ \E j \in 1 .. Len(chain) : chain'[i] = chain[j]
  BY <1>2, <1>4, ChainGrows
<1>6. /\ \A n \in Name : Confirmed.mapping[n] # NoQueue => Confirmed'.mapping[n] = Confirmed.mapping[n]
      /\ Confirmed.authority \subseteq Confirmed'.authority
      /\ Len(Confirmed.creators) <= Len(Confirmed'.creators)
      /\ \A i \in 1 .. Len(Confirmed.creators) : Confirmed'.creators[i] = Confirmed.creators[i]
  BY <1>4, <1>5 DEF Grown, Behind
<1>7. NodesAreBehind'
  <2>1. Behind(Applied(t), Applied(t))
    BY DEF Behind
  <2>2. \A j \in 1 .. Len(chain) : Behind(chain[j], Applied(t))
    BY <1>4 DEF NodesAreBehind, Grown, Behind
  <2> QED BY <1>5, <2>1, <2>2 DEF NodesAreBehind
<1>8. WellFormed(Confirmed)'
  BY <1>4, <1>5 DEF WellFormed
<1>9. c = t.call /\ (t.kind = "create" <=> t = CreateTx(c)) /\ (t.kind = "authority" <=> t = AuthorityTx(c))
  BY <1>1, TxFacts
<1>10. ASSUME NEW d \in Call
       PROVE  SentOnce(d)' /\ HasQueue(d)'
  <2>1. name[d] \in Name
    BY DEF TypeOK
  <2>2. /\ CreateTx(d) \in landed' => queue[d] = Confirmed'.mapping[name[d]]
        /\ CreateTx(d) \in net' => CreateTx(d) \in net /\ CreateTx(d) \notin landed'
        /\ AuthorityTx(d) \in net' => AuthorityTx(d) \in net /\ AuthorityTx(d) \notin landed'
        /\ AuthorityTx(d) \in landed' => <<queue[d], user[d]>> \in Confirmed'.authority
    <3>1. CASE d = c
      BY <1>1, <1>2, <1>4, <1>5, <1>6, <1>9, <2>1, <3>1 DEF SentOnce
    <3>2. CASE d # c
      <4>1. CreateTx(d) # t /\ AuthorityTx(d) # t
        BY <1>1, <3>2, TxFacts
      <4> QED BY <1>2, <1>6, <2>1, <4>1 DEF SentOnce
    <3> QED BY <3>1, <3>2
  <2>3. SentOnce(d)'
    BY <1>2, <1>6, <2>1, <2>2 DEF SentOnce
  <2>4. HasQueue(d)'
    BY <1>2, <1>6, <2>1 DEF HasQueue
  <2> QED BY <2>3, <2>4
<1>11. ASSUME NEW d \in Call
       PROVE  Alone(d)'
  <2>1. begun[d].landed \subseteq landed' /\ Own(d) \cap begun[d].landed = {}
    BY <1>2 DEF Alone
  <2>2. CASE d # c
    <3>1. t \notin Own(d)
      BY <1>1, <2>2, TxFacts DEF Own
    <3>2. t \in landed' \ begun[d].landed
      BY <1>1, <1>2 DEF Alone
    <3>3. ~ Undisturbed(d)'
      BY <1>2, <3>1, <3>2 DEF Undisturbed, Own
    <3> QED BY <1>2, <2>1, <3>3 DEF Alone, Own
  <2>3. CASE d = c
    <3>1. state[c] # "missing" /\ Own(c) \cap landed' # {}
      BY <1>1, <1>2 DEF SentOnce, Own
    <3>2. CreateTx(c) \notin net' /\ AuthorityTx(c) \notin net'
      BY <1>1, <1>2 DEF SentOnce
    <3>3. CreateTx(c) \in landed' /\ AuthorityTx(c) \notin landed' =>
            <<queue[c], user[c]>> \notin Confirmed'.authority
      <4>1. CASE t = CreateTx(c)
        <5>1. queue[c] = Len(Confirmed.creators) + 1
          BY <1>9, <4>1 DEF Acceptable
        <5>2. Len(Confirmed.creators) \in Nat
          BY ConfirmedType DEF ProgramState
        <5>3. <<queue[c], user[c]>> \notin Confirmed.authority
          BY <5>1, <5>2 DEF WellFormed
        <5> QED BY <1>4, <1>5, <1>9, <4>1, <5>3
      <4>2. CASE t = AuthorityTx(c)
        BY <1>2, <4>2
      <4> QED BY <1>1, <4>1, <4>2
    <3> QED BY <1>2, <2>1, <2>3, <3>1, <3>2, <3>3 DEF Alone, Own
  <2> QED BY <2>2, <2>3
<1>12. UndisturbedSucceeds'
  <2> SUFFICES ASSUME NEW u \in failed, Undisturbed(u.call)'
               PROVE  /\ u.kind = "authority"
                      /\ queue[u.call] \in DOMAIN Confirmed'.creators
                      /\ Confirmed'.creators[queue[u.call]] # user[u.call]
    BY <1>2 DEF UndisturbedSucceeds
  <2>1. Undisturbed(u.call)
    BY <1>2 DEF Undisturbed
  <2>2. /\ u.kind = "authority"
        /\ queue[u.call] \in DOMAIN Confirmed.creators
        /\ Confirmed.creators[queue[u.call]] # user[u.call]
    BY <2>1 DEF UndisturbedSucceeds
  <2>3. Confirmed.creators \in Seq(User) /\ Confirmed'.creators \in Seq(User)
    BY <1>4, <1>5, ConfirmedType DEF ProgramState
  <2>4. queue[u.call] \in 1 .. Len(Confirmed.creators) /\ queue[u.call] \in 1 .. Len(Confirmed'.creators)
    BY <1>6, <2>2, <2>3
  <2> QED BY <1>6, <2>2, <2>3, <2>4
<1> QED BY <1>7, <1>8, <1>10, <1>11, <1>12

\* A transaction of an undisturbed call fails for one reason only.
LEMMA FailStep ==
  ASSUME IInv, TypeOK', NEW t \in net, Execute(t), ~ Acceptable(t)
  PROVE  IInv'
<1> USE DEF IInv
<1> DEFINE c == t.call
<1>1. /\ c \in Call
      /\ t = CreateTx(c) \/ t = AuthorityTx(c)
  BY NetIsFresh
<1>2. /\ net' = net \ {t}
      /\ failed' = failed \cup {t}
      /\ UNCHANGED <<chain, landed, state, user, name, queue, begun>>
  BY DEF Execute, callVars
<1>3. Confirmed' = Confirmed
  BY <1>2 DEF Confirmed
<1>4. NodesAreBehind' /\ WellFormed(Confirmed)'
  BY <1>2, <1>3 DEF NodesAreBehind
<1>5. ASSUME NEW d \in Call
      PROVE  SentOnce(d)' /\ HasQueue(d)' /\ Alone(d)'
  <2>1. SentOnce(d)'
    BY <1>2, <1>3 DEF SentOnce
  <2>2. HasQueue(d)'
    BY <1>2, <1>3 DEF HasQueue
  <2>3. Alone(d)'
    BY <1>2, <1>3 DEF Alone, Undisturbed, Own
  <2> QED BY <2>1, <2>2, <2>3
<1>6. Undisturbed(c) => /\ t.kind = "authority"
                        /\ queue[c] \in DOMAIN Confirmed.creators
                        /\ Confirmed.creators[queue[c]] # user[c]
  <2> SUFFICES ASSUME Undisturbed(c)
               PROVE  /\ t.kind = "authority"
                      /\ queue[c] \in DOMAIN Confirmed.creators
                      /\ Confirmed.creators[queue[c]] # user[c]
    OBVIOUS
  <2>1. state[c] # "idle"
    BY <1>1 DEF SentOnce
  <2>2. t = AuthorityTx(c)
    <3>1. SUFFICES ASSUME t = CreateTx(c) PROVE FALSE
      BY <1>1
    <3>2. /\ queue[c] = Len(Confirmed.creators) + 1
          /\ Confirmed.mapping[name[c]] = NoQueue
      BY <1>1, <2>1, <3>1 DEF Alone
    <3>3. t.kind = "create"
      BY <1>1, <3>1, TxFacts
    <3> QED BY <3>2, <3>3 DEF Acceptable
  <2>3. t.kind = "authority"
    BY <1>1, <2>2, TxFacts
  <2>4. queue[c] # NoQueue /\ queue[c] = Confirmed.mapping[name[c]] /\ name[c] \in Name
    BY <1>1, <2>2 DEF SentOnce, TypeOK
  <2>5. queue[c] \in DOMAIN Confirmed.creators
    BY <2>4, ConfirmedType DEF WellFormed, ProgramState
  <2>6. <<queue[c], user[c]>> \notin Confirmed.authority
    BY <1>1, <2>1, <2>2 DEF Alone
  <2> QED BY <2>3, <2>5, <2>6 DEF Acceptable
<1>7. UndisturbedSucceeds'
  BY <1>2, <1>3, <1>6 DEF UndisturbedSucceeds, Undisturbed
<1> QED BY <1>4, <1>5, <1>7

LEMMA CatchUpStep ==
  ASSUME IInv, TypeOK', CatchUp
  PROVE  IInv'
<1> USE DEF IInv
<1>1. /\ Len(chain) > 1
      /\ chain' = Tail(chain)
      /\ UNCHANGED <<net, landed, failed, state, user, name, queue, begun>>
  BY DEF CatchUp, callVars
<1>2. /\ Len(chain') = Len(chain) - 1
      /\ \A i \in 1 .. Len(chain') : i + 1 \in 1 .. Len(chain) /\ chain'[i] = chain[i + 1]
      /\ Len(chain) \in Nat
  BY <1>1, TailFacts DEF TypeOK
<1>3. Confirmed' = Confirmed
  BY <1>1, <1>2 DEF Confirmed
<1>4. NodesAreBehind' /\ WellFormed(Confirmed)'
  BY <1>2, <1>3 DEF NodesAreBehind
<1>5. ASSUME NEW d \in Call
      PROVE  SentOnce(d)' /\ HasQueue(d)' /\ Alone(d)'
  <2>1. SentOnce(d)'
    BY <1>1, <1>3 DEF SentOnce
  <2>2. HasQueue(d)'
    BY <1>1, <1>3 DEF HasQueue
  <2>3. Alone(d)'
    <3>1. Undisturbed(d)' <=> Undisturbed(d)
      BY <1>1 DEF Undisturbed
    <3>2. state[d] # "idle" /\ Undisturbed(d) => Own(d) \cap landed # {}
      <4>1. Len(chain) # 1
        BY <1>1, <1>2
      <4>2. Alone(d)
        OBVIOUS
      <4> QED BY <4>1, <4>2, Zenon DEF Alone
    <3> QED BY <1>1, <1>3, <3>1, <3>2 DEF Alone, Own
  <2> QED BY <2>1, <2>2, <2>3
<1>6. UndisturbedSucceeds'
  BY <1>1, <1>3 DEF UndisturbedSucceeds, Undisturbed
<1> QED BY <1>4, <1>5, <1>6

LEMMA NextIInv == IInv /\ [Next]_vars => IInv'
<1> SUFFICES ASSUME IInv, [Next]_vars PROVE IInv'
  OBVIOUS
<1>1. TypeOK'
  BY TypeStep
<1>2. CASE UNCHANGED vars
  <2>1. UNCHANGED <<chain, net, landed, failed, state, user, name, queue, begun>>
    BY <1>2 DEF vars, argVars
  <2>2. Confirmed' = Confirmed
    BY <2>1 DEF Confirmed
  <2>3. NodesAreBehind' /\ WellFormed(Confirmed)'
    BY <2>1, <2>2 DEF IInv, NodesAreBehind
  <2>4. \A c \in Call : SentOnce(c)' /\ HasQueue(c)' /\ Alone(c)'
    BY <2>1, <2>2 DEF IInv, SentOnce, HasQueue, Alone, Own, Undisturbed
  <2>5. UndisturbedSucceeds'
    BY <2>1, <2>2 DEF IInv, UndisturbedSucceeds, Undisturbed
  <2> QED BY <1>1, <2>3, <2>4, <2>5 DEF IInv
<1>3. CASE Next
  BY <1>1, <1>3, CallSteps, LandStep, FailStep, CatchUpStep DEF Next
<1> QED BY <1>2, <1>3

-----------------------------------------------------------------------------
\* The theorems.

\* For any number of calls, users, names and states that nodes are behind.
THEOREM Invariance == Spec => []IInv
BY InitIInv, NextIInv, PTL DEF Spec

\* Every variable keeps its type.
THEOREM TypeCorrectness == Spec => []TypeOK
<1>1. IInv => TypeOK
  BY DEF IInv
<1> QED BY <1>1, Invariance, PTL

\* A call of getOrCreateTaskQueue that fulfilled (tuktuk-client.ts:104-207) returned
\* the queue of its name, in which its user may queue tasks, whatever stale reads
\* led there.
THEOREM ReadyQueueIsUsable == Spec => []ReadyIsUsable
<1>1. IInv => ReadyIsUsable
  BY DEF IInv, HasQueue, ReadyIsUsable
<1> QED BY <1>1, Invariance, PTL

\* A user whose call ended between its two transactions (tuktuk-client.ts:168-200)
\* gets the queue by calling again: a transaction of an undisturbed call fails only
\* when the queue is of another user.
THEOREM InterruptedCallerGetsIn == Spec => []UndisturbedSucceeds
<1>1. IInv => UndisturbedSucceeds
  BY DEF IInv
<1> QED BY <1>1, Invariance, PTL
=============================================================================
