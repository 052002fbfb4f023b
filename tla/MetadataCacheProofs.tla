------------------------- MODULE MetadataCacheProofs -------------------------
(***************************************************************************)
(* Theorems about MetadataCache, for every set of calls, every choice of    *)
(* fields and of sources, and nodes that are behind by any number of        *)
(* states.                                                                  *)
(***************************************************************************)
EXTENDS MetadataCache, TLAPS

-----------------------------------------------------------------------------
\* The inductive invariant.

\* A call that has found metadata, and an update on its way, hold metadata of
\* one source.
HoldsMetadata ==
  \A r \in Reader : state[r] = "found" \/ r \in net =>
    md[r].source \in Present /\ md[r] \in Metadata(md[r].source)

\* An update is sent once and lands at most once.
SentOnce(u) ==
  /\ u \in net => state[u] \in {"sent", "failed"} /\ u \notin landed
  /\ u \in landed => state[u] \in {"sent", "failed", "done"}

\* While nothing comes between, every node shows the state that u has read.
Alone(u) ==
  /\ begun[u].landed \subseteq landed
  /\ state[u] # "idle" /\ Undisturbed(u) =>
       /\ Len(chain) = 1
       /\ state[u] = "found" \/ u \in net => md[u].data = Confirmed[md[u].source]

IInv ==
  /\ TypeOK
  /\ SourcesNeverMix
  /\ HoldsMetadata
  /\ \A u \in Update : SentOnce(u) /\ Alone(u)
  /\ EntryIsYoungerThanUpdates

-----------------------------------------------------------------------------
\* The states that nodes show.

ChainState == [Present -> [Field -> Source \cup {"null"} \cup Update]]

\* What source s may hold.
Own(s) == [Field -> {s, "null"} \cup Update]

LEMMA SeenFacts ==
  ASSUME IInv
  PROVE  /\ chain \in Seq(ChainState) /\ Len(chain) \in Nat \ {0}
         /\ Confirmed \in Seen
         /\ \A q \in Seen : q \in ChainState /\ \A s \in Present : q[s] \in Own(s)
<1>1. chain \in Seq(ChainState) /\ chain # << >> /\ Len(chain) \in Nat \ {0}
  BY DEF IInv, TypeOK, ChainState
<1>2. Len(chain) \in 1 .. Len(chain)
  BY <1>1
<1>3. Confirmed \in Seen
  BY <1>2 DEF Confirmed, Seen
<1>4. \A i \in 1 .. Len(chain) : chain[i] \in ChainState
  BY <1>1
<1>5. \A i \in 1 .. Len(chain) : \A s \in Present : chain[i][s] \in Own(s)
  BY <1>4 DEF IInv, SourcesNeverMix, ChainState, Own
<1> QED BY <1>1, <1>3, <1>4, <1>5 DEF Seen

LEMMA AppendFacts ==
  ASSUME NEW S, NEW seq \in Seq(S), NEW e \in S
  PROVE  /\ Append(seq, e) \in Seq(S)
         /\ Len(Append(seq, e)) = Len(seq) + 1
         /\ Append(seq, e)[Len(seq) + 1] = e
         /\ \A i \in 1 .. Len(seq) : Append(seq, e)[i] = seq[i]
OBVIOUS

\* What Execute does to the chain.
Confirm(p) == chain' = Append(IF Len(chain) > MaxLag THEN Tail(chain) ELSE chain, p)

\* A state that is confirmed joins those that are seen.
LEMMA ConfirmFacts ==
  ASSUME IInv, NEW p \in ChainState, Confirm(p)
  PROVE  /\ chain' \in Seq(ChainState) /\ chain' # << >>
         /\ Confirmed' = p
         /\ \A i \in 1 .. Len(chain') : chain'[i] = p \/ chain'[i] \in Seen
<1> DEFINE kept == IF Len(chain) > MaxLag THEN Tail(chain) ELSE chain
<1>1. chain \in Seq(ChainState) /\ Len(chain) \in Nat \ {0}
  BY SeenFacts
<1>2. /\ Tail(chain) \in Seq(ChainState)
      /\ Len(Tail(chain)) \in Nat
      /\ \A i \in 1 .. Len(Tail(chain)) : Tail(chain)[i] \in Seen
  <2>1. Tail(chain) \in Seq(ChainState) /\ Len(Tail(chain)) = Len(chain) - 1
    BY <1>1
  <2>2. \A i \in 1 .. Len(Tail(chain)) : i + 1 \in 1 .. Len(chain) /\ Tail(chain)[i] = chain[i + 1]
    BY <1>1, <2>1
  <2> QED BY <1>1, <2>1, <2>2 DEF Seen
<1>3. kept \in Seq(ChainState) /\ Len(kept) \in Nat /\ \A i \in 1 .. Len(kept) : kept[i] \in Seen
  BY <1>1, <1>2 DEF Seen
<1>4. chain' = Append(kept, p)
  BY DEF Confirm
<1> HIDE DEF kept
<1>5. /\ chain' \in Seq(ChainState)
      /\ Len(chain') = Len(kept) + 1
      /\ chain'[Len(kept) + 1] = p
      /\ \A i \in 1 .. Len(kept) : chain'[i] = kept[i]
  BY <1>3, <1>4, AppendFacts
<1>6. chain' # << >> /\ Confirmed' = p
  BY <1>3, <1>5 DEF Confirmed
<1>7. \A i \in 1 .. Len(chain') : i = Len(kept) + 1 \/ i \in 1 .. Len(kept)
  BY <1>3, <1>5
<1> QED BY <1>3, <1>5, <1>6, <1>7

-----------------------------------------------------------------------------
\* Steps of the calls.

\* A call r takes a step that touches the chain and the transactions in no way.
LEMMA CallSteps ==
  ASSUME IInv, TypeOK', NEW r \in Reader,
         UNCHANGED <<chain, landed, net, fields, begun>>,
         \A q \in Reader \ {r} : state'[q] = state[q] /\ md'[q] = md[q],
         state'[r] # "idle",
         r \in Update => state[r] # "idle",
         r \in net => md'[r] = md[r],
         state'[r] = "found" => /\ md'[r].source \in Present
                                /\ md'[r] \in Metadata(md'[r].source)
                                /\ \E q \in Seen : md'[r].data = q[md'[r].source],
         r \in net => state'[r] \in {"sent", "failed"},
         r \in landed => state'[r] \in {"sent", "failed", "done"},
         EntryIsYoungerThanUpdates'
  PROVE  IInv'
<1>1. Confirmed' = Confirmed /\ SourcesNeverMix'
  BY DEF Confirmed, IInv, SourcesNeverMix
<1>2. HoldsMetadata'
  BY DEF IInv, HoldsMetadata
<1>3. \A u \in Update : u \in Reader /\ SentOnce(u)'
  BY DEF IInv, SentOnce, Reader
<1>4. ASSUME NEW u \in Update PROVE Alone(u)'
  <2>1. CASE u = r
    <3> SUFFICES ASSUME Undisturbed(u), state'[u] = "found" \/ u \in net
                 PROVE  Len(chain) = 1 /\ md'[u].data = Confirmed[md'[u].source]
      BY <1>1, <2>1 DEF IInv, Alone, Undisturbed
    <3>1. Len(chain) = 1
      BY <2>1 DEF IInv, Alone
    <3>2. Seen = {Confirmed}
      BY <3>1 DEF Seen, Confirmed
    <3>3. CASE state'[u] = "found"
      BY <2>1, <3>1, <3>2, <3>3
    <3>4. CASE u \in net
      BY <2>1, <3>1, <3>4 DEF IInv, Alone
    <3> QED BY <3>3, <3>4
  <2>2. CASE u # r
    <3>1. u \in Reader \ {r} /\ state'[u] = state[u] /\ md'[u] = md[u]
      BY <2>2 DEF Reader
    <3> QED BY <1>1, <3>1 DEF IInv, Alone, Undisturbed
  <2> QED BY <2>1, <2>2
<1> QED BY <1>1, <1>2, <1>3, <1>4 DEF IInv

\* The entry is kept, dropped, or expires, and no update becomes done.
LEMMA EntryIsKept ==
  ASSUME IInv, \A u \in Update : state'[u] = "done" => state[u] = "done" /\ md'[u] = md[u],
         \A u \in Update : state[u] = "done" => state'[u] = "done",
         \A e \in cache' : e.after = Done \/ \E e2 \in cache : e.after = e2.after
  PROVE  EntryIsYoungerThanUpdates'
<1>1. Done' = Done
  BY DEF Done
<1> SUFFICES ASSUME NEW e \in cache', NEW u \in Done, md[u].source = "metaplex"
             PROVE  u \in e.after
  BY <1>1 DEF EntryIsYoungerThanUpdates, Done
<1>2. \A e2 \in cache : u \in e2.after
  BY DEF IInv, EntryIsYoungerThanUpdates
<1> QED BY <1>2

LEMMA GetStep ==
  ASSUME IInv, NEW g \in Get, NEW useCache \in BOOLEAN, getTokenMetadata(g, useCache)
  PROVE  IInv'
<1>0. TypeOK /\ g \in Reader /\ g \notin Update
  BY ConstantsAssumption DEF IInv, Reader
<1>1. UNCHANGED <<chain, landed, net, fields, cache, begun>>
  BY DEF getTokenMetadata
<1>2. \/ /\ state' = [state EXCEPT ![g] = "done"]
         /\ \E e \in cache : md' = [md EXCEPT ![g] = e.md]
      \/ state' = [state EXCEPT ![g] = "first"] /\ md' = md
  BY DEF getTokenMetadata, CacheHit
<1>3. TypeOK'
  BY <1>0, <1>1, <1>2 DEF TypeOK
<1>4. /\ \A q \in Reader \ {g} : state'[q] = state[q] /\ md'[q] = md[q]
      /\ state'[g] \in {"done", "first"}
      /\ g \notin net /\ g \notin landed
  BY <1>0, <1>2 DEF TypeOK
<1>5. EntryIsYoungerThanUpdates'
  <2>1. \A u \in Update : u \in Reader \ {g}
    BY <1>0 DEF Reader
  <2> QED BY <1>1, <1>4, <2>1, EntryIsKept
<1> QED BY <1>0, <1>1, <1>3, <1>4, <1>5, CallSteps

LEMMA BeginStep ==
  ASSUME IInv, NEW u \in Update, NEW F \in Given, updateTokenMetadata(u, F)
  PROVE  IInv'
<1>0. TypeOK /\ u \in Reader
  BY DEF IInv, Reader
<1>1. /\ state[u] = "idle"
      /\ state' = [state EXCEPT ![u] = "first"]
      /\ fields' = [fields EXCEPT ![u] = F]
      /\ begun' = [begun EXCEPT ![u] = [landed |-> landed, settled |-> Len(chain) = 1]]
      /\ UNCHANGED <<chain, landed, net, cache, md>>
      /\ Confirmed' = Confirmed
  BY DEF updateTokenMetadata, Begin, Confirmed
<1>2. F \in SUBSET Field /\ (Len(chain) = 1) \in BOOLEAN
  BY ConstantsAssumption DEF Field
<1>3. TypeOK'
  <2>1. begun' \in [Update -> [landed : SUBSET Update, settled : BOOLEAN]]
    BY <1>0, <1>1, <1>2 DEF TypeOK
  <2> QED BY <1>0, <1>1, <1>2, <2>1 DEF TypeOK
<1>4. /\ \A q \in Reader \ {u} : state'[q] = state[q]
      /\ state'[u] = "first"
      /\ \A v \in Update \ {u} : begun'[v] = begun[v]
      /\ begun'[u].landed = landed /\ begun'[u].settled = (Len(chain) = 1)
  BY <1>0, <1>1 DEF TypeOK, Reader
<1>5. u \notin net /\ u \notin landed
  BY <1>1 DEF IInv, SentOnce
<1>6. SourcesNeverMix' /\ HoldsMetadata'
  <2>1. SourcesNeverMix'
    BY <1>1 DEF IInv, SourcesNeverMix
  <2>2. HoldsMetadata'
    BY <1>1, <1>4, <1>5 DEF IInv, HoldsMetadata
  <2> QED BY <2>1, <2>2
<1>7. ASSUME NEW v \in Update PROVE SentOnce(v)' /\ Alone(v)'
  <2>1. CASE v = u
    <3>1. SentOnce(v)'
      BY <1>1, <1>5, <2>1 DEF SentOnce
    <3>2. Alone(v)'
      BY <1>1, <1>4, <1>5, <2>1 DEF Alone, Undisturbed
    <3> QED BY <3>1, <3>2
  <2>2. CASE v # u
    <3>1. state'[v] = state[v] /\ begun'[v] = begun[v]
      BY <1>4, <2>2 DEF Reader
    <3> QED BY <1>1, <3>1 DEF IInv, SentOnce, Alone, Undisturbed
  <2> QED BY <2>1, <2>2
<1>8. EntryIsYoungerThanUpdates'
  <2>1. \A v \in Update : (state'[v] = "done" <=> state[v] = "done") /\ md'[v] = md[v]
    BY <1>1, <1>4 DEF Reader
  <2> QED BY <1>1, <2>1, EntryIsKept
<1> QED BY <1>3, <1>6, <1>7, <1>8 DEF IInv

\* A source answers, or null stands for it.
LEMMA FetchSteps ==
  ASSUME IInv, NEW r \in Reader, Fetch(r) \/ FetchNull(r)
  PROVE  IInv'
<1>0. TypeOK
  BY DEF IInv
<1>1. /\ state[r] \in {"first", "second"}
      /\ UNCHANGED <<chain, landed, net, fields, cache, begun>>
  BY DEF Fetch, FetchNull
<1>2. r \notin net /\ r \notin landed
  BY <1>0, <1>1 DEF IInv, SentOnce, TypeOK
<1>3. /\ \A q \in Reader \ {r} : state'[q] = state[q] /\ md'[q] = md[q]
      /\ state'[r] \in {"found", "second", "failed"}
  BY <1>0, <1>1 DEF Fetch, FetchNull, TypeOK
<1>4. /\ TypeOK'
      /\ state'[r] = "found" => /\ md'[r].source \in Present
                                /\ md'[r] \in Metadata(md'[r].source)
                                /\ \E q \in Seen : md'[r].data = q[md'[r].source]
  <2>1. CASE Fetch(r)
    <3> DEFINE s == SourceAsked(r)
    <3>1. PICK q \in Seen : md' = [md EXCEPT ![r] = [source |-> s, data |-> q[s]]]
      BY <2>1 DEF Fetch
    <3>2. s \in Present /\ s \in Source
      BY <2>1, ConstantsAssumption DEF Fetch
    <3>3. q[s] \in Own(s)
      BY <3>2, SeenFacts
    <3> HIDE DEF s
    <3>4. [source |-> s, data |-> q[s]] \in Metadata(s)
      BY <3>3 DEF Metadata, Own
    <3>5. md'[r] = [source |-> s, data |-> q[s]]
      BY <1>0, <3>1 DEF TypeOK
    <3>6. TypeOK'
      <4>1. md' \in [Reader -> (UNION {Metadata(x) : x \in Source}) \cup {NoMetadata}]
        BY <1>0, <3>1, <3>2, <3>4 DEF TypeOK
      <4>2. state' = [state EXCEPT ![r] = "found"]
        BY <2>1 DEF Fetch
      <4> QED BY <1>0, <1>1, <4>1, <4>2 DEF TypeOK
    <3> QED BY <3>2, <3>4, <3>5, <3>6
  <2>2. CASE FetchNull(r)
    <3>1. \E st \in {"second", "failed"} : state' = [state EXCEPT ![r] = st]
      BY <2>2 DEF FetchNull
    <3>2. md' = md /\ state'[r] # "found"
      BY <1>0, <2>2, <3>1 DEF FetchNull, TypeOK
    <3> QED BY <1>0, <1>1, <3>1, <3>2 DEF TypeOK
  <2> QED BY <2>1, <2>2
<1>5. EntryIsYoungerThanUpdates'
  <2>1. \A u \in Update : u \in Reader /\ (u = r => state[u] # "done" /\ state'[u] # "done")
    BY <1>1, <1>3 DEF Reader
  <2> QED BY <1>1, <1>3, <2>1, EntryIsKept
<1> QED BY <1>1, <1>2, <1>3, <1>4, <1>5, CallSteps

\* The answer is cached, and an update sends its transaction.
LEMMA FoundStep ==
  ASSUME IInv, NEW r \in Reader, Found(r)
  PROVE  IInv'
<1>0. TypeOK
  BY DEF IInv
<1>1. /\ state[r] = "found"
      /\ cache' = {Entry(md[r])}
      /\ UNCHANGED <<chain, landed, md, fields, begun>>
      /\ Confirmed' = Confirmed
  BY DEF Found, Confirmed
<1>2. \/ /\ r \in Update
         /\ state' = [state EXCEPT ![r] = "sent"]
         /\ net' = net \cup {r}
      \/ /\ r \notin Update
         /\ state' = [state EXCEPT ![r] = "done"]
         /\ net' = net
  BY DEF Found
<1>3. md[r].source \in Present /\ md[r] \in Metadata(md[r].source) /\ md[r].source \in Source
  BY <1>1, ConstantsAssumption DEF IInv, HoldsMetadata
<1>4. /\ \A q \in Reader \ {r} : state'[q] = state[q] /\ (q \in net' <=> q \in net)
      /\ state'[r] = IF r \in Update THEN "sent" ELSE "done"
  BY <1>0, <1>2 DEF TypeOK
<1>5. TypeOK'
  <2>1. Entry(md[r]) \in [md : UNION {Metadata(s) : s \in Source}, fresh : BOOLEAN, after : SUBSET Update]
    BY <1>3 DEF Entry, Done
  <2>2. cache' \subseteq [md : UNION {Metadata(s) : s \in Source}, fresh : BOOLEAN, after : SUBSET Update]
    BY <1>1, <2>1
  <2>3. state' \in [Reader -> {"idle", "first", "second", "found", "sent", "done", "failed"}]
    BY <1>0, <1>2 DEF TypeOK
  <2>4. net' \subseteq Update
    BY <1>0, <1>2 DEF TypeOK
  <2> QED BY <1>0, <1>1, <2>2, <2>3, <2>4 DEF TypeOK
<1>6. SourcesNeverMix'
  BY <1>1 DEF IInv, SourcesNeverMix
<1>7. HoldsMetadata'
  BY <1>1, <1>3, <1>4 DEF IInv, HoldsMetadata
<1>8. ASSUME NEW u \in Update PROVE SentOnce(u)' /\ Alone(u)'
  <2>1. CASE u = r
    <3>1. u \notin landed
      BY <1>1, <2>1 DEF IInv, SentOnce
    <3>2. SentOnce(u)'
      BY <1>1, <1>2, <1>4, <2>1, <3>1 DEF SentOnce
    <3>3. Alone(u)'
      BY <1>1, <2>1 DEF IInv, Alone, Undisturbed
    <3> QED BY <3>2, <3>3
  <2>2. CASE u # r
    <3>1. state'[u] = state[u] /\ (u \in net' <=> u \in net)
      BY <1>4, <2>2 DEF Reader
    <3> QED BY <1>1, <3>1 DEF IInv, SentOnce, Alone, Undisturbed
  <2> QED BY <2>1, <2>2
<1>9. EntryIsYoungerThanUpdates'
  <2>1. \A u \in Update : u \in Reader /\ (state'[u] = "done" <=> state[u] = "done")
    BY <1>1, <1>4 DEF Reader
  <2>2. \A e \in cache' : e.after = Done
    BY <1>1 DEF Entry
  <2> QED BY <1>1, <2>1, <2>2, EntryIsKept
<1> QED BY <1>5, <1>6, <1>7, <1>8, <1>9 DEF IInv

\* The transaction of an update is confirmed or reported as failed.
LEMMA SettleSteps ==
  ASSUME IInv, NEW u \in Update, UpdateConfirmed(u) \/ UpdateRejected(u)
  PROVE  IInv'
<1>0. TypeOK /\ u \in Reader
  BY DEF IInv, Reader
<1>1. /\ state[u] = "sent"
      /\ UNCHANGED <<chain, landed, net, md, fields, begun>>
      /\ cache' = cache \/ cache' = {}
  BY DEF UpdateConfirmed, UpdateRejected
<1>2. \/ /\ state' = [state EXCEPT ![u] = "done"] /\ u \in landed
         /\ md[u].source = "metaplex" => cache' = {}
      \/ state' = [state EXCEPT ![u] = "failed"]
  BY DEF UpdateConfirmed, UpdateRejected
<1>3. TypeOK'
  BY <1>0, <1>1, <1>2 DEF TypeOK
<1>4. /\ \A q \in Reader \ {u} : state'[q] = state[q]
      /\ state'[u] \in {"done", "failed"}
      /\ state'[u] = "done" => /\ u \in landed
                               /\ md[u].source = "metaplex" => cache' = {}
  BY <1>0, <1>2 DEF TypeOK
<1>5. u \in net => state'[u] = "failed"
  BY <1>4 DEF IInv, SentOnce
<1>6. EntryIsYoungerThanUpdates'
  <2> SUFFICES ASSUME NEW e \in cache', NEW v \in Update, state'[v] = "done", md[v].source = "metaplex"
               PROVE  v \in e.after
    BY <1>1 DEF EntryIsYoungerThanUpdates, Done
  <2>1. v # u /\ v \in Reader \ {u}
    BY <1>4 DEF Reader
  <2>2. v \in Done
    BY <1>4, <2>1 DEF Done
  <2> QED BY <1>1, <2>2 DEF IInv, EntryIsYoungerThanUpdates
<1> QED BY <1>0, <1>1, <1>3, <1>4, <1>5, <1>6, CallSteps

-----------------------------------------------------------------------------
\* Steps of the cluster, and of the cache alone.

\* What a transaction leaves behind is metadata of the source that was read.
LEMMA WrittenFacts ==
  ASSUME IInv, NEW u \in net
  PROVE  /\ u \in Update /\ md[u].source \in Present
         /\ Written(u) \in ChainState
         /\ \A s \in Present : Written(u)[s] \in Own(s)
         /\ \A s \in Present : s # md[u].source => Written(u)[s] = Confirmed[s]
         /\ Written(u)[md[u].source] =
               IF md[u].source = "metaplex" THEN dataV2(u)
               ELSE [f \in Field |-> IF f \in fields[u] THEN u ELSE Confirmed[md[u].source][f]]
<1> DEFINE m == md[u].source
<1>1. u \in Update /\ u \in Reader
  BY DEF IInv, TypeOK, Reader
<1>2. m \in Present /\ md[u] \in Metadata(m)
  BY <1>1 DEF IInv, HoldsMetadata
<1>3. Confirmed \in ChainState /\ \A s \in Present : Confirmed[s] \in Own(s)
  BY SeenFacts
<1>4. md[u].data \in Own(m)
  BY <1>2 DEF Metadata, Own
<1> HIDE DEF m
<1>5. dataV2(u) \in Own(m)
  <2>1. \A f \in Field : md[u].data[f] \in {m, "null"} \cup Update
    BY <1>4 DEF Own
  <2> QED BY <1>1, <2>1 DEF dataV2, Own
<1>6. [f \in Field |-> IF f \in fields[u] THEN u ELSE Confirmed[m][f]] \in Own(m)
  <2>1. \A f \in Field : Confirmed[m][f] \in {m, "null"} \cup Update
    BY <1>2, <1>3 DEF Own
  <2> QED BY <1>1, <2>1 DEF Own
<1>7. PICK v \in Own(m) : /\ v = IF m = "metaplex" THEN dataV2(u)
                                 ELSE [f \in Field |-> IF f \in fields[u] THEN u ELSE Confirmed[m][f]]
                          /\ Written(u) = [Confirmed EXCEPT ![m] = v]
  BY <1>5, <1>6 DEF Written, m
<1>8. v \in [Field -> Source \cup {"null"} \cup Update]
  <2>1. m \in Source
    BY <1>2, ConstantsAssumption
  <2> QED BY <1>7, <2>1 DEF Own
<1>9. /\ Written(u) \in ChainState
      /\ Written(u)[m] = v
      /\ \A s \in Present : s # m => Written(u)[s] = Confirmed[s]
  BY <1>2, <1>3, <1>7, <1>8 DEF ChainState
<1> QED BY <1>1, <1>2, <1>3, <1>7, <1>9 DEF m

LEMMA ExecuteStep ==
  ASSUME IInv, NEW u \in Update, Execute(u)
  PROVE  IInv'
<1>0. TypeOK
  BY DEF IInv
<1>1. /\ u \in net /\ net' = net \ {u} /\ landed' = landed \cup {u}
      /\ UNCHANGED <<state, md, fields, cache, begun>>
      /\ Confirm(Written(u))
  BY DEF Execute, Confirm
<1>2. /\ chain' \in Seq(ChainState) /\ chain' # << >>
      /\ \A i \in 1 .. Len(chain') : chain'[i] = Written(u) \/ chain'[i] \in Seen
  BY <1>1, WrittenFacts, ConfirmFacts
<1>3. TypeOK'
  BY <1>0, <1>1, <1>2 DEF TypeOK, ChainState
<1>4. SourcesNeverMix'
  <2>1. \A i \in 1 .. Len(chain') : \A s \in Present : chain'[i][s] \in Own(s)
    BY <1>1, <1>2, WrittenFacts, SeenFacts
  <2> QED BY <2>1 DEF SourcesNeverMix, Own
<1>5. HoldsMetadata'
  BY <1>1 DEF IInv, HoldsMetadata
<1>6. ASSUME NEW v \in Update PROVE SentOnce(v)' /\ Alone(v)'
  <2>1. SentOnce(v)'
    BY <1>1 DEF IInv, SentOnce
  <2>2. u \notin landed /\ begun[v].landed \subseteq landed
    BY <1>1 DEF IInv, SentOnce, Alone
  <2>3. ~ Undisturbed(v)'
    BY <1>1, <2>2 DEF Undisturbed
  <2>4. Alone(v)'
    BY <1>1, <2>2, <2>3 DEF Alone
  <2> QED BY <2>1, <2>4
<1>7. EntryIsYoungerThanUpdates'
  BY <1>1 DEF IInv, EntryIsYoungerThanUpdates, Done
<1> QED BY <1>3, <1>4, <1>5, <1>6, <1>7 DEF IInv

LEMMA CatchUpStep ==
  ASSUME IInv, CatchUp
  PROVE  IInv'
<1>1. /\ chain \in Seq(ChainState) /\ Len(chain) > 1 /\ Len(chain) \in Nat
      /\ chain' = Tail(chain)
      /\ UNCHANGED <<landed, net, state, md, fields, cache, begun>>
  BY SeenFacts DEF CatchUp
<1>2. /\ chain' \in Seq(ChainState) /\ Len(chain') = Len(chain) - 1 /\ chain' # << >>
      /\ \A i \in 1 .. Len(chain') : i + 1 \in 1 .. Len(chain) /\ chain'[i] = chain[i + 1]
  <2>1. Tail(chain) \in Seq(ChainState) /\ Len(Tail(chain)) = Len(chain) - 1
    BY <1>1
  <2>2. \A i \in 1 .. Len(Tail(chain)) : i + 1 \in 1 .. Len(chain) /\ Tail(chain)[i] = chain[i + 1]
    BY <1>1, <2>1
  <2>3. Tail(chain) # << >>
    <3>1. Len(Tail(chain)) > 0
      BY <1>1, <2>1
    <3>2. Len(<< >>) = 0
      OBVIOUS
    <3> QED BY <3>1, <3>2
  <2> QED BY <1>1, <2>1, <2>2, <2>3
<1>3. TypeOK'
  BY <1>1, <1>2 DEF IInv, TypeOK, ChainState
<1>4. SourcesNeverMix'
  BY <1>2 DEF IInv, SourcesNeverMix
<1>5. HoldsMetadata' /\ EntryIsYoungerThanUpdates'
  BY <1>1 DEF IInv, HoldsMetadata, EntryIsYoungerThanUpdates, Done
<1>6. ASSUME NEW v \in Update PROVE SentOnce(v)' /\ Alone(v)'
  <2>1. SentOnce(v)'
    BY <1>1 DEF IInv, SentOnce
  <2>2. Alone(v)'
    BY <1>1 DEF IInv, Alone, Undisturbed
  <2> QED BY <2>1, <2>2
<1> QED BY <1>3, <1>4, <1>5, <1>6 DEF IInv

LEMMA CacheSteps ==
  ASSUME IInv, clearCache \/ Expire
  PROVE  IInv'
<1>1. UNCHANGED <<chain, landed, net, state, md, fields, begun>> /\ Confirmed' = Confirmed
  BY DEF clearCache, Expire, Confirmed
<1>2. cache' = {} \/ \E e \in cache : cache' = {[e EXCEPT !.fresh = FALSE]}
  BY DEF clearCache, Expire
<1>3. /\ cache' \subseteq [md : UNION {Metadata(s) : s \in Source}, fresh : BOOLEAN, after : SUBSET Update]
      /\ \A e2 \in cache' : \E e \in cache : e2.after = e.after
  <2>1. \A e \in cache :
           /\ e \in [md : UNION {Metadata(s) : s \in Source}, fresh : BOOLEAN, after : SUBSET Update]
           /\ [e EXCEPT !.fresh = FALSE].after = e.after
    BY DEF IInv, TypeOK
  <2> QED BY <1>2, <2>1
<1>4. TypeOK'
  BY <1>1, <1>3 DEF IInv, TypeOK
<1>5. SourcesNeverMix' /\ HoldsMetadata' /\ \A u \in Update : SentOnce(u)' /\ Alone(u)'
  BY <1>1 DEF IInv, SourcesNeverMix, HoldsMetadata, SentOnce, Alone, Undisturbed
<1>6. EntryIsYoungerThanUpdates'
  BY <1>1, <1>3, EntryIsKept
<1> QED BY <1>4, <1>5, <1>6 DEF IInv

-----------------------------------------------------------------------------
\* Theorems.

LEMMA InitIInv == Init => IInv
<1> SUFFICES ASSUME Init PROVE IInv
  OBVIOUS
<1> DEFINE p == [s \in Present |-> [f \in Field |-> s]]
<1>1. p \in ChainState /\ \A s \in Present : p[s] \in Own(s)
  BY ConstantsAssumption DEF ChainState, Own
<1>2. chain = << p >>
  BY DEF Init
<1> HIDE DEF p
<1>3. chain \in Seq(ChainState) /\ chain # << >> /\ \A i \in 1 .. Len(chain) : chain[i] = p
  BY <1>1, <1>2
<1>4. TypeOK
  <2>1. begun \in [Update -> [landed : SUBSET Update, settled : BOOLEAN]]
    BY DEF Init
  <2>2. md \in [Reader -> (UNION {Metadata(s) : s \in Source}) \cup {NoMetadata}]
    BY DEF Init
  <2>3. cache = {}
    BY DEF Init
  <2>4. fields \in [Update -> SUBSET Field] /\ landed = {} /\ net = {}
    BY DEF Init
  <2>5. state \in [Reader -> {"idle", "first", "second", "found", "sent", "done", "failed"}]
    BY DEF Init
  <2> QED BY <1>3, <2>1, <2>2, <2>3, <2>4, <2>5 DEF TypeOK, ChainState
<1>5. SourcesNeverMix
  BY <1>1, <1>3 DEF SourcesNeverMix, Own
<1>6. HoldsMetadata /\ EntryIsYoungerThanUpdates
  BY DEF Init, HoldsMetadata, EntryIsYoungerThanUpdates
<1>7. \A u \in Update : SentOnce(u) /\ Alone(u)
  BY DEF Init, SentOnce, Alone, Reader
<1> QED BY <1>4, <1>5, <1>6, <1>7 DEF IInv

LEMMA NextIInv == IInv /\ [Next]_vars => IInv'
<1> SUFFICES ASSUME IInv, [Next]_vars PROVE IInv'
  OBVIOUS
<1>1. ASSUME NEW g \in Get, NEW useCache \in BOOLEAN, getTokenMetadata(g, useCache)
      PROVE  IInv'
  BY <1>1, GetStep
<1>2. ASSUME NEW u \in Update, NEW F \in Given, updateTokenMetadata(u, F)
      PROVE  IInv'
  BY <1>2, BeginStep
<1>3. ASSUME NEW u \in Update, UpdateConfirmed(u) \/ UpdateRejected(u)
      PROVE  IInv'
  BY <1>3, SettleSteps
<1>4. ASSUME NEW u \in Update, Execute(u)
      PROVE  IInv'
  BY <1>4, ExecuteStep
<1>5. ASSUME NEW r \in Reader, Fetch(r) \/ FetchNull(r)
      PROVE  IInv'
  BY <1>5, FetchSteps
<1>6. ASSUME NEW r \in Reader, Found(r)
      PROVE  IInv'
  BY <1>6, FoundStep
<1>7. CASE clearCache \/ Expire
  BY <1>7, CacheSteps
<1>8. CASE CatchUp
  BY <1>8, CatchUpStep
<1>9. CASE UNCHANGED vars
  BY <1>9 DEF vars, IInv, TypeOK, SourcesNeverMix, HoldsMetadata, SentOnce, Alone, Undisturbed,
              EntryIsYoungerThanUpdates, Done, Confirmed
<1> QED BY <1>1, <1>2, <1>3, <1>4, <1>5, <1>6, <1>7, <1>8, <1>9 DEF Next

\* The invariant holds in every reachable state.
THEOREM Invariance == Spec => []IInv
BY InitIInv, NextIInv, PTL DEF Spec

\* Every variable keeps its type: what is cached is metadata of a source, never the
\* null of a fetcher that failed.
THEOREM TypeCorrectness == Spec => []TypeOK
BY Invariance, PTL DEF IInv

\* No update writes what it read of one source to the other, whichever of them
\* answered, failed or lagged.
THEOREM SourcesAreApart == Spec => []SourcesNeverMix
BY Invariance, PTL DEF IInv

\* What the cache holds was stored after every Metaplex update that has returned.
THEOREM EntriesAreYoung == Spec => []EntryIsYoungerThanUpdates
BY Invariance, PTL DEF IInv

\* The step that lands an update reads the latest state if nothing came between, so that
\* it leaves every field it was not given, uses excepted, as it is.
THEOREM UpdatesRetain == Spec => UndisturbedUpdateRetains
<1>1. IInv /\ [Next]_vars =>
        [\A u \in Update : Lands(u) /\ Undisturbed(u) =>
           \A s \in Present, f \in Field \ {"uses"} : Retained(u, s, f)]_vars
  <2> SUFFICES ASSUME IInv, [Next]_vars, NEW u \in Update, Lands(u), Undisturbed(u),
                      NEW s \in Present, NEW f \in Field \ {"uses"}
               PROVE  Retained(u, s, f)
    OBVIOUS
  <2>1. Execute(u)
    <3>1. u \in net /\ u \notin net'
      BY DEF Lands
    <3>2. \A v \in Update : Execute(v) => v = u
      BY <3>1 DEF Execute
    <3> QED BY <3>1, <3>2 DEF Next, vars, getTokenMetadata, updateTokenMetadata, Begin, UpdateConfirmed,
                              UpdateRejected, Fetch, FetchNull, Found, clearCache, Expire, CatchUp
  <2>2. u \in net /\ Confirm(Written(u))
    BY <2>1 DEF Execute, Confirm
  <2>3. Confirmed' = Written(u)
    BY <2>2, WrittenFacts, ConfirmFacts
  <2>4. md[u].data = Confirmed[md[u].source]
    BY <2>2 DEF IInv, SentOnce, Alone
  <2>5. CASE s # md[u].source
    BY <2>2, <2>3, <2>5, WrittenFacts DEF Retained
  <2>6. CASE s = md[u].source /\ s = "metaplex"
    <3>1. Confirmed'[s] = dataV2(u)
      BY <2>2, <2>3, <2>6, WrittenFacts
    <3> QED BY <2>4, <2>6, <3>1 DEF dataV2, Retained
  <2>7. CASE s = md[u].source /\ s # "metaplex"
    <3>1. Confirmed'[s] = [g \in Field |-> IF g \in fields[u] THEN u ELSE Confirmed[s][g]]
      BY <2>2, <2>3, <2>7, WrittenFacts
    <3> QED BY <2>7, <3>1 DEF Retained
  <2> QED BY <2>5, <2>6, <2>7
<1> QED BY <1>1, Invariance, PTL DEF Spec, UndisturbedUpdateRetains
=============================================================================
