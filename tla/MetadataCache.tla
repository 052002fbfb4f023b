---------------------------- MODULE MetadataCache ----------------------------
(***************************************************************************)
(* The metadata of one mint in kit-plugin-metaplex: getTokenMetadata with   *)
(* its cache and its two sources, and updateTokenMetadata, which reads the  *)
(* metadata, merges the fields it was given and replaces them all.  Entries *)
(* of different mints share nothing but clearCache, so one mint is enough.  *)
(*                                                                          *)
(* A read is answered by a node of the RPC provider, which may be behind    *)
(* the one that confirmed the last update: the sequence chain holds the     *)
(* states a read can still see, up to the latest confirmed one.             *)
(***************************************************************************)
EXTENDS Integers, Sequences

CONSTANTS
  Get,      \* invocations of getTokenMetadata by the application
  Update,   \* invocations of updateTokenMetadata
  MaxLag,   \* bound: states a node may be behind (0: there is one node)
  Given,    \* the sets of fields that an update may be given
  Present,  \* the sources that hold metadata of the mint
  First     \* the source that is asked first (preferMetaplex)

Source == {"metaplex", "token-extensions"}
Reader == Get \cup Update

\* symbol is treated as name is; creators, collection and fee as an unnamed uri.
Field == {"name", "uri", "uses"}

ASSUME ConstantsAssumption ==
  /\ Get \cap Update = {}
  /\ Reader \cap Source = {}
  /\ Given \subseteq SUBSET {"name", "uri"}
  /\ MaxLag \in Nat
  /\ Present \subseteq Source
  /\ First \in Source

VARIABLES
  chain,   \* the metadata that a read may see, the latest last
  landed,  \* updates whose transaction was executed
  net,     \* updates whose transaction was sent and not executed
  state,   \* state[r]: where call r is
  md,      \* md[r]: the metadata call r holds
  fields,  \* fields[u]: the fields update u was given
  cache,   \* the entry of the mint: a set of at most one
  begun    \* begun[u]: the updates landed when u began, and whether no node lagged

vars == <<chain, landed, net, state, md, fields, cache, begun>>

Seen == {chain[i] : i \in 1 .. Len(chain)}
Confirmed == chain[Len(chain)]
Other == CHOOSE s \in Source : s # First
SourceAsked(r) == IF state[r] = "first" THEN First ELSE Other

\* What a field holds is named by its origin: the source itself, or the update
\* that wrote it.
Metadata(s) == [source : {s}, data : [Field -> {s, "null"} \cup Update]]
NoMetadata == [source |-> "none", data |-> [f \in Field |-> "none"]]

Done == {u \in Update : state[u] = "done"}

Entry(m) == [md |-> m, fresh |-> TRUE, after |-> Done]

-----------------------------------------------------------------------------
Init ==
  /\ chain = << [s \in Present |-> [f \in Field |-> s]] >>
  /\ landed = {}
  /\ net = {}
  /\ state = [r \in Reader |-> "idle"]
  /\ md = [r \in Reader |-> NoMetadata]
  /\ fields = [u \in Update |-> {}]
  /\ cache = {}
  /\ begun = [u \in Update |-> [landed |-> {}, settled |-> FALSE]]

\* An entry that has not expired answers at once.
CacheHit(r) ==
  \E e \in cache :
    /\ e.fresh
    /\ state' = [state EXCEPT ![r] = "done"]
    /\ md' = [md EXCEPT ![r] = e.md]

getTokenMetadata(g, useCache) ==
  /\ state[g] = "idle"
  /\ IF useCache /\ \E e \in cache : e.fresh
       THEN CacheHit(g)
       ELSE /\ state' = [state EXCEPT ![g] = "first"]
            /\ UNCHANGED md
  /\ UNCHANGED <<chain, landed, net, fields, cache, begun>>

Begin(u, F) ==
  /\ state[u] = "idle"
  /\ fields' = [fields EXCEPT ![u] = F]
  /\ begun' = [begun EXCEPT ![u] = [landed |-> landed, settled |-> Len(chain) = 1]]
  /\ UNCHANGED <<chain, landed, net, cache>>

\* Mutant of updateTokenMetadata: the existing metadata may come from the cache.
updateFromCache(u, F) ==
  /\ Begin(u, F)
  /\ IF \E e \in cache : e.fresh
       THEN /\ state' = [state EXCEPT ![u] = "found"]
            /\ md' = [md EXCEPT ![u] = (CHOOSE e \in cache : TRUE).md]
       ELSE /\ state' = [state EXCEPT ![u] = "first"]
            /\ UNCHANGED md

\* The existing metadata is read without the cache.
updateTokenMetadata(u, F) ==
  /\ Begin(u, F)
  /\ state' = [state EXCEPT ![u] = "first"]
  /\ UNCHANGED md

\* The node reads the source that was asked; its answer is on the way.
Fetch(r) ==
  /\ state[r] \in {"first", "second"}
  /\ SourceAsked(r) \in Present
  /\ \E seen \in Seen : md' = [md EXCEPT ![r] =
       [source |-> SourceAsked(r), data |-> seen[SourceAsked(r)]]]
  /\ state' = [state EXCEPT ![r] = "found"]
  /\ UNCHANGED <<chain, landed, net, fields, cache, begun>>

\* Mutant of FetchNull: the null is cached.
FetchNullCached(r) ==
  /\ state[r] \in {"first", "second"}
  /\ state' = [state EXCEPT ![r] = IF @ = "first" THEN "second" ELSE "failed"]
  /\ cache' = IF state[r] = "second" THEN {Entry(NoMetadata)} ELSE cache
  /\ UNCHANGED <<chain, landed, net, md, fields, begun>>

\* No account, or an error: the fetchers turn both into null and the next
\* source is asked; after the second, getTokenMetadata returns null and
\* updateTokenMetadata throws.
FetchNull(r) ==
  /\ state[r] \in {"first", "second"}
  /\ state' = [state EXCEPT ![r] = IF @ = "first" THEN "second" ELSE "failed"]
  /\ UNCHANGED <<chain, landed, net, md, fields, cache, begun>>

\* The answer arrives and is cached; an update sends its transaction.
Found(r) ==
  /\ state[r] = "found"
  /\ cache' = {Entry(md[r])}
  /\ IF r \in Update
       THEN /\ state' = [state EXCEPT ![r] = "sent"]
            /\ net' = net \cup {r}
       ELSE /\ state' = [state EXCEPT ![r] = "done"]
            /\ UNCHANGED net
  /\ UNCHANGED <<chain, landed, md, fields, begun>>

\* Mutant of UpdateConfirmed: the cache entry is left.
UpdateConfirmedCached(u) ==
  /\ state[u] = "sent"
  /\ u \in landed
  /\ state' = [state EXCEPT ![u] = "done"]
  /\ UNCHANGED <<chain, landed, net, md, fields, cache, begun>>

\* The transaction is confirmed; only the Metaplex branch drops the entry.
UpdateConfirmed(u) ==
  /\ state[u] = "sent"
  /\ u \in landed
  /\ state' = [state EXCEPT ![u] = "done"]
  /\ cache' = IF md[u].source = "metaplex" THEN {} ELSE cache
  /\ UNCHANGED <<chain, landed, net, md, fields, begun>>

\* The transaction is reported as failed; it may have landed, or may later.
UpdateRejected(u) ==
  /\ state[u] = "sent"
  /\ state' = [state EXCEPT ![u] = "failed"]
  /\ UNCHANGED <<chain, landed, net, md, fields, cache, begun>>

clearCache ==
  /\ cache # {}
  /\ cache' = {}
  /\ UNCHANGED <<chain, landed, net, state, md, fields, begun>>

\* expiresAt passes.
Expire ==
  /\ \E e \in cache : e.fresh /\ cache' = {[e EXCEPT !.fresh = FALSE]}
  /\ UNCHANGED <<chain, landed, net, state, md, fields, begun>>

-----------------------------------------------------------------------------
\* The metadata a transaction leaves behind: UpdateMetadataAccountV2 replaces
\* every field by the merged dataV2, in which uses is null; the update of Token
\* Extensions, which solana-kite builds, writes the fields it was given.

dataV2(u) ==
  [f \in Field |-> CASE f \in fields[u] -> u
                     [] f = "uses"     -> "null"
                     [] OTHER          -> md[u].data[f]]

\* Mutant of Written: every update is built as a Metaplex update.
WrittenMetaplex(u) ==
  IF "metaplex" \in Present
    THEN [Confirmed EXCEPT !["metaplex"] = dataV2(u)]
    ELSE Confirmed

Written(u) ==
  [Confirmed EXCEPT ![md[u].source] =
     IF md[u].source = "metaplex" THEN dataV2(u)
     ELSE [f \in Field |-> IF f \in fields[u] THEN u ELSE @[f]]]

Execute(u) ==
  /\ u \in net
  /\ net' = net \ {u}
  /\ landed' = landed \cup {u}
  /\ chain' = Append(IF Len(chain) > MaxLag THEN Tail(chain) ELSE chain, Written(u))
  /\ UNCHANGED <<state, md, fields, cache, begun>>

\* The nodes that are furthest behind catch up by a state.
CatchUp ==
  /\ Len(chain) > 1
  /\ chain' = Tail(chain)
  /\ UNCHANGED <<landed, net, state, md, fields, cache, begun>>

-----------------------------------------------------------------------------
Next ==
  \/ \E g \in Get, useCache \in BOOLEAN : getTokenMetadata(g, useCache)
  \/ \E u \in Update : \/ \E F \in Given : updateTokenMetadata(u, F)
                       \/ UpdateConfirmed(u)
                       \/ UpdateRejected(u)
                       \/ Execute(u)
  \/ \E r \in Reader : Fetch(r) \/ FetchNull(r) \/ Found(r)
  \/ clearCache
  \/ Expire
  \/ CatchUp

Spec == Init /\ [][Next]_vars

-----------------------------------------------------------------------------
\* Properties.

TypeOK ==
  /\ chain \in Seq([Present -> [Field -> Source \cup {"null"} \cup Update]])
  /\ chain # << >>
  /\ landed \subseteq Update
  /\ net \subseteq Update
  /\ state \in [Reader -> {"idle", "first", "second", "found", "sent", "done", "failed"}]
  /\ md \in [Reader -> (UNION {Metadata(s) : s \in Source}) \cup {NoMetadata}]
  /\ fields \in [Update -> SUBSET Field]
  /\ cache \subseteq [md : UNION {Metadata(s) : s \in Source},
                      fresh : BOOLEAN, after : SUBSET Update]
  /\ begun \in [Update -> [landed : SUBSET Update, settled : BOOLEAN]]

\* The two sources never mix: whichever of them answered, and whichever failed,
\* an update writes back metadata of the source that it read
\* (updateTokenMetadata branches on metadata.source).
SourcesNeverMix ==
  \A i \in 1 .. Len(chain) : \A s \in Present : \A f \in Field :
    chain[i][s][f] \in {s, "null"} \cup Update

\* No entry outlives a Metaplex update of this client: what the cache holds was
\* stored after every such update that has returned, the copy that the update
\* itself had read and stored included.
EntryIsYoungerThanUpdates ==
  \A e \in cache : \A u \in Done : md[u].source = "metaplex" => u \in e.after

Lands(u) == u \in net /\ u \notin net'

\* Nothing came between: when update u began every node had the latest state,
\* and no other update landed before its own.
Undisturbed(u) == begun[u].settled /\ begun[u].landed = landed

\* In a step that lands u, field f of source s changes only if u was given it.
Retained(u, s, f) ==
  Confirmed'[s][f] = IF s = md[u].source /\ f \in fields[u] THEN u
                     ELSE Confirmed[s][f]

\* An undisturbed update changes the fields it was given, in the source it read,
\* and no other field that updateTokenMetadata merges.
UndisturbedUpdateRetains ==
  [][\A u \in Update : Lands(u) /\ Undisturbed(u) =>
       \A s \in Present, f \in Field \ {"uses"} : Retained(u, s, f)]_vars

\* JSDoc of updateTokenMetadata: "Fields not specified retain their existing
\* values.", of every field and of undisturbed updates.
UpdateRetains ==
  [][\A u \in Update : Lands(u) /\ Undisturbed(u) =>
       \A s \in Present, f \in Field : Retained(u, s, f)]_vars

=============================================================================
