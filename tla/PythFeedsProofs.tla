--------------------------- MODULE PythFeedsProofs ---------------------------
(***************************************************************************)
(* Theorems about PythFeeds, for any number of calls, lists of feeds, polls *)
(* and versions.                                                            *)
(***************************************************************************)
EXTENDS PythFeeds, TLAPS

-----------------------------------------------------------------------------
\* The inductive invariant.

LegState == {"begun", "sent", "done", "failed"}

\* The update of leg k of call c once it is on chain.
Stored(c, k) == [at |-> At(c, k), feed |-> feeds[c][k], version |-> snap[c]]

\* A post under way was sent by a leg that has not ended well.
NetIsPosted ==
  \A t \in net :
    \/ /\ t.kind = "post"
       /\ \E c \in Call : \E k \in DOMAIN leg[c] :
            t = Post(c, k) /\ leg[c][k] \in {"sent", "failed"}
    \/ t.kind = "reclaim" /\ t.at \in reclaimed

\* An account holds what its leg posted, and no post for it is under way.
AccountsArePosted ==
  \A u \in accounts : \E c \in Call : \E k \in DOMAIN leg[c] :
    u = Stored(c, k) /\ leg[c][k] # "begun" /\ Post(c, k) \notin net

\* A leg that ended well has its account until the rent is reclaimed.
DoneIsStored(c, k) ==
  leg[c][k] = "done" => /\ Post(c, k) \notin net
                        /\ At(c, k) \in reclaimed \/ Stored(c, k) \in accounts

\* Where a call is says where its legs are.
LegsFollow(c) ==
  /\ pc[c] \in {"idle", "fetching"} => Len(leg[c]) = 0
  /\ pc[c] = "resolved" => /\ Len(leg[c]) = Len(feeds[c])
                           /\ \A k \in DOMAIN leg[c] : leg[c][k] = "done"

\* A poll that nothing overtook asks for no less than what was told.
PollIsFresh(p) == polls[p].st = "asked" /\ ~ polls[p].overtaken => told <= polls[p].asked

IInv ==
  /\ TypeOK
  /\ NetIsPosted
  /\ AccountsArePosted
  /\ \A c \in Call : LegsFollow(c) /\ \A k \in DOMAIN leg[c] : DoneIsStored(c, k)
  /\ \A p \in DOMAIN polls : polls[p].asked <= hermes /\ PollIsFresh(p)

PostsAreKept ==
  /\ NetIsPosted
  /\ AccountsArePosted
  /\ \A c \in Call : LegsFollow(c) /\ \A k \in DOMAIN leg[c] : DoneIsStored(c, k)

PollsAreFresh == \A p \in DOMAIN polls : polls[p].asked <= hermes /\ PollIsFresh(p)

-----------------------------------------------------------------------------
\* Lemmas about the state.

\* Addresses are of one leg of one call.
LEMMA AtFacts ==
  /\ \A c, d, k, j : At(c, k) = At(d, j) => c = d /\ k = j
  /\ \A c, k : Post(c, k).at = At(c, k) /\ Post(c, k).kind = "post"
  /\ \A c, k : Stored(c, k).at = At(c, k)
  /\ \A c, d, k, j : Post(c, k) = Post(d, j) => c = d /\ k = j
  /\ \A a : Reclaim(a).at = a /\ Reclaim(a).kind = "reclaim"
<1>1. \A c, d, k, j : At(c, k) = At(d, j) => c = d /\ k = j
  BY DEF At
<1>2. \A c, k : Post(c, k).at = At(c, k) /\ Post(c, k).kind = "post"
  BY DEF Post
<1>3. \A c, k : Stored(c, k).at = At(c, k)
  BY DEF Stored
<1>4. \A c, d, k, j : Post(c, k) = Post(d, j) => c = d /\ k = j
  BY <1>1, <1>2
<1>5. \A a : Reclaim(a).at = a /\ Reclaim(a).kind = "reclaim"
  BY DEF Reclaim
<1> QED BY <1>1, <1>2, <1>3, <1>4, <1>5

LEMMA LegFacts ==
  ASSUME TypeOK, NEW c \in Call
  PROVE  /\ leg[c] \in Seq(LegState)
         /\ DOMAIN leg[c] = 1 .. Len(leg[c])
         /\ \A k \in DOMAIN leg[c] : leg[c][k] \in LegState
         /\ Len(leg[c]) \in Nat
         /\ DOMAIN feeds[c] = 1 .. Len(feeds[c]) /\ Len(feeds[c]) \in Nat
         /\ Len(leg[c]) # 0 => Len(leg[c]) = Len(feeds[c])
<1>1. leg[c] \in Seq(LegState)
  BY DEF TypeOK, LegState
<1>2. feeds[c] \in Requests \/ feeds[c] = << >>
  BY DEF TypeOK
<1>3. DOMAIN feeds[c] = 1 .. Len(feeds[c]) /\ Len(feeds[c]) \in Nat
  BY <1>2, FeedsAssumption
<1> QED BY <1>1, <1>3 DEF TypeOK

LEMMA PollFacts ==
  ASSUME TypeOK
  PROVE  /\ DOMAIN polls = 1 .. Len(polls) /\ Len(polls) \in Nat
         /\ \A p \in DOMAIN polls :
              polls[p] \in Poll /\ polls[p].asked \in Version /\ polls[p].asked \in Nat
<1>1. polls \in Seq(Poll)
  BY DEF TypeOK
<1>2. \A p \in DOMAIN polls : polls[p] \in Poll
  BY <1>1
<1>3. \A p \in DOMAIN polls : polls[p].asked \in Version
  BY <1>2 DEF Poll
<1> QED BY <1>1, <1>2, <1>3 DEF Version

\* What a call has become when its legs are as given.
LEMMA AllLegsFacts ==
  ASSUME NEW legs
  PROVE  /\ AllLegs(legs) \in {"rejected", "resolved", "posting"}
         /\ AllLegs(legs) = "resolved" => \A k \in DOMAIN legs : legs[k] = "done"
BY DEF AllLegs, Range

\* No post is under way for a leg that has not begun to send.
LEMMA BegunIsUnsent ==
  ASSUME IInv, NEW c \in Call, NEW k \in DOMAIN leg[c], leg[c][k] = "begun"
  PROVE  Post(c, k) \notin net
BY AtFacts DEF IInv, NetIsPosted

-----------------------------------------------------------------------------
\* IInv is inductive.

LEMMA InitIInv == Init => IInv
<1> SUFFICES ASSUME Init PROVE IInv
  OBVIOUS
<1>1. TypeOK
  <2>1. << >> \in Seq({"begun", "sent", "done", "failed"}) /\ Len(<< >>) = 0 /\ << >> \in Seq(Poll)
    OBVIOUS
  <2>2. 1 \in Version /\ 0 \in 0 .. 1
    BY FeedsAssumption DEF Version
  <2>3. /\ pc = [c \in Call |-> "idle"] /\ feeds = [c \in Call |-> << >>]
        /\ snap = [c \in Call |-> 0] /\ leg = [c \in Call |-> << >>]
        /\ hermes = 1 /\ watching = "no" /\ polls = << >> /\ told = 0
    BY DEF Init
  <2>4. /\ feeds \in [Call -> Requests \cup {<< >>}]
        /\ snap \in [Call -> 0 .. hermes]
        /\ leg \in [Call -> Seq({"begun", "sent", "done", "failed"})]
        /\ \A c \in Call : Len(leg[c]) = 0
    BY <2>1, <2>2, <2>3
  <2> QED BY <2>1, <2>2, <2>3, <2>4 DEF TypeOK
<1>2. \A c \in Call : leg[c] = << >> /\ pc[c] = "idle"
  BY DEF Init
<1>3. \A c \in Call : LegsFollow(c) /\ \A k \in DOMAIN leg[c] : DoneIsStored(c, k)
  BY <1>2 DEF LegsFollow
<1> QED BY <1>1, <1>3 DEF Init, IInv, NetIsPosted, AccountsArePosted

\* A step that touches no call.
LEMMA PostsUntouched ==
  ASSUME PostsAreKept, UNCHANGED postVars
  PROVE  PostsAreKept'
BY DEF PostsAreKept, postVars, NetIsPosted, AccountsArePosted, LegsFollow, DoneIsStored, Stored, Post, At

\* A leg of a call takes a step.
LEMMA LegStep ==
  ASSUME IInv, NEW c \in Call, NEW k \in DOMAIN leg[c], NEW st \in LegState \ {"begun"},
         leg[c][k] \in {"begun", "sent"},
         leg' = [leg EXCEPT ![c] = [leg[c] EXCEPT ![k] = st]],
         UNCHANGED <<feeds, snap, accounts, reclaimed>>,
         \/ st # "sent" /\ pc' = [pc EXCEPT ![c] = AllLegs(leg'[c])] /\ UNCHANGED net
         \/ st = "sent" /\ leg[c][k] = "begun" /\ UNCHANGED pc /\ net' = net \cup {Post(c, k)},
         st = "done" => Stored(c, k) \in accounts /\ Post(c, k) \notin net
  PROVE  PostsAreKept' /\ leg' \in [Call -> Seq(LegState)] /\ \A d \in Call : Len(leg'[d]) = Len(leg[d])
<1>1. leg[c] \in Seq(LegState) /\ DOMAIN leg[c] = 1 .. Len(leg[c]) /\ leg \in [Call -> Seq(LegState)]
  BY LegFacts DEF IInv, TypeOK, LegState
<1>2. /\ leg'[c] = [leg[c] EXCEPT ![k] = st]
      /\ \A d \in Call \ {c} : leg'[d] = leg[d]
  BY <1>1
<1>3. /\ leg'[c] \in Seq(LegState)
      /\ Len(leg'[c]) = Len(leg[c])
      /\ DOMAIN leg'[c] = DOMAIN leg[c]
      /\ leg'[c][k] = st
      /\ \A j \in DOMAIN leg[c] : j # k => leg'[c][j] = leg[c][j]
  BY <1>1, <1>2
<1>4. leg' \in [Call -> Seq(LegState)] /\ \A d \in Call : Len(leg'[d]) = Len(leg[d]) /\ DOMAIN leg'[d] = DOMAIN leg[d]
  BY <1>1, <1>2, <1>3
<1>5. \A d, j : Post(d, j)' = Post(d, j) /\ Stored(d, j)' = Stored(d, j)
  BY DEF Post, Stored, At
<1>6. net' \subseteq net \cup {Post(c, k)} /\ (st # "sent" => net' = net)
  OBVIOUS
<1>7. NetIsPosted'
  <2> SUFFICES ASSUME NEW t \in net'
               PROVE  \/ /\ t.kind = "post"
                         /\ \E d \in Call : \E j \in DOMAIN leg'[d] :
                              t = Post(d, j) /\ leg'[d][j] \in {"sent", "failed"}
                      \/ t.kind = "reclaim" /\ t.at \in reclaimed
    BY <1>5 DEF NetIsPosted
  <2>1. CASE t \in net /\ t.kind = "post"
    <3>0. PICK d \in Call : \E j \in DOMAIN leg[d] : t = Post(d, j) /\ leg[d][j] \in {"sent", "failed"}
      BY <2>1 DEF IInv, NetIsPosted
    <3>1. PICK j \in DOMAIN leg[d] : t = Post(d, j) /\ leg[d][j] \in {"sent", "failed"}
      BY <3>0
    <3>2. CASE d = c /\ j = k
      <4>1. st # "done"
        BY <2>1, <3>1, <3>2
      <4>2. leg'[d][j] \in {"sent", "failed"}
        BY <1>3, <3>2, <4>1 DEF LegState
      <4> QED BY <1>4, <2>1, <3>1, <4>2
    <3>3. CASE ~ (d = c /\ j = k)
      <4>1. leg'[d][j] = leg[d][j]
        BY <1>2, <1>3, <3>3
      <4> QED BY <1>4, <2>1, <3>1, <4>1
    <3> QED BY <3>2, <3>3
  <2>2. CASE t \in net /\ t.kind # "post"
    BY <2>2 DEF IInv, NetIsPosted
  <2>3. CASE t = Post(c, k) /\ st = "sent"
    BY <1>3, <2>3, AtFacts
  <2> QED BY <1>6, <2>1, <2>2, <2>3
<1>8. AccountsArePosted'
  <2> SUFFICES ASSUME NEW u \in accounts
               PROVE  \E d \in Call : \E j \in DOMAIN leg'[d] :
                        u = Stored(d, j) /\ leg'[d][j] # "begun" /\ Post(d, j) \notin net'
    BY <1>5 DEF AccountsArePosted
  <2>0. PICK d \in Call : \E j \in DOMAIN leg[d] :
          u = Stored(d, j) /\ leg[d][j] # "begun" /\ Post(d, j) \notin net
    BY DEF IInv, AccountsArePosted
  <2>1. PICK j \in DOMAIN leg[d] : u = Stored(d, j) /\ leg[d][j] # "begun" /\ Post(d, j) \notin net
    BY <2>0
  <2>2. leg'[d][j] # "begun"
    BY <1>2, <1>3, <2>1
  <2>3. Post(d, j) \notin net'
    <3>1. CASE st = "sent"
      <4>1. ~ (d = c /\ j = k)
        BY <2>1, <3>1
      <4> QED BY <1>6, <2>1, <4>1, AtFacts
    <3>2. CASE st # "sent"
      BY <1>6, <2>1, <3>2
    <3> QED BY <3>1, <3>2
  <2> QED BY <1>4, <2>1, <2>2, <2>3
<1>9. ASSUME NEW d \in Call
      PROVE  LegsFollow(d)' /\ \A j \in DOMAIN leg'[d] : DoneIsStored(d, j)'
  <2>1. \A j \in DOMAIN leg'[d] : DoneIsStored(d, j)'
    <3> SUFFICES ASSUME NEW j \in DOMAIN leg[d], leg'[d][j] = "done"
                 PROVE  Post(d, j) \notin net' /\ (At(d, j) \in reclaimed \/ Stored(d, j) \in accounts)
      BY <1>4, <1>5 DEF DoneIsStored, At
    <3>1. CASE d = c /\ j = k
      BY <1>3, <1>6, <3>1
    <3>2. CASE ~ (d = c /\ j = k)
      <4>1. leg[d][j] = "done"
        BY <1>2, <1>3, <3>2
      <4>2. Post(d, j) \notin net /\ (At(d, j) \in reclaimed \/ Stored(d, j) \in accounts)
        BY <4>1 DEF IInv, DoneIsStored
      <4>3. Post(d, j) # Post(c, k)
        BY <3>2, AtFacts
      <4> QED BY <1>6, <4>2, <4>3
    <3> QED BY <3>1, <3>2
  <2>2. CASE d = c
    <3>1. Len(leg[c]) # 0 /\ Len(leg[c]) = Len(feeds[c])
      BY <1>1, LegFacts DEF IInv
    <3>2. pc[c] \notin {"idle", "fetching"} /\ pc[c] # "resolved"
      BY <3>1 DEF IInv, LegsFollow
    <3>3. LegsFollow(c)'
      <4>1. CASE UNCHANGED pc
        BY <3>2, <4>1 DEF LegsFollow
      <4>2. CASE pc' = [pc EXCEPT ![c] = AllLegs(leg'[c])]
        <5>1. pc'[c] = AllLegs(leg'[c])
          BY <4>2 DEF IInv, TypeOK
        <5> QED BY <1>3, <3>1, <5>1, AllLegsFacts DEF LegsFollow
      <4> QED BY <4>1, <4>2
    <3> QED BY <2>1, <2>2, <3>3
  <2>3. CASE d # c
    <3>1. pc'[d] = pc[d] /\ leg'[d] = leg[d]
      BY <1>2, <2>3 DEF IInv, TypeOK
    <3>2. LegsFollow(d)'
      BY <3>1 DEF IInv, LegsFollow
    <3> QED BY <2>1, <3>2
  <2> QED BY <2>2, <2>3
<1> QED BY <1>4, <1>7, <1>8, <1>9 DEF PostsAreKept

\* A step of a call that has no legs yet.
LEMMA FirstSteps ==
  ASSUME IInv, NEW c \in Call, postPythPriceUpdates(c) \/ Fetched(c) \/ FetchFailed(c)
  PROVE  PostsAreKept' /\ TypeOK'
<1>0. /\ pc[c] \in {"idle", "fetching"}
      /\ UNCHANGED <<hermes, net, accounts, reclaimed, watching, polls, told>>
  BY DEF postPythPriceUpdates, Fetched, FetchFailed, watchVars
<1>1. Len(leg[c]) = 0 /\ DOMAIN leg[c] = {}
  <2>1. Len(leg[c]) = 0
    BY <1>0 DEF IInv, LegsFollow
  <2> QED BY <2>1, LegFacts DEF IInv
<1>2. /\ \A d \in Call \ {c} : leg'[d] = leg[d] /\ feeds'[d] = feeds[d] /\ snap'[d] = snap[d] /\ pc'[d] = pc[d]
      /\ leg' \in [Call -> Seq(LegState)]
      /\ snap' \in [Call -> 0 .. hermes]
      /\ feeds' \in [Call -> Requests \cup {<< >>}]
      /\ pc' \in [Call -> {"idle", "fetching", "posting", "resolved", "rejected"}]
      /\ Len(leg'[c]) \in {0, Len(feeds'[c])}
      /\ LegsFollow(c)'
      /\ \A k \in DOMAIN leg'[c] : leg'[c][k] # "done"
  <2>1. CASE postPythPriceUpdates(c)
    <3>1. PICK r \in Requests : feeds' = [feeds EXCEPT ![c] = r]
      BY <2>1 DEF postPythPriceUpdates
    <3>2. /\ pc' = [pc EXCEPT ![c] = "fetching"]
          /\ snap' = [snap EXCEPT ![c] = hermes]
          /\ UNCHANGED leg
          /\ hermes \in 0 .. hermes
      BY <2>1 DEF postPythPriceUpdates, IInv, TypeOK, Version
    <3> QED BY <1>1, <3>1, <3>2 DEF IInv, TypeOK, LegState, LegsFollow
  <2>2. CASE Fetched(c)
    <3>1. PICK v \in snap[c] .. hermes : snap' = [snap EXCEPT ![c] = v]
      BY <2>2 DEF Fetched
    <3>2. PICK found \in SUBSET Range(feeds[c]) :
            Settle(c, [k \in DOMAIN feeds[c] |-> IF feeds[c][k] \in found THEN "begun" ELSE "failed"])
      BY <2>2 DEF Fetched
    <3> DEFINE legs == [k \in DOMAIN feeds[c] |-> IF feeds[c][k] \in found THEN "begun" ELSE "failed"]
    <3>3. UNCHANGED feeds /\ v \in 0 .. hermes
      BY <2>2, <3>1 DEF Fetched, IInv, TypeOK, Version
    <3>4. DOMAIN feeds[c] = 1 .. Len(feeds[c]) /\ Len(feeds[c]) \in Nat
      BY LegFacts DEF IInv
    <3>5. /\ legs \in Seq(LegState) /\ Len(legs) = Len(feeds[c]) /\ DOMAIN legs = 1 .. Len(feeds[c])
          /\ \A k \in DOMAIN legs : legs[k] # "done"
      BY <3>4 DEF LegState
    <3>6. leg' = [leg EXCEPT ![c] = legs] /\ pc' = [pc EXCEPT ![c] = AllLegs(legs)]
      BY <3>2 DEF Settle
    <3> HIDE DEF legs
    <3>7. leg'[c] = legs /\ pc'[c] = AllLegs(legs)
      BY <3>6 DEF IInv, TypeOK
    <3>8. LegsFollow(c)'
      BY <3>3, <3>5, <3>7, AllLegsFacts DEF LegsFollow
    <3>9. AllLegs(legs) \in {"rejected", "resolved", "posting"}
      BY AllLegsFacts
    <3> QED BY <3>1, <3>3, <3>5, <3>6, <3>7, <3>8, <3>9 DEF IInv, TypeOK, LegState
  <2>3. CASE FetchFailed(c)
    <3>1. pc' = [pc EXCEPT ![c] = "rejected"] /\ UNCHANGED <<feeds, snap, leg>>
      BY <2>3 DEF FetchFailed
    <3> QED BY <1>1, <3>1 DEF IInv, TypeOK, LegState, LegsFollow
  <2> QED BY <2>1, <2>2, <2>3
<1>3. TypeOK'
  <2>1. \A d \in Call : Len(leg'[d]) \in {0, Len(feeds'[d])}
    BY <1>2 DEF IInv, TypeOK
  <2> QED BY <1>0, <1>2, <2>1 DEF IInv, TypeOK, LegState
<1>4. \A d \in Call : \A j : d # c => Post(d, j)' = Post(d, j) /\ Stored(d, j)' = Stored(d, j)
  BY <1>2 DEF Post, Stored, At
<1>5. NetIsPosted'
  <2> SUFFICES ASSUME NEW t \in net, t.kind = "post"
               PROVE  \E d \in Call : \E j \in DOMAIN leg'[d] :
                        t = Post(d, j)' /\ leg'[d][j] \in {"sent", "failed"}
    BY <1>0 DEF IInv, NetIsPosted
  <2>1. PICK d \in Call : \E j \in DOMAIN leg[d] : t = Post(d, j) /\ leg[d][j] \in {"sent", "failed"}
    BY DEF IInv, NetIsPosted
  <2>2. d # c
    BY <1>1, <2>1
  <2> QED BY <1>2, <1>4, <2>1, <2>2
<1>6. AccountsArePosted'
  <2> SUFFICES ASSUME NEW u \in accounts
               PROVE  \E d \in Call : \E j \in DOMAIN leg'[d] :
                        u = Stored(d, j)' /\ leg'[d][j] # "begun" /\ Post(d, j)' \notin net
    BY <1>0 DEF AccountsArePosted
  <2>1. PICK d \in Call : \E j \in DOMAIN leg[d] :
               u = Stored(d, j) /\ leg[d][j] # "begun" /\ Post(d, j) \notin net
    BY DEF IInv, AccountsArePosted
  <2>2. d # c
    BY <1>1, <2>1
  <2> QED BY <1>2, <1>4, <2>1, <2>2
<1>7. ASSUME NEW d \in Call
      PROVE  LegsFollow(d)' /\ \A j \in DOMAIN leg'[d] : DoneIsStored(d, j)'
  <2>1. CASE d = c
    BY <1>2, <2>1 DEF DoneIsStored
  <2>2. CASE d # c
    <3>1. LegsFollow(d)'
      BY <1>2, <2>2 DEF IInv, LegsFollow
    <3>2. \A j \in DOMAIN leg'[d] : DoneIsStored(d, j)'
      <4> SUFFICES ASSUME NEW j \in DOMAIN leg[d], leg[d][j] = "done"
                   PROVE  /\ Post(d, j)' \notin net
                          /\ At(d, j) \in reclaimed \/ Stored(d, j)' \in accounts
        BY <1>0, <1>2, <2>2 DEF DoneIsStored, At
      <4>1. Post(d, j) \notin net /\ (At(d, j) \in reclaimed \/ Stored(d, j) \in accounts)
        BY DEF IInv, DoneIsStored
      <4> QED BY <1>4, <2>2, <4>1
    <3> QED BY <3>1, <3>2
  <2> QED BY <2>1, <2>2
<1> QED BY <1>3, <1>5, <1>6, <1>7 DEF PostsAreKept

\* A leg sends, is confirmed or fails.
LEMMA LegSteps ==
  ASSUME IInv, NEW c \in Call, NEW k \in DOMAIN leg[c], Send(c, k) \/ Confirmed(c, k) \/ LegFailed(c, k)
  PROVE  PostsAreKept' /\ TypeOK'
<1>1. UNCHANGED <<hermes, feeds, snap, accounts, reclaimed, watching, polls, told>>
  BY DEF Send, Confirmed, LegFailed, watchVars
<1>2. PostsAreKept' /\ leg' \in [Call -> Seq(LegState)] /\ \A d \in Call : Len(leg'[d]) = Len(leg[d])
  <2>1. CASE Send(c, k)
    <3>1. /\ leg[c][k] = "begun"
          /\ leg' = [leg EXCEPT ![c] = [leg[c] EXCEPT ![k] = "sent"]]
          /\ net' = net \cup {Post(c, k)}
          /\ UNCHANGED pc
      BY <2>1 DEF Send, IInv, TypeOK
    <3>2. "sent" \in LegState \ {"begun"}
      BY DEF LegState
    <3> QED BY <1>1, <3>1, <3>2, LegStep
  <2>2. CASE Confirmed(c, k)
    <3>1. /\ leg[c][k] = "sent"
          /\ leg' = [leg EXCEPT ![c] = [leg[c] EXCEPT ![k] = "done"]]
          /\ pc' = [pc EXCEPT ![c] = AllLegs(leg'[c])]
          /\ UNCHANGED net
      BY <2>2 DEF Confirmed, Settle, IInv, TypeOK
    <3>2. PICK u \in accounts : u.at = At(c, k)
      BY <2>2 DEF Confirmed
    <3>3. Stored(c, k) \in accounts /\ Post(c, k) \notin net
      <4>1. PICK d \in Call : \E j \in DOMAIN leg[d] :
                   u = Stored(d, j) /\ leg[d][j] # "begun" /\ Post(d, j) \notin net
        BY DEF IInv, AccountsArePosted
      <4>2. PICK j \in DOMAIN leg[d] : u = Stored(d, j) /\ Post(d, j) \notin net
        BY <4>1
      <4>3. d = c /\ j = k
        BY <3>2, <4>2, AtFacts
      <4> QED BY <4>2, <4>3
    <3>4. "done" \in LegState \ {"begun"}
      BY DEF LegState
    <3> QED BY <1>1, <3>1, <3>3, <3>4, LegStep
  <2>3. CASE LegFailed(c, k)
    <3>1. /\ leg[c][k] \in {"begun", "sent"}
          /\ leg' = [leg EXCEPT ![c] = [leg[c] EXCEPT ![k] = "failed"]]
          /\ pc' = [pc EXCEPT ![c] = AllLegs(leg'[c])]
          /\ UNCHANGED net
      BY <2>3 DEF LegFailed, Settle, IInv, TypeOK
    <3>2. "failed" \in LegState \ {"begun"}
      BY DEF LegState
    <3> QED BY <1>1, <3>1, <3>2, LegStep
  <2> QED BY <2>1, <2>2, <2>3
<1>3. pc' \in [Call -> {"idle", "fetching", "posting", "resolved", "rejected"}]
  <2>1. UNCHANGED pc \/ \E legs : pc' = [pc EXCEPT ![c] = AllLegs(legs)]
    BY DEF Send, Confirmed, LegFailed, Settle
  <2>2. CASE UNCHANGED pc
    BY <2>2 DEF IInv, TypeOK
  <2>3. ASSUME NEW legs, pc' = [pc EXCEPT ![c] = AllLegs(legs)]
        PROVE  pc' \in [Call -> {"idle", "fetching", "posting", "resolved", "rejected"}]
    <3>1. AllLegs(legs) \in {"rejected", "resolved", "posting"}
      BY AllLegsFacts
    <3> QED BY <2>3, <3>1 DEF IInv, TypeOK
  <2> QED BY <2>1, <2>2, <2>3
<1>4. TypeOK'
  BY <1>1, <1>2, <1>3 DEF IInv, TypeOK, LegState
<1> QED BY <1>2, <1>4

\* The poster, the cluster and the Pyth program.
LEMMA ChainSteps ==
  ASSUME IInv,
         \/ \E a : reclaimPythPriceUpdateRent(a)
         \/ \E t \in net : Land(t) \/ Lost(t)
  PROVE  PostsAreKept' /\ TypeOK'
<1>1. UNCHANGED <<hermes, pc, feeds, snap, leg, watching, polls, told>>
  BY DEF reclaimPythPriceUpdateRent, Land, Lost, watchVars
<1>2. TypeOK'
  BY <1>1 DEF IInv, TypeOK
<1>3. \A d, j : Post(d, j)' = Post(d, j) /\ Stored(d, j)' = Stored(d, j) /\ At(d, j)' = At(d, j)
  BY <1>1 DEF Post, Stored, At
<1>4. \A d \in Call : LegsFollow(d)'
  BY <1>1 DEF IInv, LegsFollow
<1>5. ASSUME NEW a, reclaimPythPriceUpdateRent(a)
      PROVE  PostsAreKept'
  <2>1. reclaimed' = reclaimed \cup {a} /\ net' = net \cup {Reclaim(a)} /\ UNCHANGED accounts
    BY <1>5 DEF reclaimPythPriceUpdateRent
  <2>2. \A d, j : Post(d, j) \in net' <=> Post(d, j) \in net
    BY <2>1, AtFacts
  <2>3. NetIsPosted'
    BY <1>1, <1>3, <2>1, AtFacts DEF IInv, NetIsPosted
  <2>4. AccountsArePosted'
    BY <1>1, <1>3, <2>1, <2>2 DEF IInv, AccountsArePosted
  <2>5. \A d \in Call : \A j \in DOMAIN leg[d] : DoneIsStored(d, j)'
    BY <1>1, <1>3, <2>1, <2>2 DEF IInv, DoneIsStored
  <2> QED BY <1>1, <1>4, <2>3, <2>4, <2>5 DEF PostsAreKept
<1>6. ASSUME NEW t \in net, Land(t) \/ Lost(t)
      PROVE  PostsAreKept'
  <2>1. net' = net \ {t} /\ UNCHANGED reclaimed
    BY <1>6 DEF Land, Lost
  <2>2. NetIsPosted'
    BY <1>1, <1>3, <2>1 DEF IInv, NetIsPosted
  <2>3. CASE Lost(t)
    <3>1. UNCHANGED accounts
      BY <2>3 DEF Lost
    <3>2. AccountsArePosted'
      BY <1>1, <1>3, <2>1, <3>1 DEF IInv, AccountsArePosted
    <3>3. \A d \in Call : \A j \in DOMAIN leg[d] : DoneIsStored(d, j)'
      BY <1>1, <1>3, <2>1, <3>1 DEF IInv, DoneIsStored
    <3> QED BY <1>1, <1>4, <2>2, <3>2, <3>3 DEF PostsAreKept
  <2>4. CASE t.kind = "post" /\ accounts' = accounts \cup {[at |-> t.at, feed |-> t.feed, version |-> t.version]}
    <3>1. PICK c \in Call : \E k \in DOMAIN leg[c] : t = Post(c, k) /\ leg[c][k] \in {"sent", "failed"}
      BY <2>4 DEF IInv, NetIsPosted
    <3>2. PICK k \in DOMAIN leg[c] : t = Post(c, k) /\ leg[c][k] \in {"sent", "failed"}
      BY <3>1
    <3>3. accounts' = accounts \cup {Stored(c, k)}
      BY <2>4, <3>2 DEF Post, Stored
    <3>4. AccountsArePosted'
      <4> SUFFICES ASSUME NEW u \in accounts'
                   PROVE  \E d \in Call : \E j \in DOMAIN leg[d] :
                            u = Stored(d, j) /\ leg[d][j] # "begun" /\ Post(d, j) \notin net'
        BY <1>1, <1>3 DEF AccountsArePosted
      <4>1. CASE u = Stored(c, k)
        BY <2>1, <3>2, <4>1
      <4>2. CASE u \in accounts
        BY <2>1, <4>2 DEF IInv, AccountsArePosted
      <4> QED BY <3>3, <4>1, <4>2
    <3>5. \A d \in Call : \A j \in DOMAIN leg[d] : DoneIsStored(d, j)'
      BY <1>1, <1>3, <2>1, <3>3 DEF IInv, DoneIsStored
    <3> QED BY <1>1, <1>4, <2>2, <3>4, <3>5 DEF PostsAreKept
  <2>5. CASE t.kind = "reclaim" /\ accounts' = {u \in accounts : u.at # t.at}
    <3>1. t.at \in reclaimed
      BY <2>5 DEF IInv, NetIsPosted
    <3>2. AccountsArePosted'
      BY <1>1, <1>3, <2>1, <2>5 DEF IInv, AccountsArePosted
    <3>3. \A d \in Call : \A j \in DOMAIN leg[d] : DoneIsStored(d, j)'
      BY <1>1, <1>3, <2>1, <2>5, <3>1, AtFacts DEF IInv, DoneIsStored
    <3> QED BY <1>1, <1>4, <2>2, <3>2, <3>3 DEF PostsAreKept
  <2> QED BY <1>6, <2>3, <2>4, <2>5 DEF Land
<1> QED BY <1>2, <1>5, <1>6

\* The polls of the watcher.
LEMMA WatchSteps ==
  ASSUME IInv,
         \/ watchPythPriceFeed \/ IntervalFires \/ stop
         \/ \E p \in DOMAIN polls : PriceAnswered(p) \/ PollFailed(p)
  PROVE  PollsAreFresh' /\ TypeOK'
<1>1. UNCHANGED <<hermes, pc, feeds, snap, leg, net, accounts, reclaimed>>
  BY DEF watchPythPriceFeed, IntervalFires, stop, PriceAnswered, PollFailed, postVars
<1>2. polls \in Seq(Poll) /\ hermes \in Version /\ hermes \in Nat /\ told \in 0 .. hermes
  BY DEF IInv, TypeOK, Version
<1>3. \A p \in DOMAIN polls : polls[p] \in Poll /\ polls[p].asked \in Version /\ polls[p].asked <= hermes
  BY PollFacts DEF IInv
<1>4. CASE watchPythPriceFeed \/ IntervalFires
  <2> DEFINE new == [asked |-> hermes, st |-> "asked", overtaken |-> FALSE]
  <2>1. polls' = Append(polls, new) /\ UNCHANGED told /\ watching' = "yes"
    BY <1>4 DEF watchPythPriceFeed, IntervalFires, PollBegins
  <2>2. new \in Poll
    BY <1>2 DEF Poll
  <2>3. new.asked = hermes
    OBVIOUS
  <2> HIDE DEF new
  <2>4. /\ polls' \in Seq(Poll)
        /\ DOMAIN polls' = 1 .. Len(polls) + 1
        /\ polls'[Len(polls) + 1] = new
        /\ \A p \in DOMAIN polls : polls'[p] = polls[p]
        /\ DOMAIN polls = 1 .. Len(polls)
        /\ Len(polls) \in Nat
    BY <1>2, <2>1, <2>2
  <2>5. ASSUME NEW p \in DOMAIN polls'
        PROVE  polls'[p].asked <= hermes /\ PollIsFresh(p)'
    <3>1. CASE p \in DOMAIN polls
      BY <1>3, <2>1, <2>4, <3>1 DEF IInv, PollIsFresh
    <3>2. CASE p = Len(polls) + 1
      <4>1. polls'[p].asked = hermes
        BY <2>3, <2>4, <3>2
      <4> QED BY <1>2, <2>1, <4>1 DEF PollIsFresh
    <3> QED BY <2>4, <3>1, <3>2
  <2> QED BY <1>1, <2>1, <2>4, <2>5 DEF PollsAreFresh, IInv, TypeOK
<1>5. CASE stop
  <2>1. UNCHANGED <<polls, told>> /\ watching' = "stopped"
    BY <1>5 DEF stop
  <2> QED BY <1>1, <1>3, <2>1 DEF PollsAreFresh, PollIsFresh, IInv, TypeOK
<1>6. ASSUME NEW p \in DOMAIN polls, PriceAnswered(p) \/ PollFailed(p)
      PROVE  PollsAreFresh' /\ TypeOK'
  <2>1. /\ told' \in 0 .. hermes
        /\ UNCHANGED watching
    <3>1. CASE PriceAnswered(p)
      BY <1>2, <1>3, <3>1 DEF PriceAnswered, Version
    <3>2. CASE PollFailed(p)
      BY <1>2, <3>2 DEF PollFailed
    <3> QED BY <1>6, <3>1, <3>2
  <2>2. PICK st \in {"told", "unhandled"} :
          polls' = [q \in DOMAIN polls |->
                      IF q = p THEN [polls[q] EXCEPT !.st = st]
                      ELSE [polls[q] EXCEPT !.overtaken = @ \/ polls[q].st = "asked"]]
    BY <1>6 DEF PriceAnswered, PollFailed, CalledBack
  <2>3. ASSUME NEW q \in DOMAIN polls
        PROVE  polls'[q] \in Poll /\ polls'[q].asked = polls[q].asked /\ PollIsFresh(q)'
    <3>1. CASE q = p
      <4>1. polls'[q] = [polls[q] EXCEPT !.st = st]
        BY <2>2, <3>1
      <4> QED BY <1>3, <4>1 DEF Poll, PollIsFresh
    <3>2. CASE q # p
      <4>1. polls'[q] = [polls[q] EXCEPT !.overtaken = @ \/ polls[q].st = "asked"]
        BY <2>2, <3>2
      <4>2. polls'[q].st = polls[q].st /\ polls'[q].asked = polls[q].asked
        BY <1>3, <4>1 DEF Poll
      <4>3. polls'[q].overtaken = (polls[q].overtaken \/ polls[q].st = "asked")
        BY <1>3, <4>1 DEF Poll
      <4>4. polls'[q] \in Poll
        <5>1. (polls[q].overtaken \/ polls[q].st = "asked") \in BOOLEAN
          BY <1>3 DEF Poll
        <5> QED BY <1>3, <4>1, <5>1 DEF Poll
      <4> QED BY <4>2, <4>3, <4>4 DEF PollIsFresh
    <3> QED BY <3>1, <3>2
  <2>4. DOMAIN polls' = DOMAIN polls /\ polls' \in Seq(Poll)
    <3>1. DOMAIN polls = 1 .. Len(polls) /\ Len(polls) \in Nat
      BY PollFacts DEF IInv
    <3> DEFINE after(q) == IF q = p THEN [polls[q] EXCEPT !.st = st]
                           ELSE [polls[q] EXCEPT !.overtaken = @ \/ polls[q].st = "asked"]
    <3>2. polls' = [q \in DOMAIN polls |-> after(q)]
      BY <2>2
    <3> HIDE DEF after
    <3>3. DOMAIN polls' = DOMAIN polls /\ \A q \in DOMAIN polls : polls'[q] = after(q)
      BY <3>2
    <3>4. \A q \in DOMAIN polls : after(q) \in Poll
      BY <2>3, <3>3
    <3>5. polls' \in [1 .. Len(polls) -> Poll]
      BY <3>1, <3>2, <3>4
    <3> QED BY <3>1, <3>3, <3>5
  <2>5. PollsAreFresh'
    BY <1>1, <1>3, <2>3, <2>4 DEF PollsAreFresh
  <2> QED BY <1>1, <2>1, <2>4, <2>5 DEF IInv, TypeOK
<1> QED BY <1>4, <1>5, <1>6

LEMMA NextIInv == IInv /\ [Next]_vars => IInv'
<1> SUFFICES ASSUME IInv, [Next]_vars PROVE IInv'
  OBVIOUS
<1>1. IInv <=> TypeOK /\ PostsAreKept /\ PollsAreFresh
  BY DEF IInv, PostsAreKept, PollsAreFresh
<1>2. IInv' <=> TypeOK' /\ PostsAreKept' /\ PollsAreFresh'
  BY DEF IInv, PostsAreKept, PollsAreFresh
<1>3. ASSUME UNCHANGED <<hermes, watchVars>>
      PROVE  PollsAreFresh'
  BY <1>1, <1>3 DEF PollsAreFresh, PollIsFresh, watchVars
<1>4. CASE Publish
  <2>1. hermes' = hermes + 1 /\ hermes < MaxVersion /\ UNCHANGED <<postVars, watchVars>>
    BY <1>4 DEF Publish
  <2>2. hermes \in Version /\ hermes' \in Version /\ hermes \in Nat /\ hermes' \in Nat
    BY <2>1, FeedsAssumption DEF IInv, TypeOK, Version
  <2>3. 0 .. hermes \subseteq 0 .. hermes'
    BY <2>1, <2>2
  <2>4. TypeOK'
    BY <2>1, <2>2, <2>3 DEF IInv, TypeOK, postVars, watchVars
  <2>5. \A p \in DOMAIN polls : polls[p].asked \in Nat
    BY PollFacts DEF IInv
  <2>6. PollsAreFresh'
    BY <1>1, <2>1, <2>2, <2>5 DEF PollsAreFresh, PollIsFresh, watchVars
  <2> QED BY <1>1, <1>2, <2>1, <2>4, <2>6, PostsUntouched
<1>5. ASSUME NEW c \in Call,
             \/ postPythPriceUpdates(c) \/ Fetched(c) \/ FetchFailed(c)
             \/ \E k \in DOMAIN leg[c] : Send(c, k) \/ Confirmed(c, k) \/ LegFailed(c, k)
             \/ \E k \in DOMAIN feeds[c] : reclaimPythPriceUpdateRent(At(c, k))
      PROVE  IInv'
  <2>1. PollsAreFresh'
    BY <1>3, <1>5 DEF postPythPriceUpdates, Fetched, FetchFailed, Send, Confirmed, LegFailed,
                      reclaimPythPriceUpdateRent
  <2> QED BY <1>2, <1>5, <2>1, FirstSteps, LegSteps, ChainSteps
<1>6. CASE \E t \in net : Land(t) \/ Lost(t)
  <2>1. PollsAreFresh'
    BY <1>3, <1>6 DEF Land, Lost
  <2> QED BY <1>2, <1>6, <2>1, ChainSteps
<1>7. CASE \/ watchPythPriceFeed \/ IntervalFires \/ stop
           \/ \E p \in DOMAIN polls : PriceAnswered(p) \/ PollFailed(p)
  <2>1. UNCHANGED postVars
    BY <1>7 DEF watchPythPriceFeed, IntervalFires, stop, PriceAnswered, PollFailed
  <2> QED BY <1>1, <1>2, <1>7, <2>1, WatchSteps, PostsUntouched
<1>8. CASE UNCHANGED vars
  <2>1. UNCHANGED <<hermes, postVars, watchVars>>
    BY <1>8 DEF vars, postVars, watchVars
  <2>2. TypeOK'
    BY <2>1 DEF IInv, TypeOK, postVars, watchVars
  <2> QED BY <1>1, <1>2, <1>3, <2>1, <2>2, PostsUntouched
<1> QED BY <1>4, <1>5, <1>6, <1>7, <1>8 DEF Next

-----------------------------------------------------------------------------
\* The theorems.

\* For any number of calls, feeds, polls and versions.
THEOREM Invariance == Spec => []IInv
BY InitIInv, NextIInv, PTL DEF Spec

\* Every variable keeps its type.
THEOREM TypeCorrectness == Spec => []TypeOK
<1>1. IInv => TypeOK
  BY DEF IInv
<1> QED BY <1>1, Invariance, PTL

\* Whatever the order in which the legs of a call begin, land and fail
\* (pyth-client.ts:389): every address of a call that fulfilled holds its feed, as of
\* one answer of Hermes, until its rent is reclaimed.
THEOREM ReturnedAddressesHold == Spec => []ReturnedHoldOneAnswer
<1>1. IInv => ReturnedHoldOneAnswer
  <2> SUFFICES ASSUME IInv, NEW c \in Call, pc[c] = "resolved", NEW k \in DOMAIN feeds[c]
               PROVE  /\ \A t \in net : t.kind = "post" => t.at # At(c, k)
                      /\ \/ At(c, k) \in reclaimed
                         \/ [at |-> At(c, k), feed |-> feeds[c][k], version |-> snap[c]] \in accounts
    BY DEF ReturnedHoldOneAnswer
  <2>1. k \in DOMAIN leg[c] /\ leg[c][k] = "done"
    BY LegFacts DEF IInv, LegsFollow
  <2>2. At(c, k) \in reclaimed \/ Stored(c, k) \in accounts
    BY <2>1 DEF IInv, DoneIsStored
  <2>3. ASSUME NEW t \in net, t.kind = "post", t.at = At(c, k)
        PROVE  FALSE
    <3>1. PICK d \in Call : \E j \in DOMAIN leg[d] : t = Post(d, j) /\ leg[d][j] \in {"sent", "failed"}
      BY <2>3 DEF IInv, NetIsPosted
    <3>2. PICK j \in DOMAIN leg[d] : t = Post(d, j) /\ leg[d][j] \in {"sent", "failed"}
      BY <3>1
    <3>3. d = c /\ j = k
      BY <2>3, <3>2, AtFacts
    <3> QED BY <2>1, <3>2, <3>3
  <2> QED BY <2>2, <2>3 DEF Stored
<1> QED BY <1>1, Invariance, PTL

\* The callback of a watcher goes back in time only in a poll that another one
\* overtook (pyth-client.ts:334-346).
THEOREM OvertakenPollsGoBack == Spec => OnlyOvertakenGoBack
<1> DEFINE A == \A p \in DOMAIN polls :
                  /\ polls[p].st = "asked"
                  /\ polls'[p].st # "asked"
                  /\ ~polls[p].overtaken
                  => told' >= told
<1>1. IInv /\ [Next]_vars => [A]_vars
  <2> SUFFICES ASSUME IInv, [Next]_vars, NEW p \in DOMAIN polls, polls[p].st = "asked",
                      polls'[p].st # "asked", ~ polls[p].overtaken
               PROVE  told' >= told
    OBVIOUS
  <2>1. told \in Nat /\ told <= polls[p].asked /\ polls[p].asked \in Nat
    <3>1. told \in 0 .. hermes /\ hermes \in Nat
      BY DEF IInv, TypeOK, Version
    <3>2. told <= polls[p].asked
      BY DEF IInv, PollIsFresh
    <3> QED BY <3>1, <3>2, PollFacts DEF IInv
  <2>2. CASE UNCHANGED told
    BY <2>1, <2>2
  <2>3. ASSUME NEW q \in DOMAIN polls, PriceAnswered(q)
        PROVE  told' >= told
    <3>1. q = p
      <4>1. SUFFICES ASSUME q # p PROVE FALSE
        OBVIOUS
      <4>2. polls'[p] = [polls[p] EXCEPT !.overtaken = @ \/ polls[p].st = "asked"]
        BY <2>3, <4>1 DEF PriceAnswered, CalledBack
      <4>3. polls[p] \in Poll
        BY DEF IInv, TypeOK
      <4>4. polls'[p].st = polls[p].st
        BY <4>2, <4>3 DEF Poll
      <4> QED BY <4>4
    <3>2. \E v \in polls[p].asked .. hermes : told' = v
      BY <2>3, <3>1 DEF PriceAnswered
    <3>3. hermes \in Nat
      BY DEF IInv, TypeOK, Version
    <3> QED BY <2>1, <3>2, <3>3
  <2>4. CASE Next /\ ~ \E q \in DOMAIN polls : PriceAnswered(q)
    <3>1. UNCHANGED told
      BY <2>4 DEF Next, Publish, watchVars, postPythPriceUpdates, Fetched, FetchFailed, Send, Confirmed,
                  LegFailed, reclaimPythPriceUpdateRent, Land, Lost, watchPythPriceFeed, IntervalFires,
                  stop, PollFailed
    <3> QED BY <2>2, <3>1
  <2>5. CASE UNCHANGED vars
    BY <2>2, <2>5 DEF vars
  <2> QED BY <2>3, <2>4, <2>5
<1> QED BY <1>1, Invariance, PTL DEF Spec, OnlyOvertakenGoBack
=============================================================================
