------------------------------ MODULE PythFeeds ------------------------------
(***************************************************************************)
(* PythClient of kit-plugin-pyth: price updates that are posted on chain,   *)
(* one transaction for each feed and all at once, their accounts, whose     *)
(* rent the poster reclaims, and a watcher whose polls overlap.             *)
(*                                                                         *)
(* Hermes, the price service, is external: what it answers is at least as   *)
(* new as what it had when it was asked.  A version stands for everything   *)
(* it publishes at a time.                                                  *)
(***************************************************************************)
EXTENDS Integers, Sequences, Functions

CONSTANTS
  Call,        \* invocations of postPythPriceUpdates
  Requests,    \* the lists of feeds they ask for
  MaxPolls,    \* bound: polls of the watcher
  MaxVersion   \* bound: versions that Hermes publishes

ASSUME FeedsAssumption ==
  /\ \A r \in Requests : Len(r) \in Nat /\ DOMAIN r = 1 .. Len(r)
  /\ MaxPolls \in Nat
  /\ MaxVersion \in Nat \ {0}

VARIABLES
  hermes,    \* the latest version that Hermes has
  pc,        \* pc[c]: where the call c is
  feeds,     \* feeds[c]: the feeds it was given, normalizedIds
  snap,      \* snap[c]: the version it asked at, then the version it posts
  leg,       \* leg[c][k]: where its transaction for feeds[c][k] is
  net,       \* transactions that may still land
  accounts,  \* the price updates on chain
  reclaimed, \* addresses whose rent the poster has asked for
  watching,  \* whether the watcher is on: no, yes or stopped
  polls,     \* polls[p]: the p-th poll of the watcher
  told       \* the version that the callback was told last, 0 for none

postVars == <<pc, feeds, snap, leg, net, accounts, reclaimed>>
watchVars == <<watching, polls, told>>
vars == <<hermes, pc, feeds, snap, leg, net, accounts, reclaimed, watching, polls, told>>

Version == 1 .. MaxVersion

\* The address of a price update: its key pair is made for one leg of one call.
At(c, k) == <<c, k>>
Post(c, k) == [at |-> At(c, k), kind |-> "post", feed |-> feeds[c][k], version |-> snap[c]]
Reclaim(a) == [at |-> a, kind |-> "reclaim"]

Init ==
  /\ hermes = 1
  /\ pc = [c \in Call |-> "idle"]
  /\ feeds = [c \in Call |-> << >>]
  /\ snap = [c \in Call |-> 0]
  /\ leg = [c \in Call |-> << >>]
  /\ net = {}
  /\ accounts = {}
  /\ reclaimed = {}
  /\ watching = "no"
  /\ polls = << >>
  /\ told = 0

Publish ==
  /\ hermes < MaxVersion
  /\ hermes' = hermes + 1
  /\ UNCHANGED <<postVars, watchVars>>

-----------------------------------------------------------------------------
\* Promise.all over the legs: it rejects with the first that fails, the others
\* go on, and it fulfils with the last.
AllLegs(legs) ==
  IF "failed" \in Range(legs) THEN "rejected"
  ELSE IF Range(legs) \subseteq {"done"} THEN "resolved" ELSE "posting"

Settle(c, legs) ==
  /\ leg' = [leg EXCEPT ![c] = legs]
  /\ pc' = [pc EXCEPT ![c] = AllLegs(legs)]

postPythPriceUpdates(c) ==
  /\ pc[c] = "idle"
  /\ pc' = [pc EXCEPT ![c] = "fetching"]
  /\ \E r \in Requests : feeds' = [feeds EXCEPT ![c] = r]
  /\ snap' = [snap EXCEPT ![c] = hermes]
  /\ UNCHANGED <<hermes, leg, net, accounts, reclaimed, watchVars>>

\* Mutant of Fetched: a feed that is not in the update is left out.
FetchedLeavingOut(c) ==
  /\ pc[c] = "fetching"
  /\ \E v \in snap[c] .. hermes : snap' = [snap EXCEPT ![c] = v]
  /\ \E n \in 0 .. Len(feeds[c]) : Settle(c, [k \in 1 .. n |-> "begun"])
  /\ UNCHANGED <<hermes, feeds, net, accounts, reclaimed, watchVars>>

\* Hermes answers with one update for all feeds; a feed that is not in it fails
\* its leg at once, while the others have begun.
Fetched(c) ==
  /\ pc[c] = "fetching"
  /\ \E v \in snap[c] .. hermes : snap' = [snap EXCEPT ![c] = v]
  /\ \E found \in SUBSET Range(feeds[c]) :
       Settle(c, [k \in DOMAIN feeds[c] |-> IF feeds[c][k] \in found THEN "begun" ELSE "failed"])
  /\ UNCHANGED <<hermes, feeds, net, accounts, reclaimed, watchVars>>

\* The request fails, or its answer has no binary data or not in the known format.
FetchFailed(c) ==
  /\ pc[c] = "fetching"
  /\ pc' = [pc EXCEPT ![c] = "rejected"]
  /\ UNCHANGED <<hermes, feeds, snap, leg, net, accounts, reclaimed, watchVars>>

\* The key pair of the account is made and the transaction is sent, also when
\* another leg has rejected the call already.
Send(c, k) ==
  /\ leg[c][k] = "begun"
  /\ leg' = [leg EXCEPT ![c][k] = "sent"]
  /\ net' = net \cup {Post(c, k)}
  /\ UNCHANGED <<hermes, pc, feeds, snap, accounts, reclaimed, watchVars>>

\* A leg ends without waiting for its transaction (mutant of Confirmed).
ConfirmedWhenSent(c, k) ==
  /\ leg[c][k] = "sent"
  /\ Settle(c, [leg[c] EXCEPT ![k] = "done"])
  /\ UNCHANGED <<hermes, feeds, snap, net, accounts, reclaimed, watchVars>>

Confirmed(c, k) ==
  /\ leg[c][k] = "sent"
  /\ \E u \in accounts : u.at = At(c, k)
  /\ Settle(c, [leg[c] EXCEPT ![k] = "done"])
  /\ UNCHANGED <<hermes, feeds, snap, net, accounts, reclaimed, watchVars>>

\* It is reported as failed; it may have landed, or land later.
LegFailed(c, k) ==
  /\ leg[c][k] \in {"begun", "sent"}
  /\ Settle(c, [leg[c] EXCEPT ![k] = "failed"])
  /\ UNCHANGED <<hermes, feeds, snap, net, accounts, reclaimed, watchVars>>

\* The poster knows the addresses that a call returned.
Known(a) == \E c \in Call : pc[c] = "resolved" /\ \E k \in DOMAIN feeds[c] : a = At(c, k)

reclaimPythPriceUpdateRent(a) ==
  /\ Known(a)
  /\ reclaimed' = reclaimed \cup {a}
  /\ net' = net \cup {Reclaim(a)}
  /\ UNCHANGED <<hermes, pc, feeds, snap, leg, accounts, watchVars>>

\* The Pyth program: an update is stored in an account of its own, and an account
\* is closed for its poster.
Land(t) ==
  /\ \/ /\ t.kind = "post"
        /\ accounts' = accounts \cup {[at |-> t.at, feed |-> t.feed, version |-> t.version]}
     \/ /\ t.kind = "reclaim"
        /\ accounts' = {u \in accounts : u.at # t.at}
  /\ net' = net \ {t}
  /\ UNCHANGED <<hermes, pc, feeds, snap, leg, reclaimed, watchVars>>

\* A transaction is lost, too old, or fails.
Lost(t) ==
  /\ net' = net \ {t}
  /\ UNCHANGED <<hermes, pc, feeds, snap, leg, accounts, reclaimed, watchVars>>

-----------------------------------------------------------------------------
\* A poll asks at version asked.
Poll == [asked : Version, st : {"asked", "told", "unhandled"}, overtaken : BOOLEAN]

PollBegins ==
  /\ Len(polls) < MaxPolls
  /\ polls' = Append(polls, [asked |-> hermes, st |-> "asked", overtaken |-> FALSE])

\* The first poll is made at once, the others when the interval fires.
watchPythPriceFeed ==
  /\ watching = "no"
  /\ PollBegins
  /\ watching' = "yes"
  /\ UNCHANGED <<hermes, postVars, told>>

IntervalFires ==
  /\ watching = "yes"
  /\ PollBegins
  /\ UNCHANGED <<hermes, postVars, watching, told>>

stop ==
  /\ watching = "yes"
  /\ watching' = "stopped"
  /\ UNCHANGED <<hermes, postVars, polls, told>>

\* What poll p tells overtakes the other polls under way.  A callback that throws
\* is called again, with what it threw; what it throws then nobody handles.
CalledBack(p) == \E st \in {"told", "unhandled"} :
  polls' = [q \in DOMAIN polls |->
              IF q = p THEN [polls[q] EXCEPT !.st = st]
              ELSE [polls[q] EXCEPT !.overtaken = @ \/ polls[q].st = "asked"]]

\* Mutant of PriceAnswered: an answer is remembered and told again.
PriceRemembered(p) ==
  /\ polls[p].st = "asked"
  /\ \E v \in 1 .. hermes : told' = v
  /\ CalledBack(p)
  /\ UNCHANGED <<hermes, postVars, watching>>

PriceAnswered(p) ==
  /\ polls[p].st = "asked"
  /\ \E v \in polls[p].asked .. hermes : told' = v
  /\ CalledBack(p)
  /\ UNCHANGED <<hermes, postVars, watching>>

\* The feed is not in the answer, or the request fails: the callback is told the
\* error, in the second case by the handler, from where nothing is caught.
PollFailed(p) ==
  /\ polls[p].st = "asked"
  /\ CalledBack(p)
  /\ UNCHANGED <<hermes, postVars, watching, told>>

-----------------------------------------------------------------------------
Next ==
  \/ Publish
  \/ \E c \in Call :
       \/ postPythPriceUpdates(c) \/ Fetched(c) \/ FetchFailed(c)
       \/ \E k \in DOMAIN leg[c] : Send(c, k) \/ Confirmed(c, k) \/ LegFailed(c, k)
       \/ \E k \in DOMAIN feeds[c] : reclaimPythPriceUpdateRent(At(c, k))
  \/ \E t \in net : Land(t) \/ Lost(t)
  \/ watchPythPriceFeed \/ IntervalFires \/ stop
  \/ \E p \in DOMAIN polls : PriceAnswered(p) \/ PollFailed(p)

Spec == Init /\ [][Next]_vars

-----------------------------------------------------------------------------
\* Type invariant.
TypeOK ==
  /\ hermes \in Version
  /\ pc \in [Call -> {"idle", "fetching", "posting", "resolved", "rejected"}]
  /\ feeds \in [Call -> Requests \cup {<< >>}]
  /\ snap \in [Call -> 0 .. hermes]
  /\ leg \in [Call -> Seq({"begun", "sent", "done", "failed"})]
  /\ \A c \in Call : Len(leg[c]) \in {0, Len(feeds[c])}
  /\ watching \in {"no", "yes", "stopped"}
  /\ polls \in Seq(Poll)
  /\ told \in 0 .. hermes

\* The legs of a call end in any order, some before others have begun, and a
\* rejected call leaves legs behind that nobody waits for (pyth-client.ts:389).
\* A call that fulfils has nothing under way, and each address it returns, in the
\* order of its feeds, holds that feed as of one answer of Hermes until its rent
\* is reclaimed.
ReturnedHoldOneAnswer ==
  \A c \in Call : pc[c] = "resolved" =>
    \A k \in DOMAIN feeds[c] :
      /\ \A t \in net : t.kind = "post" => t.at # At(c, k)
      /\ \/ At(c, k) \in reclaimed
         \/ [at |-> At(c, k), feed |-> feeds[c][k], version |-> snap[c]] \in accounts

\* Polls that last longer than the interval overtake each other and are not
\* ordered (pyth-client.ts:334-346): the callback is told an older price than
\* before only by a poll that another one, begun later or earlier, overtook.
OnlyOvertakenGoBack ==
  [][\A p \in DOMAIN polls :
       /\ polls[p].st = "asked"
       /\ polls'[p].st # "asked"
       /\ ~polls[p].overtaken
       => told' >= told]_vars
=============================================================================
