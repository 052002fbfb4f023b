----------------------------- MODULE PriceClients -----------------------------
(***************************************************************************)
(* What the Jupiter and ANS plugins build on their caches: watchers, whose  *)
(* polls overlap and outlive them, and transferTokens, which resolves the   *)
(* name of the receiver and the symbol of the token, turns dollars into     *)
(* tokens and sends.  Everything shares one JupiterClient and one ANSClient.*)
(***************************************************************************)
EXTENDS PriceCache, NameCache, FiniteSets

CONSTANTS
  Watcher,    \* calls of watchTokenPrice and watchPortfolioValue
  Portfolio,  \* the watchers that are of watchPortfolioValue
  PollOf,     \* PollOf[w]: the calls of the client that are polls of w
  MintsOf,    \* MintsOf[w]: the mints w asks for
  Interval,   \* Interval[w]: its intervalMs
  Token,      \* the mint that a transfer sends and a price watcher watches
  MaxUses     \* bound: what the user of the plugins does in a run

ASSUME ClientsAssumption ==
  /\ Portfolio \subseteq Watcher
  /\ PollOf \in [Watcher -> SUBSET (Call \ Caller)]
  /\ \A v, w \in Watcher : v # w => PollOf[v] \cap PollOf[w] = {}
  /\ Caller \subseteq Call
  /\ MintsOf \in [Watcher -> Seq(Mint)]
  /\ \A w \in Watcher \ Portfolio : MintsOf[w] = <<Token>>
  /\ \A w \in Watcher : \A c \in PollOf[w] : Asks[c] = MintsOf[w]
  /\ \A t \in Caller : Asks[t] = <<Token>>
  /\ Interval \in [Watcher -> Nat \ {0}]
  /\ Token \in Mint
  /\ MaxUses \in Nat

\* How long it takes, at most, to fetch n prices and then their symbols.
FetchTime(n) == (1 + n) * MaxDelay

\* How long it takes a poll of w to call back.
PollTime(w) ==
  (IF w \in Portfolio THEN 2 * MaxDelay ELSE 0) + FetchTime(Len(MintsOf[w]))

\* PollOf is a bound: it is large enough for the polls that overlap.
ASSUME PollsAssumption ==
  \A w \in Watcher : Cardinality(PollOf[w]) * Interval[w] > PollTime(w)

VARIABLES
  watching,   \* watching[w]: "no", "yes" or "stopped"
  nextAt,     \* nextAt[w]: when its interval fires next, or None
  stoppedAt,  \* stoppedAt[w]: when it was stopped (history)
  toldAt,     \* toldAt[w]: when it was started or called back last (history)
  told,       \* told[w]: the last price it called back with (history)
  newest,     \* newest[w]: the newest price it ever called back with (history)
  stage,      \* stage[t]: where transfer t is
  price,      \* price[t]: the price it computes with, or None
  sentAt      \* sentAt[t]: when it sent, or None (history)

watchVars == <<watching, nextAt, stoppedAt, toldAt, told, newest>>
transferVars == <<stage, price, sentAt>>
vars == <<now, priceVars, nameVars, watchVars, transferVars>>

WatcherOf(c) == CHOOSE w \in Watcher : c \in PollOf[w]
Poll == UNION {PollOf[w] : w \in Watcher}

\* The polls of w that have not called back.
Busy(w) == {c \in PollOf[w] : pc[c] # "idle"}

Init ==
  /\ now = 0
  /\ PriceInit
  /\ NameInit
  /\ watching = [w \in Watcher |-> "no"]
  /\ nextAt = [w \in Watcher |-> None]
  /\ stoppedAt = [w \in Watcher |-> 0]
  /\ toldAt = [w \in Watcher |-> 0]
  /\ told = [w \in Watcher |-> None]
  /\ newest = [w \in Watcher |-> None]
  /\ stage = [t \in Caller |-> "idle"]
  /\ price = [t \in Caller |-> None]
  /\ sentAt = [t \in Caller |-> None]

\* The user starts watchers and transfers, stops watchers and clears caches.
Started == {w \in Watcher : watching[w] # "no"} \cup {t \in Caller : stage[t] # "idle"}
Cleared ==
  {k \in {"prices", "names"} :
     IF k = "prices" THEN clearedAt # None ELSE namesClearedAt # NoName}
Stopped == {w \in Watcher : watching[w] = "stopped"}
MayAct == Cardinality(Started) + Cardinality(Stopped) + Cardinality(Cleared) < MaxUses

-----------------------------------------------------------------------------
\* Watchers.

\* The poll of a portfolio reads the balances first.
StartPoll(w, c) ==
  /\ pc[c] = "idle"
  /\ IF w \in Portfolio
       THEN AwaitOther(c, "balance") /\ UNCHANGED cacheVars
       ELSE getTokenPrices(c)

\* watchTokenPrice, watchPortfolioValue: one poll at once, and the interval.
watch(w) ==
  /\ watching[w] = "no"
  /\ watching' = [watching EXCEPT ![w] = "yes"]
  /\ nextAt' = [nextAt EXCEPT ![w] = now + Interval[w]]
  /\ toldAt' = [toldAt EXCEPT ![w] = now]
  /\ \E c \in PollOf[w] : StartPoll(w, c)
  /\ UNCHANGED <<now, nameVars, stoppedAt, told, newest, transferVars>>

\* The interval fires, whether or not earlier polls are done.
IntervalFires(w) ==
  /\ nextAt[w] = now
  /\ nextAt' = [nextAt EXCEPT ![w] = now + Interval[w]]
  /\ \E c \in PollOf[w] : StartPoll(w, c)
  /\ UNCHANGED <<now, nameVars, watching, stoppedAt, toldAt, told, newest, transferVars>>

\* The interval is not cleared (mutant of stop).
stopUncleared(w) ==
  /\ watching[w] = "yes"
  /\ watching' = [watching EXCEPT ![w] = "stopped"]
  /\ stoppedAt' = [stoppedAt EXCEPT ![w] = now]
  /\ UNCHANGED <<now, priceVars, nameVars, nextAt, toldAt, told, newest, transferVars>>

\* The function that the watcher returned clears the interval, and that is all.
stop(w) ==
  /\ watching[w] = "yes"
  /\ watching' = [watching EXCEPT ![w] = "stopped"]
  /\ nextAt' = [nextAt EXCEPT ![w] = None]
  /\ stoppedAt' = [stoppedAt EXCEPT ![w] = now]
  /\ UNCHANGED <<now, priceVars, nameVars, toldAt, told, newest, transferVars>>

\* The balance of the portfolio arrives; its token accounts are asked for.
BalanceRead(c) ==
  /\ pc[c] = "balance"
  /\ AwaitOther(c, "accounts")
  /\ UNCHANGED <<now, cacheVars, nameVars, watchVars, transferVars>>

\* They arrive; the prices are asked for.
AccountsRead(c) ==
  /\ pc[c] = "accounts"
  /\ getTokenPrices(c)
  /\ UNCHANGED <<now, nameVars, watchVars, transferVars>>

CallBack(c, value) ==
  LET w == WatcherOf(c)
  IN  /\ Return(c)
      /\ toldAt' = [toldAt EXCEPT ![w] = now]
      /\ told' = [told EXCEPT ![w] = IF value = None THEN @ ELSE value]
      /\ newest' = [newest EXCEPT ![w] =
                      IF value # None /\ (@ = None \/ @ < value) THEN value ELSE @]
      /\ UNCHANGED <<cacheVars, watching, nextAt, stoppedAt>>

\* Either request fails: the callback gets the error.
HoldingsFailed(c) ==
  /\ pc[c] \in {"balance", "accounts"}
  /\ CallBack(c, None)
  /\ UNCHANGED <<now, nameVars, transferVars>>

\* The poll calls back: with the price or an error, or with the value of those
\* tokens of the portfolio that have a price.  A callback that throws is called
\* again, with what it threw.
Report(c) ==
  /\ pc[c] = "priced"
  /\ c \in Poll
  /\ CallBack(c, IF WatcherOf(c) \in Portfolio THEN None ELSE result[c][Token])
  /\ UNCHANGED <<now, nameVars, transferVars>>

-----------------------------------------------------------------------------
\* transferTokens with a name, a symbol and an amount in dollars.

\* The wrapper of the ANS plugin resolves the receiver.
transferTokens(t) ==
  /\ stage[t] = "idle"
  /\ getAddressForANSName(t)
  /\ stage' = [stage EXCEPT ![t] = "name"]
  /\ UNCHANGED <<now, priceVars, watchVars, price, sentAt>>

\* The transferTokens it wraps: a symbol is resolved, a mint is not.
ReceiverResolved(t) ==
  /\ stage[t] = "name"
  /\ resolving[t] = "done"
  /\ \/ resolveTokenSymbol(t) /\ stage' = [stage EXCEPT ![t] = "token"]
     \/ getTokenPrices(t) /\ stage' = [stage EXCEPT ![t] = "price"]
  /\ UNCHANGED <<now, nameVars, watchVars, price, sentAt>>

TokenResolved(t) ==
  /\ stage[t] = "token"
  /\ pc[t] = "listed"
  /\ answer[t] # None
  /\ getTokenPrices(t)
  /\ stage' = [stage EXCEPT ![t] = "price"]
  /\ UNCHANGED <<now, nameVars, watchVars, price, sentAt>>

\* The price is there; the mint is read for its decimals.
Priced(t) ==
  /\ stage[t] = "price"
  /\ pc[t] = "priced"
  /\ result[t][Token] # None
  /\ stage' = [stage EXCEPT ![t] = "mint"]
  /\ price' = [price EXCEPT ![t] = result[t][Token]]
  /\ AwaitOther(t, "mint")
  /\ UNCHANGED <<now, cacheVars, nameVars, watchVars, sentAt>>

\* The amount is computed from the price it has, and sent to the owner it has.
MintRead(t) ==
  /\ stage[t] = "mint"
  /\ stage' = [stage EXCEPT ![t] = "sent"]
  /\ sentAt' = [sentAt EXCEPT ![t] = now]
  /\ Return(t)
  /\ UNCHANGED <<now, cacheVars, nameVars, watchVars, price>>

MintFailed(t) ==
  /\ stage[t] = "mint"
  /\ stage' = [stage EXCEPT ![t] = "rejected"]
  /\ Return(t)
  /\ UNCHANGED <<now, cacheVars, nameVars, watchVars, price, sentAt>>

\* The receiver, the token or its price is not found: an error.
TransferRejected(t) ==
  /\ \/ stage[t] = "name" /\ resolving[t] = "failed"
     \/ stage[t] = "token" /\ pc[t] = "listed" /\ answer[t] = None
     \/ stage[t] = "price" /\ pc[t] = "priced" /\ result[t][Token] = None
  /\ stage' = [stage EXCEPT ![t] = "rejected"]
  /\ Return(t)
  /\ UNCHANGED <<now, cacheVars, nameVars, watchVars, price, sentAt>>

-----------------------------------------------------------------------------
\* What the code does without waiting.
Continue(c) ==
  \/ Go(c) /\ UNCHANGED <<now, nameVars, watchVars, transferVars>>
  \/ Report(c)

TransferContinue(t) ==
  ReceiverResolved(t) \/ TokenResolved(t) \/ Priced(t) \/ TransferRejected(t)

\* What is answered, or fails.
Answered(c) ==
  \/ Respond(c) /\ UNCHANGED <<now, nameVars, watchVars, transferVars>>
  \/ BalanceRead(c) \/ AccountsRead(c) \/ HoldingsFailed(c)

TransferAnswered(t) ==
  \/ NameAnswered(t) /\ UNCHANGED <<now, priceVars, watchVars, transferVars>>
  \/ NameFailed(t) /\ UNCHANGED <<now, priceVars, watchVars, transferVars>>
  \/ MintRead(t) \/ MintFailed(t)

Clear ==
  \/ clearCache /\ UNCHANGED <<now, nameVars, watchVars, transferVars>>
  \/ clearNames /\ UNCHANGED <<now, priceVars, watchVars, transferVars>>

\* What the user does.
Use ==
  \/ \E w \in Watcher : watch(w) \/ stop(w)
  \/ \E t \in Caller : transferTokens(t)
  \/ Clear

\* Time begins with the first use.
Tick ==
  /\ Advance
  /\ Started # {}
  /\ CallsAllowTime
  /\ NamesAllowTime
  /\ \A w \in Watcher : nextAt[w] # now
  /\ UNCHANGED <<priceVars, nameVars, watchVars, transferVars>>

\* One turn of the event loop at a time.
AllQuiet == Quiet /\ \A t \in Caller : stage[t] = "name" => resolving[t] = "asked"

Next ==
  \/ \E c \in Call : Continue(c)
  \/ \E t \in Caller : TransferContinue(t)
  \/ /\ AllQuiet
     /\ \/ MayAct /\ Use
        \/ \E w \in Watcher : IntervalFires(w)
        \/ \E c \in Call : Answered(c)
        \/ \E t \in Caller : TransferAnswered(t)
        \/ Tick

Spec == Init /\ [][Next]_vars

-----------------------------------------------------------------------------
\* Type invariant.
TypeOK ==
  /\ now \in Instant
  /\ priceCache \in [Mint -> Entry \cup {None}]
  /\ symbolCache \subseteq Mint
  /\ listExpiry \in Nat \cup {None}
  /\ symbolToMint \in Instant \cup {None}
  /\ pc \in [Call -> Waiting \cup Running \cup {"idle"}]
  /\ since \in [Call -> Instant]
  /\ \A c \in Call : /\ todo[c] \subseteq DOMAIN Asks[c]
                     /\ pc[c] \in {"fetching", "storing", "naming"} => todo[c] # {}
  /\ answer \in [Call -> Instant \cup {None}]
  /\ result \in [Call -> [Mint -> Instant \cup {None}]]
  /\ forwardCache \in Entry \cup {NoName}
  /\ resolving \in [Caller -> {"no", "asked", "done", "failed"}]
  /\ owner \in [Caller -> Instant \cup {NoName}]
  /\ watching \in [Watcher -> {"no", "yes", "stopped"}]
  /\ nextAt \in [Watcher -> Nat \cup {None}]
  /\ stoppedAt \in [Watcher -> Instant]
  /\ stage \in [Caller -> {"idle", "name", "token", "price", "mint", "sent", "rejected"}]
  /\ \A t \in Caller : sentAt[t] # None <=> stage[t] = "sent"

\* How many mints a call asks for at most, and the longest a price is on its way
\* into the cache.
Lengths == {Len(Asks[c]) : c \in Call} \cup {1}
ASSUME LengthsAssumption == \E n \in Lengths : \A k \in Lengths : k <= n
LongestFetch == FetchTime(CHOOSE n \in Lengths : \A k \in Lengths : k <= n)

\* A price that the cache serves was true at most cacheTimeMs and one fetch ago,
\* whatever overlapped (expiresAt counts from after the symbols were fetched,
\* jupiter.ts:149-157).  A transfer in dollars is computed from such a price,
\* read before its mint, and goes to who owned the name at most the cache time
\* of the ANS plugin and the five requests of a transfer before it was sent.
WhatIsUsedIsRecent ==
  /\ \A m \in Mint :
       Servable(m) => now - priceCache[m].sampled <= CacheTime + LongestFetch
  /\ \A t \in Caller :
       sentAt[t] # None =>
         /\ sentAt[t] - price[t] <= CacheTime + LongestFetch + MaxDelay
         /\ sentAt[t] - owner[t] <= NameTime + 5 * MaxDelay

\* Responses overtake each other and an older price replaces a newer one
\* (jupiter.ts:144-157), but a watcher of a token is never told a price that is
\* older than one it was told before by more than a fetch takes.
PricesGoBackOneFetch ==
  \A w \in Watcher \ Portfolio :
    told[w] # None => newest[w] - told[w] <= LongestFetch

\* clearCache of both clients: what the caches hold afterwards is no older than
\* the requests that were under way when they were cleared.
ClearedIsGone ==
  /\ clearedAt # None =>
       /\ \A m \in Mint :
            priceCache[m] # None => clearedAt - priceCache[m].sampled <= LongestFetch
       /\ symbolToMint # None => clearedAt - symbolToMint <= MaxDelay
  /\ namesClearedAt # NoName /\ forwardCache # NoName =>
       namesClearedAt - forwardCache.sampled <= MaxDelay

\* A watcher that is not stopped calls back, with a price or an error, at least
\* once in an interval and the time of a poll, however its polls overlap; one
\* that is stopped falls silent when the polls under way are done.
WatchersCallBack ==
  \A w \in Watcher :
    /\ watching[w] = "yes" => now - toldAt[w] <= Interval[w] + PollTime(w)
    /\ watching[w] = "stopped" => toldAt[w] - stoppedAt[w] <= PollTime(w)
=============================================================================
