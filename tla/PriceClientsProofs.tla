-------------------------- MODULE PriceClientsProofs --------------------------
(***************************************************************************)
(* Theorems about PriceClients, for any delays, cache times, intervals,     *)
(* mints, watchers and transfers: how old what is cached, told and used can *)
(* be.                                                                      *)
(***************************************************************************)
EXTENDS PriceClients, TLAPS, WellFoundedInduction

-----------------------------------------------------------------------------
\* The time that k requests, one after the other, take at most.
Span(k) == k * MaxDelay

LEMMA SpanFacts ==
  /\ Span(0) = 0 /\ Span(1) = MaxDelay /\ MaxDelay \in Nat
  /\ \A k \in Nat : Span(k) \in Nat /\ Span(k + 1) = Span(k) + MaxDelay
  /\ \A j, k \in Nat : j <= k => Span(j) <= Span(k)
<1>1. MaxDelay \in Nat
  BY ClockAssumption
<1>2. ASSUME NEW j \in Nat, NEW k \in Nat, j <= k
      PROVE  j * MaxDelay <= k * MaxDelay
  BY <1>1, <1>2, SMT
<1>3. ASSUME NEW k \in Nat
      PROVE  k * MaxDelay \in Nat /\ (k + 1) * MaxDelay = k * MaxDelay + MaxDelay
  BY <1>1, SMT
<1> QED BY <1>1, <1>2, <1>3 DEF Span

LEMMA SpanBetween ==
  ASSUME NEW k \in Nat, NEW n \in Nat, 1 <= k, k <= n
  PROVE  /\ Span(k) \in Nat /\ MaxDelay \in Nat /\ Span(k + 1) = Span(k) + MaxDelay
         /\ Span(k + 1) <= Span(n + 1) /\ Span(n + 1) \in Nat
         /\ MaxDelay <= Span(k)
<1> DEFINE k1 == k + 1
           n1 == n + 1
<1>1. k1 \in Nat /\ n1 \in Nat /\ k1 <= n1
  OBVIOUS
<1>2. Span(k1) = Span(k) + MaxDelay
  BY SpanFacts
<1> HIDE DEF k1, n1
<1>3. Span(k) \in Nat /\ Span(n1) \in Nat /\ Span(k1) <= Span(n1)
  BY <1>1, SpanFacts
<1>4. Span(1) <= Span(k) /\ Span(1) = MaxDelay
  BY SpanFacts
<1> QED BY <1>2, <1>3, <1>4, SpanFacts DEF k1, n1

LEMMA LongestFacts ==
  /\ LongestFetch \in Nat
  /\ Span(2) <= LongestFetch
  /\ \A c \in Call : Len(Asks[c]) \in Nat /\ Span(Len(Asks[c]) + 1) <= LongestFetch
<1> DEFINE n == CHOOSE i \in Lengths : \A k \in Lengths : k <= i
<1>1. n \in Lengths /\ \A k \in Lengths : k <= n
  BY LengthsAssumption
<1>2. \A c \in Call : Len(Asks[c]) \in Nat
  BY PriceCacheAssumption
<1>3. Lengths \subseteq Nat
  BY <1>2 DEF Lengths
<1> HIDE DEF n
<1>4. LongestFetch = Span(n + 1)
  <2>1. LongestFetch = (1 + n) * MaxDelay
    BY DEF LongestFetch, FetchTime, n
  <2>2. 1 + n = n + 1
    BY <1>1, <1>3
  <2> QED BY <2>1, <2>2 DEF Span
<1>5. \A k \in Lengths : Span(k + 1) <= Span(n + 1)
  BY <1>1, <1>3, SpanFacts
<1>6. 1 \in Lengths /\ \A c \in Call : Len(Asks[c]) \in Lengths
  BY DEF Lengths
<1>7. Span(n + 1) \in Nat
  BY <1>1, <1>3, SpanFacts
<1>8. Span(1 + 1) = Span(2)
  BY DEF Span
<1> QED BY <1>2, <1>4, <1>5, <1>6, <1>7, <1>8

\* A set of natural numbers that is not empty has a least one.
LEMMA LeastOfNat ==
  ASSUME NEW T, T \subseteq Nat, T # {}
  PROVE  \E i \in T : \A j \in T : i <= j
<1> DEFINE R == OpToRel(<, Nat)
<1>1. IsWellFoundedOn(R, Nat)
  BY NatLessThanWellFounded
<1>2. \A i, j \in Nat : <<j, i>> \in R <=> j < i
  BY DEF OpToRel
<1> HIDE DEF R
<1>3. PICK i \in T : \A j \in T : ~(<<j, i>> \in R)
  BY <1>1, WFMin
<1>4. \A j \in T : i \in Nat /\ j \in Nat /\ ~(j < i)
  BY <1>2, <1>3
<1> QED BY <1>4

-----------------------------------------------------------------------------
\* The price cache and its calls.

Fetching == {"fetching", "storing", "naming"}

PriceTypes ==
  /\ now \in Instant
  /\ priceCache \in [Mint -> Entry \cup {None}]
  /\ symbolCache \subseteq Mint
  /\ listExpiry \in Nat \cup {None}
  /\ symbolToMint \in Instant \cup {None}
  /\ clearedAt \in Instant \cup {None}
  /\ pc \in [Call -> Waiting \cup Running \cup {"idle"}]
  /\ since \in [Call -> Instant]
  /\ todo \in [Call -> SUBSET Nat]
  /\ answer \in [Call -> Instant \cup {None}]
  /\ result \in [Call -> [Mint -> Instant \cup {None}]]

\* An entry was true when it was sampled, and expires one fetch and CacheTime
\* afterwards at the latest; one that a cleared cache holds was on its way.
EntryInv(m) ==
  priceCache[m] # None =>
    /\ priceCache[m].sampled <= now
    /\ priceCache[m].expiresAt <= priceCache[m].sampled + CacheTime + LongestFetch
    /\ clearedAt # None => clearedAt - priceCache[m].sampled <= LongestFetch

\* What a call has fetched is as old as the requests it has made since.
FetchInv(c) ==
  /\ todo[c] \subseteq 1 .. Len(Asks[c])
  /\ pc[c] \in Waiting => since[c] <= now /\ now <= since[c] + MaxDelay
  /\ pc[c] \in Fetching => todo[c] # {}
  /\ pc[c] = "storing" =>
       answer[c] \in Instant /\ answer[c] <= now /\ now - answer[c] <= Span(First(c))
  /\ pc[c] = "naming" =>
       answer[c] \in Instant /\ answer[c] <= since[c] /\ since[c] - answer[c] <= Span(First(c))

\* A call that asks for one price has none before it has fetched it, and goes on
\* with the one that is cached.
ResultInv(c) ==
  Len(Asks[c]) = 1 =>
    /\ pc[c] \in Fetching => \A m \in Mint : result[c][m] = None
    /\ pc[c] = "priced" => \A m \in Mint : result[c][m] # None =>
         Servable(m) /\ priceCache[m].sampled = result[c][m]

ClearInv ==
  /\ clearedAt # None => clearedAt <= now
  /\ symbolToMint # None => symbolToMint <= now
  /\ clearedAt # None /\ symbolToMint # None => clearedAt - symbolToMint <= MaxDelay

PriceInv ==
  /\ PriceTypes
  /\ \A m \in Mint : EntryInv(m)
  /\ \A c \in Call : FetchInv(c) /\ ResultInv(c)
  /\ ClearInv

\* What a step does to the cache: entries go, or come from a fetch.
CacheMoves ==
  \A m \in Mint : priceCache'[m] # None =>
    \/ priceCache'[m] = priceCache[m]
    \/ priceCache'[m].sampled \in Instant /\ now - priceCache'[m].sampled <= LongestFetch

\* A step of call c touches no other call.
OthersStay(c) ==
  \A d \in Call \ {c} :
    /\ pc'[d] = pc[d] /\ since'[d] = since[d] /\ todo'[d] = todo[d]
    /\ answer'[d] = answer[d] /\ result'[d] = result[d]

OthersWait(c) == \A d \in Call \ {c} : pc[d] \notin Running

\* A step of a call keeps the invariant if it does so for the call.
LEMMA CallStepKeepsPrices ==
  ASSUME PriceInv, NEW c \in Call, now' = now, OthersStay(c), OthersWait(c),
         PriceTypes', ClearInv', \A m \in Mint : EntryInv(m)', FetchInv(c)', ResultInv(c)'
  PROVE  PriceInv'
<1>1. ASSUME NEW d \in Call \ {c}
      PROVE  FetchInv(d)'
  <2>1. First(d)' = First(d)
    BY DEF First, OthersStay
  <2> QED BY <2>1 DEF PriceInv, FetchInv, OthersStay
<1>2. ASSUME NEW d \in Call \ {c}
      PROVE  ResultInv(d)'
  BY DEF PriceInv, ResultInv, OthersStay, OthersWait, Running
<1> QED BY <1>1, <1>2 DEF PriceInv

\* The cache is as it was.
LEMMA SameCache ==
  ASSUME PriceInv, now' = now, UNCHANGED cacheVars
  PROVE  ClearInv' /\ (\A m \in Mint : EntryInv(m)' /\ Servable(m)' = Servable(m)) /\ CacheMoves
  BY DEF PriceInv, ClearInv, EntryInv, CacheMoves, cacheVars, Servable

\* Where a call is that has mints left.
LEMMA FirstOf ==
  ASSUME PriceInv, NEW c \in Call, pc[c] \in Fetching
  PROVE  /\ First(c) \in todo[c] /\ \A j \in todo[c] : First(c) <= j
         /\ First(c) \in Nat /\ 1 <= First(c) /\ First(c) <= Len(Asks[c])
         /\ Len(Asks[c]) \in Nat
         /\ NextMint(c) \in Mint
         /\ Span(First(c)) \in Nat /\ Span(First(c) + 1) = Span(First(c)) + MaxDelay
         /\ Span(First(c) + 1) <= LongestFetch /\ MaxDelay <= Span(First(c))
<1>1. todo[c] # {} /\ todo[c] \subseteq 1 .. Len(Asks[c]) /\ todo[c] \subseteq Nat
  BY DEF PriceInv, FetchInv, PriceTypes
<1>2. \E i \in todo[c] : \A j \in todo[c] : i <= j
  BY <1>1, LeastOfNat
<1> DEFINE k == First(c)
           n == Len(Asks[c])
<1>3. k \in todo[c] /\ \A j \in todo[c] : k <= j
  BY <1>2 DEF First
<1> HIDE DEF k, n
<1>4. n \in Nat /\ Span(n + 1) <= LongestFetch
  BY LongestFacts DEF n
<1>5. k \in 1 .. n
  BY <1>1, <1>3 DEF n
<1>6. k \in Nat /\ 1 <= k /\ k <= n
  BY <1>4, <1>5
<1>7. NextMint(c) \in Mint
  BY <1>5, PriceCacheAssumption DEF NextMint, MintAt, k, n
<1>8. Span(k) \in Nat /\ MaxDelay \in Nat /\ Span(k + 1) = Span(k) + MaxDelay
      /\ Span(k + 1) <= Span(n + 1) /\ Span(n + 1) \in Nat /\ MaxDelay <= Span(k)
  BY <1>4, <1>6, SpanBetween
<1>9. Span(k + 1) <= LongestFetch
  BY <1>4, <1>8, LongestFacts
<1> QED BY <1>3, <1>4, <1>6, <1>7, <1>8, <1>9 DEF k, n

\* getTokenPrices up to its request.
LEMMA AskKeepsPrices ==
  ASSUME PriceInv, NEW c \in Call, now' = now, OthersWait(c), getTokenPrices(c)
  PROVE  PriceInv' /\ CacheMoves /\ OthersStay(c)
<1> USE DEF PriceInv, PriceTypes
<1>1. Asks[c] \in Seq(Mint) /\ DOMAIN Asks[c] = 1 .. Len(Asks[c]) /\ Len(Asks[c]) \in Nat
  BY PriceCacheAssumption
<1>2. Missing(c) \subseteq 1 .. Len(Asks[c]) /\ Missing(c) \in SUBSET Nat
  BY <1>1 DEF Missing
<1>3. Found(c) \in [Mint -> Instant \cup {None}]
  BY DEF Found, Servable, Entry
<1>4. OthersStay(c)
  BY DEF getTokenPrices, OthersStay
<1>5. \A m \in Mint : priceCache'[m] = priceCache[m] \/ priceCache'[m] = None
  BY DEF getTokenPrices
<1>6. PriceTypes'
  BY <1>2, <1>3 DEF getTokenPrices, Waiting, Running
<1>7. CacheMoves /\ ClearInv' /\ \A m \in Mint : EntryInv(m)'
  BY <1>5 DEF getTokenPrices, CacheMoves, ClearInv, EntryInv
<1>8. FetchInv(c)'
  BY <1>2, ClockAssumption DEF getTokenPrices, FetchInv, Fetching, Waiting, Other, Instant
<1>9. ResultInv(c)'
  <2> SUFFICES ASSUME Len(Asks[c]) = 1
               PROVE  ResultInv(c)'
    BY DEF ResultInv
  <2>1. CASE Missing(c) = {}
    <3>1. priceCache' = priceCache
      BY <2>1 DEF getTokenPrices
    <3>2. pc'[c] = "priced" /\ result'[c] = Found(c)
      BY <2>1 DEF getTokenPrices
    <3> QED BY <3>1, <3>2 DEF ResultInv, Found, Servable, Fetching
  <2>2. CASE Missing(c) # {}
    <3>1. DOMAIN Asks[c] = {1}
      BY <1>1
    <3>2. Missing(c) = {1} /\ ~ Servable(Asks[c][1])
      BY <2>2, <3>1 DEF Missing
    <3>3. \A m \in Mint : Found(c)[m] = None
      BY <3>1, <3>2 DEF Found, MintAt
    <3>4. pc'[c] = "fetching" /\ result'[c] = Found(c)
      BY <2>2 DEF getTokenPrices
    <3> QED BY <3>3, <3>4 DEF ResultInv
  <2> QED BY <2>1, <2>2
<1> QED BY <1>4, <1>6, <1>7, <1>8, <1>9, CallStepKeepsPrices

\* The response to it, or a failure.
LEMMA FetchKeepsPrices ==
  ASSUME PriceInv, NEW c \in Call, now' = now, OthersWait(c),
         PricesAnswered(c) \/ PricesFailed(c)
  PROVE  PriceInv' /\ CacheMoves /\ OthersStay(c)
<1> USE DEF PriceTypes
<1>0. PriceTypes /\ FetchInv(c) /\ ResultInv(c) /\ pc[c] = "fetching"
  BY DEF PriceInv, PricesAnswered, PricesFailed
<1>1. UNCHANGED cacheVars /\ since' = since /\ result' = result
  BY DEF PricesAnswered, PricesFailed, priceVars
<1>2. CacheMoves /\ ClearInv' /\ \A m \in Mint : EntryInv(m)' /\ Servable(m)' = Servable(m)
  BY <1>1, SameCache
<1>3. CASE PricesAnswered(c)
  <2>1. PICK t \in since[c] .. now, priced \in SUBSET {MintAt(c, i) : i \in todo[c]} :
          LET rest == {i \in todo[c] : MintAt(c, i) \in priced}
          IN  /\ answer' = [answer EXCEPT ![c] = t]
              /\ todo' = [todo EXCEPT ![c] = rest]
              /\ pc' = [pc EXCEPT ![c] = IF rest = {} THEN "priced" ELSE "storing"]
    BY <1>3 DEF PricesAnswered
  <2> DEFINE rest == {i \in todo[c] : MintAt(c, i) \in priced}
  <2>2. rest \subseteq todo[c]
    OBVIOUS
  <2>3. /\ answer' = [answer EXCEPT ![c] = t]
        /\ todo' = [todo EXCEPT ![c] = rest]
        /\ pc' = [pc EXCEPT ![c] = IF rest = {} THEN "priced" ELSE "storing"]
    BY <2>1
  <2> HIDE DEF rest
  <2>4. since[c] <= now /\ now <= since[c] + MaxDelay /\ since[c] \in Instant
    BY <1>0 DEF FetchInv, Waiting
  <2>5. t \in Instant /\ t <= now /\ now - t <= MaxDelay
    BY <1>0, <2>4, ClockAssumption DEF Instant
  <2>6. OthersStay(c)
    BY <1>0, <1>1, <2>3 DEF OthersStay
  <2>7. PriceTypes'
    BY <1>0, <1>1, <2>2, <2>3, <2>5 DEF cacheVars, Running
  <2>8. FetchInv(c)'
    <3>1. todo'[c] = rest /\ rest \subseteq 1 .. Len(Asks[c])
      BY <1>0, <2>2, <2>3 DEF FetchInv
    <3>2. CASE rest = {}
      BY <1>0, <2>3, <3>1, <3>2 DEF FetchInv, Fetching, Waiting, Other
    <3>3. CASE rest # {}
      <4>1. pc'[c] = "storing" /\ answer'[c] = t
        BY <1>0, <2>3, <3>3
      <4> DEFINE k == First(c)'
      <4>2. k \in rest
        <5>1. rest \subseteq Nat
          BY <1>0, <2>2
        <5>2. \E i \in rest : \A j \in rest : i <= j
          BY <5>1, <3>3, LeastOfNat
        <5> QED BY <5>2, <3>1 DEF First
      <4>3. MaxDelay <= Span(k) /\ MaxDelay \in Nat /\ Span(k) \in Nat
        <5> HIDE DEF k
        <5>1. Len(Asks[c]) \in Nat
          BY LongestFacts
        <5>2. k \in Nat /\ 1 <= k /\ k <= k
          BY <3>1, <4>2, <5>1
        <5> QED BY <5>2, SpanBetween
      <4>4. now' - answer'[c] <= Span(k)
        <5> HIDE DEF k
        <5> QED BY <2>5, <4>1, <4>3, <1>0 DEF Instant
      <4> QED BY <2>5, <3>1, <3>3, <4>1, <4>4 DEF FetchInv, Fetching, Waiting, Other
    <3> QED BY <3>2, <3>3
  <2>9. ResultInv(c)'
    BY <1>0, <1>1, <2>3 DEF ResultInv, Fetching
  <2> QED BY <1>2, <2>6, <2>7, <2>8, <2>9, CallStepKeepsPrices
<1>4. CASE PricesFailed(c)
  <2>1. OthersStay(c) /\ PriceTypes'
    BY <1>0, <1>4 DEF PricesFailed, OthersStay, cacheVars, Running
  <2>2. FetchInv(c)' /\ ResultInv(c)'
    BY <1>0, <1>4 DEF PricesFailed, FetchInv, ResultInv, Fetching, Waiting, Other
  <2> QED BY <1>2, <2>1, <2>2, CallStepKeepsPrices
<1> QED BY <1>3, <1>4

\* setCachedPrice stores a price that is at most one fetch old.
LEMMA StoredKeepsPrices ==
  ASSUME PriceInv, NEW c \in Call, now' = now, OthersWait(c), since' = since,
         pc[c] \in {"storing", "naming"}, symbolCache' \subseteq Mint, Stored(c)
  PROVE  PriceInv' /\ CacheMoves /\ OthersStay(c)
<1> DEFINE m == NextMint(c)
           k == First(c)
           rest == todo[c] \ {k}
<1> USE DEF PriceTypes
<1>0. PriceTypes /\ FetchInv(c) /\ ResultInv(c) /\ ClearInv
  BY DEF PriceInv
<1>1. /\ k \in todo[c] /\ \A j \in todo[c] : k <= j
      /\ k \in Nat /\ 1 <= k /\ k <= Len(Asks[c]) /\ Len(Asks[c]) \in Nat
      /\ m \in Mint
      /\ Span(k) \in Nat /\ Span(k + 1) = Span(k) + MaxDelay
      /\ Span(k + 1) <= LongestFetch
  BY FirstOf DEF Fetching
<1>2. /\ priceCache' = [priceCache EXCEPT ![m] =
                          [sampled |-> answer[c], expiresAt |-> now + CacheTime]]
      /\ result' = [result EXCEPT ![c][m] = answer[c]]
      /\ todo' = [todo EXCEPT ![c] = rest]
      /\ pc' = [pc EXCEPT ![c] = IF rest = {} THEN "priced" ELSE "storing"]
      /\ UNCHANGED <<listExpiry, symbolToMint, clearedAt, answer>>
  BY DEF Stored
<1>3. LongestFetch \in Nat /\ MaxDelay \in Nat /\ CacheTime \in Nat /\ now \in Nat
  BY <1>0, LongestFacts, ClockAssumption, PriceCacheAssumption DEF Instant
<1>4. rest \subseteq todo[c] /\ rest \subseteq Nat /\ \A j \in rest : k + 1 <= j
  BY <1>0, <1>1
<1> HIDE DEF m, k, rest
<1>5. answer[c] \in Instant /\ answer[c] <= now /\ now - answer[c] <= Span(k + 1)
  <2>1. CASE pc[c] = "storing"
    BY <1>0, <1>1, <1>3, <2>1 DEF FetchInv, Instant, k
  <2>2. CASE pc[c] = "naming"
    <3>1. answer[c] \in Instant /\ answer[c] <= since[c] /\ since[c] - answer[c] <= Span(k)
      BY <1>0, <2>2 DEF FetchInv, k
    <3>2. since[c] <= now /\ now <= since[c] + MaxDelay /\ since[c] \in Instant
      BY <1>0, <2>2 DEF FetchInv, Waiting
    <3> QED BY <1>1, <1>3, <3>1, <3>2 DEF Instant
  <2> QED BY <2>1, <2>2
<1>6. now - answer[c] <= LongestFetch /\ answer[c] \in Nat
  BY <1>1, <1>3, <1>5 DEF Instant
<1>7. OthersStay(c)
  BY <1>0, <1>2 DEF OthersStay
<1>8. PriceTypes'
  <2>1. priceCache' \in [Mint -> Entry \cup {None}]
    BY <1>0, <1>1, <1>2, <1>3, <1>5 DEF Entry
  <2>2. result' \in [Call -> [Mint -> Instant \cup {None}]]
    BY <1>0, <1>1, <1>2, <1>5
  <2>3. pc' \in [Call -> Waiting \cup Running \cup {"idle"}]
    BY <1>0, <1>2 DEF Running
  <2>4. todo' \in [Call -> SUBSET Nat]
    BY <1>0, <1>2, <1>4
  <2> QED BY <1>0, <1>2, <2>1, <2>2, <2>3, <2>4
<1>9. \A n \in Mint : EntryInv(n)'
  <2> SUFFICES ASSUME NEW n \in Mint
               PROVE  EntryInv(n)'
    OBVIOUS
  <2>1. CASE n = m
    <3>1. priceCache'[n] = [sampled |-> answer[c], expiresAt |-> now + CacheTime]
      BY <1>0, <1>2, <2>1
    <3>2. clearedAt # None => clearedAt \in Nat /\ clearedAt <= now
      BY <1>0 DEF ClearInv, Instant
    <3> QED BY <1>2, <1>3, <1>5, <1>6, <3>1, <3>2 DEF EntryInv
  <2>2. CASE n # m
    BY <1>0, <1>2, <2>2 DEF EntryInv, PriceInv
  <2> QED BY <2>1, <2>2
<1>10. CacheMoves
  BY <1>0, <1>2, <1>5, <1>6 DEF CacheMoves
<1>11. ClearInv'
  BY <1>0, <1>2 DEF ClearInv
<1>12. FetchInv(c)'
  <2>1. todo'[c] = rest /\ rest \subseteq 1 .. Len(Asks[c])
    BY <1>0, <1>2, <1>4 DEF FetchInv
  <2>2. CASE rest = {}
    BY <1>0, <1>2, <2>1, <2>2 DEF FetchInv, Fetching, Waiting, Other
  <2>3. CASE rest # {}
    <3>1. pc'[c] = "storing" /\ answer'[c] = answer[c]
      BY <1>0, <1>2, <2>3
    <3> DEFINE i == First(c)'
    <3>2. i \in rest
      <4>1. \E h \in rest : \A j \in rest : h <= j
        BY <1>4, <2>3, LeastOfNat
      <4> QED BY <4>1, <2>1 DEF First
    <3> HIDE DEF i
    <3>3. Span(k + 1) <= Span(i) /\ Span(i) \in Nat /\ Span(k + 1) \in Nat
      <4> DEFINE h == k + 1
      <4>1. h \in Nat /\ i \in Nat /\ h <= i
        BY <1>1, <1>4, <3>2
      <4> HIDE DEF h
      <4>2. Span(h) <= Span(i) /\ Span(i) \in Nat /\ Span(h) \in Nat
        BY <4>1, SpanFacts
      <4> QED BY <4>2 DEF h
    <3>4. now' - answer'[c] <= Span(i)
      BY <1>3, <1>5, <1>6, <3>1, <3>3
    <3> QED BY <1>5, <2>1, <2>3, <3>1, <3>4 DEF FetchInv, Fetching, Waiting, Other, i
  <2> QED BY <2>2, <2>3
<1>13. ResultInv(c)'
  <2> SUFFICES ASSUME Len(Asks[c]) = 1
               PROVE  ResultInv(c)'
    BY DEF ResultInv
  <2>1. rest = {}
    <3>1. todo[c] \subseteq {1}
      BY <1>0 DEF FetchInv
    <3> QED BY <1>1, <3>1 DEF rest
  <2>2. pc'[c] = "priced"
    BY <1>0, <1>2, <2>1
  <2>3. \A n \in Mint : result[c][n] = None
    BY <1>0 DEF ResultInv, Fetching
  <2>4. \A n \in Mint : result'[c][n] # None => n = m
    BY <1>0, <1>2, <2>3
  <2>5. result'[c][m] = answer[c] /\ priceCache'[m].sampled = answer[c]
        /\ priceCache'[m].expiresAt = now + CacheTime /\ priceCache'[m] # None
    <3>1. [sampled |-> answer[c], expiresAt |-> now + CacheTime] \in Entry
      BY <1>3, <1>5 DEF Entry
    <3>2. None \notin Entry
      BY PriceCacheAssumption DEF Entry, Instant
    <3> QED BY <1>0, <1>1, <1>2, <3>1, <3>2
  <2>6. ASSUME NEW n \in Mint, result'[c][n] # None
        PROVE  Servable(n)' /\ priceCache'[n].sampled = result'[c][n]
    <3>1. n = m
      BY <2>4, <2>6
    <3> QED BY <1>3, <2>5, <3>1 DEF Servable
  <2> QED BY <2>2, <2>6 DEF ResultInv, Fetching
<1> QED BY <1>7, <1>8, <1>9, <1>10, <1>11, <1>12, <1>13, CallStepKeepsPrices

\* getTokenSymbol up to its request.
LEMMA AskSymbolKeepsPrices ==
  ASSUME PriceInv, NEW c \in Call, now' = now, OthersWait(c), AskSymbol(c)
  PROVE  PriceInv' /\ CacheMoves /\ OthersStay(c)
<1> USE DEF PriceTypes
<1>0. PriceTypes /\ FetchInv(c) /\ ResultInv(c) /\ pc[c] = "storing"
  BY DEF PriceInv, AskSymbol
<1>1. /\ UNCHANGED cacheVars /\ todo' = todo /\ answer' = answer /\ result' = result
      /\ pc' = [pc EXCEPT ![c] = "naming"] /\ since' = [since EXCEPT ![c] = now]
  BY DEF AskSymbol
<1>2. CacheMoves /\ ClearInv' /\ \A m \in Mint : EntryInv(m)'
  BY <1>1, SameCache
<1>3. OthersStay(c) /\ PriceTypes'
  BY <1>0, <1>1 DEF OthersStay, cacheVars, Waiting
<1>4. First(c)' = First(c)
  BY <1>1 DEF First
<1>5. FetchInv(c)'
  BY <1>0, <1>1, <1>4, ClockAssumption DEF FetchInv, Fetching, Waiting, Other, Instant
<1>6. ResultInv(c)'
  BY <1>0, <1>1 DEF ResultInv, Fetching
<1> QED BY <1>2, <1>3, <1>5, <1>6, CallStepKeepsPrices

\* resolveTokenSymbol, and the token list it asks for.
LEMMA ListKeepsPrices ==
  ASSUME PriceInv, NEW c \in Call, now' = now, OthersWait(c),
         resolveTokenSymbol(c) \/ ListAnswered(c) \/ ListFailed(c)
  PROVE  PriceInv' /\ CacheMoves /\ OthersStay(c)
<1> USE DEF PriceTypes
<1>0. PriceTypes /\ FetchInv(c) /\ ResultInv(c) /\ ClearInv
  BY DEF PriceInv
<1>1. UNCHANGED <<priceCache, symbolCache, clearedAt, todo, result>>
  BY DEF resolveTokenSymbol, ListAnswered, ListFailed, cacheVars
<1>2. CacheMoves /\ \A m \in Mint : EntryInv(m)' /\ Servable(m)' = Servable(m)
  BY <1>1 DEF CacheMoves, EntryInv, PriceInv, Servable
<1>3. CASE resolveTokenSymbol(c)
  <2>1. OthersStay(c) /\ PriceTypes' /\ ClearInv'
    BY <1>0, <1>1, <1>3 DEF OthersStay, cacheVars, resolveTokenSymbol, Waiting, Running, ClearInv
  <2>2. FetchInv(c)'
    <3>1. pc'[c] \in {"listing", "listed"} /\ since'[c] = now /\ todo'[c] = todo[c]
      BY <1>0, <1>1, <1>3 DEF resolveTokenSymbol
    <3> QED BY <1>0, <3>1, ClockAssumption DEF FetchInv, Fetching, Waiting, Other, Instant
  <2>3. ResultInv(c)'
    BY <1>0, <1>1, <1>3 DEF resolveTokenSymbol, ResultInv, Fetching
  <2> QED BY <1>2, <2>1, <2>2, <2>3, CallStepKeepsPrices
<1>4. CASE ListAnswered(c)
  <2>1. PICK t \in since[c] .. now :
          symbolToMint' \in {t, symbolToMint} /\ answer' = [answer EXCEPT ![c] = symbolToMint']
    BY <1>4 DEF ListAnswered
  <2>2. /\ pc[c] = "listing" /\ listExpiry' = now + ListTime
        /\ pc' = [pc EXCEPT ![c] = "listed"] /\ since' = since
    BY <1>4 DEF ListAnswered
  <2>3. since[c] <= now /\ now <= since[c] + MaxDelay /\ since[c] \in Instant
    BY <1>0, <2>2 DEF FetchInv, Waiting
  <2>4. t \in Instant /\ t <= now /\ now - t <= MaxDelay
    BY <1>0, <2>3, ClockAssumption DEF Instant
  <2>5. listExpiry' \in Nat
    BY <1>0, <2>2, PriceCacheAssumption DEF Instant
  <2>6. OthersStay(c) /\ PriceTypes'
    BY <1>0, <1>1, <2>1, <2>2, <2>4, <2>5 DEF OthersStay, Running
  <2>7. ClearInv'
    <3>1. clearedAt' = clearedAt /\ (clearedAt # None => clearedAt \in Nat /\ clearedAt <= now)
          /\ t \in Nat /\ now \in Nat /\ MaxDelay \in Nat
      BY <1>0, <1>1, <2>4, ClockAssumption DEF ClearInv, Instant
    <3>2. CASE symbolToMint' = t
      BY <2>4, <3>1, <3>2 DEF ClearInv
    <3>3. CASE symbolToMint' = symbolToMint
      BY <1>0, <3>1, <3>3 DEF ClearInv
    <3> QED BY <2>1, <3>2, <3>3
  <2>8. FetchInv(c)'
    BY <1>0, <1>1, <2>2 DEF FetchInv, Fetching, Waiting, Other
  <2>9. ResultInv(c)'
    BY <1>0, <1>1, <2>2 DEF ResultInv, Fetching
  <2> QED BY <1>2, <2>6, <2>7, <2>8, <2>9, CallStepKeepsPrices
<1>5. CASE ListFailed(c)
  <2>1. OthersStay(c) /\ PriceTypes' /\ ClearInv'
    BY <1>0, <1>1, <1>5 DEF OthersStay, cacheVars, ListFailed, Running, ClearInv
  <2>2. FetchInv(c)' /\ ResultInv(c)'
    BY <1>0, <1>1, <1>5 DEF ListFailed, FetchInv, ResultInv, Fetching, Waiting, Other
  <2> QED BY <1>2, <2>1, <2>2, CallStepKeepsPrices
<1> QED BY <1>3, <1>4, <1>5

\* Code that uses the client goes on to a request of its own, or is done.
LEMMA LeaveKeepsPrices ==
  ASSUME PriceInv, NEW c \in Call, now' = now, OthersWait(c), UNCHANGED cacheVars,
         NEW next \in Other \cup {"idle"}, NEW at \in Instant, next \in Other => at = now,
         Leave(c, next, at)
  PROVE  PriceInv' /\ CacheMoves /\ OthersStay(c)
<1> USE DEF PriceTypes
<1>0. PriceTypes /\ FetchInv(c)
  BY DEF PriceInv
<1>1. CacheMoves /\ ClearInv' /\ \A m \in Mint : EntryInv(m)'
  BY SameCache
<1>2. OthersStay(c) /\ PriceTypes'
  BY <1>0 DEF OthersStay, cacheVars, Waiting, Leave
<1>3. FetchInv(c)'
  <2>1. pc'[c] = next /\ since'[c] = at /\ todo'[c] = todo[c]
    BY <1>0 DEF Leave
  <2> QED BY <1>0, <2>1, ClockAssumption DEF FetchInv, Fetching, Waiting, Other, Instant
<1>4. ResultInv(c)'
  BY <1>0 DEF ResultInv, Fetching, Other, Leave
<1> QED BY <1>1, <1>2, <1>3, <1>4, CallStepKeepsPrices

\* What is answered, and what goes on without waiting.
LEMMA RespondKeepsPrices ==
  ASSUME PriceInv, NEW c \in Call, now' = now, OthersWait(c), Respond(c) \/ Go(c)
  PROVE  PriceInv' /\ CacheMoves /\ OthersStay(c)
<1>1. CASE PricesAnswered(c) \/ PricesFailed(c)
  BY <1>1, FetchKeepsPrices
<1>2. CASE ListAnswered(c) \/ ListFailed(c)
  BY <1>2, ListKeepsPrices
<1>3. CASE AskSymbol(c)
  BY <1>3, AskSymbolKeepsPrices
<1>4. CASE StorePrice(c)
  BY <1>4, StoredKeepsPrices DEF StorePrice, PriceInv, PriceTypes
<1>5. CASE SymbolAnswered(c)
  <2>1. NextMint(c) \in Mint
    BY <1>5, FirstOf DEF SymbolAnswered, Fetching
  <2>2. symbolCache' \subseteq Mint
    BY <1>5, <2>1 DEF SymbolAnswered, PriceInv, PriceTypes
  <2> QED BY <1>5, <2>2, StoredKeepsPrices DEF SymbolAnswered
<1> QED BY <1>1, <1>2, <1>3, <1>4, <1>5 DEF Respond, Go

LEMMA ClearKeepsPrices ==
  ASSUME PriceInv, now' = now, Quiet, clearCache
  PROVE  PriceInv' /\ CacheMoves
<1>1. PriceTypes /\ PriceTypes'
  BY DEF PriceInv, PriceTypes, clearCache, callVars
<1>2. ClearInv' /\ CacheMoves /\ \A m \in Mint : EntryInv(m)'
  <2>1. clearedAt' = now /\ now \in Nat
    BY <1>1 DEF clearCache, PriceTypes, Instant
  <2> QED BY <2>1 DEF clearCache, ClearInv, CacheMoves, EntryInv
<1>3. ASSUME NEW c \in Call
      PROVE  FetchInv(c)' /\ ResultInv(c)'
  <2>1. First(c)' = First(c)
    BY DEF First, clearCache, callVars
  <2>2. FetchInv(c) /\ ResultInv(c) /\ pc[c] \notin Running /\ UNCHANGED callVars
    BY DEF PriceInv, Quiet, clearCache
  <2> QED BY <2>1, <2>2 DEF FetchInv, ResultInv, callVars, Running
<1> QED BY <1>1, <1>2, <1>3 DEF PriceInv

LEMMA TickKeepsPrices ==
  ASSUME PriceInv, Quiet, CallsAllowTime, Advance, UNCHANGED priceVars
  PROVE  PriceInv' /\ now' = now + 1 /\ now \in Nat
<1>1. /\ now \in Nat /\ now' = now + 1 /\ now' \in Instant
      /\ UNCHANGED cacheVars /\ UNCHANGED callVars
  BY ClockAssumption DEF Advance, PriceInv, PriceTypes, Instant, priceVars
<1>2. PriceTypes /\ PriceTypes'
  BY <1>1 DEF PriceInv, PriceTypes, cacheVars, callVars
<1>3. ASSUME NEW m \in Mint
      PROVE  EntryInv(m)'
  <2>1. priceCache[m] # None => priceCache[m].sampled \in Nat
    BY <1>2 DEF PriceTypes, Entry, Instant
  <2> QED BY <1>1, <2>1 DEF PriceInv, EntryInv, cacheVars
<1>4. ClearInv'
  <2>1. ClearInv /\ clearedAt \in Nat \cup {None} /\ symbolToMint \in Nat \cup {None}
    BY <1>2 DEF PriceInv, PriceTypes, Instant
  <2> QED BY <1>1, <2>1 DEF ClearInv, cacheVars
<1>5. ASSUME NEW c \in Call
      PROVE  FetchInv(c)' /\ ResultInv(c)'
  <2>1. First(c)' = First(c)
    BY <1>1 DEF First, callVars
  <2>2. FetchInv(c) /\ ResultInv(c) /\ pc[c] \notin Running /\ since[c] \in Nat
    BY <1>2 DEF PriceInv, Quiet, PriceTypes, Instant
  <2>3. pc[c] \in Waiting => now + 1 <= since[c] + MaxDelay
    BY <1>1, <2>2, ClockAssumption DEF CallsAllowTime, Due
  <2> QED BY <1>1, <2>1, <2>2, <2>3 DEF FetchInv, ResultInv, callVars, Running
<1> QED BY <1>1, <1>2, <1>3, <1>4, <1>5 DEF PriceInv

-----------------------------------------------------------------------------
\* The name cache.

NameTypes ==
  /\ now \in Instant
  /\ forwardCache \in Entry \cup {NoName}
  /\ resolving \in [Caller -> {"no", "asked", "done", "failed"}]
  /\ askedAt \in [Caller -> Instant]
  /\ owner \in [Caller -> Instant \cup {NoName}]
  /\ namesClearedAt \in Instant \cup {NoName}

\* The entry was true when it was sampled, expires one request and NameTime
\* afterwards, and was on its way when the cache was cleared.
NameEntryInv ==
  forwardCache # NoName =>
    /\ forwardCache.sampled <= now
    /\ forwardCache.expiresAt <= forwardCache.sampled + NameTime + MaxDelay
    /\ namesClearedAt # NoName => namesClearedAt - forwardCache.sampled <= MaxDelay

AskInv(t) ==
  /\ resolving[t] = "asked" => askedAt[t] <= now /\ now <= askedAt[t] + MaxDelay
  /\ resolving[t] = "done" => owner[t] \in Instant

NameInv ==
  /\ NameTypes
  /\ NameEntryInv
  /\ namesClearedAt # NoName => namesClearedAt <= now
  /\ \A t \in Caller : AskInv(t)

\* A call of the client leaves the others alone; the owner it is given is at
\* most NameTime and a request old.
LEMMA NameStepKeepsNames ==
  ASSUME NameInv, NEW t \in Caller, now' = now,
         getAddressForANSName(t) \/ NameAnswered(t) \/ NameFailed(t)
  PROVE  /\ NameInv'
         /\ \A u \in Caller \ {t} : resolving'[u] = resolving[u] /\ owner'[u] = owner[u]
         /\ resolving'[t] \in {"asked", "done", "failed"}
         /\ resolving'[t] = "done" => now - owner'[t] <= NameTime + MaxDelay
<1>0. /\ now \in Nat /\ now \in Instant /\ MaxDelay \in Nat /\ NameTime \in Nat
      /\ NameTypes
  BY ClockAssumption, NameCacheAssumption DEF NameInv, NameTypes, Instant
<1>1. CASE getAddressForANSName(t)
  <2>1. CASE NameServable
    <3>1. /\ owner' = [owner EXCEPT ![t] = forwardCache.sampled]
          /\ resolving' = [resolving EXCEPT ![t] = "done"]
          /\ UNCHANGED <<forwardCache, askedAt, namesClearedAt>>
      BY <1>1, <2>1 DEF getAddressForANSName
    <3>2. forwardCache \in Entry /\ forwardCache # NoName /\ now <= forwardCache.expiresAt
      BY <1>0, <2>1 DEF NameServable, NameTypes
    <3>3. forwardCache.sampled \in Instant /\ forwardCache.sampled \in Nat
          /\ forwardCache.expiresAt \in Nat
      BY <3>2 DEF Entry, Instant
    <3>4. NameTypes'
      BY <1>0, <3>1, <3>3 DEF NameTypes
    <3>5. now - forwardCache.sampled <= NameTime + MaxDelay
      BY <1>0, <3>2, <3>3 DEF NameInv, NameEntryInv
    <3> QED BY <1>0, <3>1, <3>3, <3>4, <3>5 DEF NameInv, NameEntryInv, NameTypes, AskInv
  <2>2. CASE ~ NameServable
    <3>1. /\ forwardCache' = NoName
          /\ resolving' = [resolving EXCEPT ![t] = "asked"]
          /\ askedAt' = [askedAt EXCEPT ![t] = now]
          /\ UNCHANGED <<owner, namesClearedAt>>
      BY <1>1, <2>2 DEF getAddressForANSName
    <3>2. NameTypes'
      BY <1>0, <3>1 DEF NameTypes
    <3> QED BY <1>0, <3>1, <3>2 DEF NameInv, NameEntryInv, NameTypes, AskInv
  <2> QED BY <2>1, <2>2
<1>2. CASE NameAnswered(t)
  <2>1. PICK s \in askedAt[t] .. now :
          /\ forwardCache' = [sampled |-> s, expiresAt |-> now + NameTime]
          /\ owner' = [owner EXCEPT ![t] = s]
    BY <1>2 DEF NameAnswered
  <2>2. /\ resolving[t] = "asked" /\ resolving' = [resolving EXCEPT ![t] = "done"]
        /\ askedAt' = [askedAt EXCEPT ![t] = 0] /\ namesClearedAt' = namesClearedAt
    BY <1>2 DEF NameAnswered
  <2>3. askedAt[t] \in Instant /\ now <= askedAt[t] + MaxDelay
    BY <1>0, <2>2 DEF NameInv, NameTypes, AskInv
  <2>4. s \in Instant /\ s \in Nat /\ s <= now /\ now - s <= MaxDelay
    BY <1>0, <2>3, ClockAssumption DEF Instant
  <2>5. forwardCache' \in Entry /\ forwardCache'.sampled = s
        /\ forwardCache'.expiresAt = now + NameTime
    BY <1>0, <2>1, <2>4 DEF Entry
  <2>6. NameTypes' /\ 0 \in Instant
    BY <1>0, <2>1, <2>2, <2>4, <2>5, ClockAssumption DEF NameTypes, Instant
  <2>7. NameEntryInv' /\ (namesClearedAt # NoName => namesClearedAt <= now)'
    <3>1. namesClearedAt # NoName => namesClearedAt \in Nat /\ namesClearedAt <= now
      BY <1>0 DEF NameInv, NameTypes, Instant
    <3> QED BY <1>0, <2>2, <2>4, <2>5, <3>1 DEF NameEntryInv
  <2>8. \A u \in Caller : AskInv(u)'
    BY <1>0, <2>1, <2>2, <2>4 DEF NameInv, NameTypes, AskInv
  <2>9. now - s <= NameTime + MaxDelay
    BY <1>0, <2>4
  <2> QED BY <1>0, <2>1, <2>2, <2>6, <2>7, <2>8, <2>9 DEF NameInv, NameTypes
<1>3. CASE NameFailed(t)
  <2>1. /\ resolving' = [resolving EXCEPT ![t] = "failed"]
        /\ askedAt' = [askedAt EXCEPT ![t] = 0]
        /\ UNCHANGED <<forwardCache, owner, namesClearedAt>>
    BY <1>3 DEF NameFailed
  <2>2. NameTypes'
    BY <1>0, <2>1, ClockAssumption DEF NameTypes, Instant
  <2> QED BY <1>0, <2>1, <2>2 DEF NameInv, NameEntryInv, NameTypes, AskInv
<1> QED BY <1>1, <1>2, <1>3

LEMMA NamesStay ==
  ASSUME NameInv, now' = now, UNCHANGED nameVars
  PROVE  NameInv'
BY DEF NameInv, NameTypes, NameEntryInv, AskInv, nameVars

LEMMA ClearKeepsNames ==
  ASSUME NameInv, now' = now, clearNames
  PROVE  NameInv'
BY DEF NameInv, NameTypes, NameEntryInv, AskInv, clearNames, Instant

LEMMA TickKeepsNames ==
  ASSUME NameInv, NamesAllowTime, now' = now + 1, now' \in Instant, UNCHANGED nameVars
  PROVE  NameInv'
<1>0. now \in Nat /\ MaxDelay \in Nat /\ NameTypes /\ NameTypes'
  BY ClockAssumption DEF NameInv, NameTypes, Instant, nameVars
<1>1. NameEntryInv'
  <2>1. forwardCache # NoName => forwardCache.sampled \in Nat
    BY <1>0 DEF NameTypes, Entry, Instant
  <2> QED BY <1>0, <2>1 DEF NameInv, NameEntryInv, nameVars
<1>2. namesClearedAt # NoName => namesClearedAt \in Nat
  BY <1>0 DEF NameTypes, Instant
<1>3. ASSUME NEW t \in Caller
      PROVE  AskInv(t)'
  <2>1. askedAt[t] \in Nat /\ AskInv(t)
    BY <1>0 DEF NameInv, NameTypes, Instant
  <2> QED BY <1>0, <2>1 DEF AskInv, NamesAllowTime, Due, nameVars
<1> QED BY <1>0, <1>1, <1>2, <1>3 DEF NameInv, nameVars

-----------------------------------------------------------------------------
\* Watchers and transfers.

WatchTypes ==
  /\ watching \in [Watcher -> {"no", "yes", "stopped"}]
  /\ nextAt \in [Watcher -> Nat \cup {None}]
  /\ stoppedAt \in [Watcher -> Instant]
  /\ told \in [Watcher -> Instant \cup {None}]
  /\ newest \in [Watcher -> Instant \cup {None}]

\* What a watcher of a token was told is not much newer than what is cached,
\* and it was never told much less than the newest.
ToldInv(w) ==
  /\ newest[w] # None =>
       /\ newest[w] <= now
       /\ priceCache[Token] # None => newest[w] - priceCache[Token].sampled <= LongestFetch
  /\ told[w] # None => newest[w] # None /\ newest[w] - told[w] <= LongestFetch

TransferTypes ==
  /\ stage \in [Caller -> {"idle", "name", "token", "price", "mint", "sent", "rejected"}]
  /\ price \in [Caller -> Instant \cup {None}]
  /\ sentAt \in [Caller -> Instant \cup {None}]

\* Where the calls of a transfer are at its stages.
StageInv(t) ==
  /\ stage[t] \in {"idle", "name", "sent", "rejected"} => pc[t] = "idle"
  /\ stage[t] = "token" => pc[t] \in {"listing", "listed"}
  /\ stage[t] = "price" => pc[t] \in Fetching \cup {"priced"}
  /\ stage[t] = "mint" => pc[t] = "mint"
  /\ resolving[t] = "no" <=> stage[t] = "idle"
  /\ resolving[t] = "asked" => stage[t] = "name"
  /\ stage[t] \in {"token", "price", "mint", "sent"} => resolving[t] = "done"
  /\ sentAt[t] # None <=> stage[t] = "sent"

\* The age of an owner k requests after it was resolved.
OwnerAge(k) == NameTime + Span(k)

OwnerInv(t) ==
  /\ stage[t] = "name" /\ resolving[t] = "done" => now - owner[t] <= OwnerAge(1)
  /\ pc[t] = "listing" => since[t] - owner[t] <= OwnerAge(1)
  /\ pc[t] = "listed" => now - owner[t] <= OwnerAge(2)
  /\ pc[t] = "fetching" => since[t] - owner[t] <= OwnerAge(2)
  /\ pc[t] = "storing" => now - owner[t] <= OwnerAge(3)
  /\ pc[t] = "naming" => since[t] - owner[t] <= OwnerAge(3)
  /\ pc[t] = "priced" => now - owner[t] <= OwnerAge(4)
  /\ pc[t] = "mint" => since[t] - owner[t] <= OwnerAge(4)
  /\ stage[t] = "sent" => sentAt[t] - owner[t] <= OwnerAge(5)

\* The price of a transfer was read before its mint.
PaidInv(t) ==
  /\ pc[t] = "mint" => price[t] \in Instant /\ since[t] - price[t] <= CacheTime + LongestFetch
  /\ stage[t] = "sent" =>
       price[t] \in Instant /\ sentAt[t] - price[t] <= CacheTime + LongestFetch + MaxDelay

TransferInv(t) == StageInv(t) /\ OwnerInv(t) /\ PaidInv(t)

\* One call at a time goes on without waiting.
Turning(c) ==
  pc[c] \in Running \/ (c \in Caller /\ stage[c] = "name" /\ resolving[c] # "asked")

Alone(c) == \A d \in Call \ {c} : ~ Turning(d)

OneTurn == \A c, d \in Call : Turning(c) /\ Turning(d) => c = d

Inv ==
  /\ PriceInv
  /\ NameInv
  /\ WatchTypes /\ \A w \in Watcher \ Portfolio : ToldInv(w)
  /\ TransferTypes /\ \A t \in Caller : TransferInv(t)
  /\ OneTurn

LEMMA OwnerAges ==
  /\ MaxDelay \in Nat /\ NameTime \in Nat
  /\ OwnerAge(1) = NameTime + MaxDelay
  /\ OwnerAge(2) = OwnerAge(1) + MaxDelay /\ OwnerAge(3) = OwnerAge(2) + MaxDelay
  /\ OwnerAge(4) = OwnerAge(3) + MaxDelay /\ OwnerAge(5) = OwnerAge(4) + MaxDelay
  /\ OwnerAge(5) = NameTime + 5 * MaxDelay
  /\ \A k \in {1, 2, 3, 4, 5} : OwnerAge(k) \in Nat
<1>1. MaxDelay \in Nat /\ NameTime \in Nat
  BY ClockAssumption, NameCacheAssumption
<1> QED BY <1>1 DEF OwnerAge, Span

\* A step that leaves a transfer alone.
OtherTransfersStay(c) ==
  \A t \in Caller \ {c} :
    /\ stage'[t] = stage[t] /\ price'[t] = price[t] /\ sentAt'[t] = sentAt[t]
    /\ resolving'[t] = resolving[t] /\ owner'[t] = owner[t]

LEMMA StepKeepsInv ==
  ASSUME Inv, NEW c \in Call, now' = now, Alone(c), OthersStay(c), OtherTransfersStay(c),
         PriceInv', NameInv', WatchTypes', \A w \in Watcher \ Portfolio : ToldInv(w)',
         TransferTypes', c \in Caller => TransferInv(c)'
  PROVE  Inv'
<1>0. Caller \subseteq Call
  BY ClientsAssumption
<1>1. ASSUME NEW t \in Caller \ {c}
      PROVE  TransferInv(t)'
  <2>1. t \in Call \ {c}
    BY <1>0
  <2>2. TransferInv(t)
    BY DEF Inv
  <2> QED BY <2>1, <2>2 DEF OthersStay, OtherTransfersStay, TransferInv, StageInv, OwnerInv, PaidInv
<1>2. ASSUME NEW d \in Call \ {c}
      PROVE  ~ Turning(d)'
  BY <1>0 DEF Alone, Turning, OthersStay, OtherTransfersStay
<1>3. OneTurn'
  BY <1>2 DEF OneTurn
<1> QED BY <1>1, <1>3 DEF Inv

\* What watchers were told is unchanged.
LEMMA ToldStays ==
  ASSUME Inv, now' = now, CacheMoves, told' = told, newest' = newest
  PROVE  \A w \in Watcher \ Portfolio : ToldInv(w)'
<1> SUFFICES ASSUME NEW w \in Watcher \ Portfolio
             PROVE  ToldInv(w)'
  OBVIOUS
<1>1. ToldInv(w) /\ now \in Nat /\ Token \in Mint /\ LongestFetch \in Nat
  BY ClientsAssumption, LongestFacts DEF Inv, PriceInv, PriceTypes, Instant
<1>2. newest[w] # None => newest[w] \in Nat
  BY DEF Inv, WatchTypes, Instant
<1>3. priceCache'[Token] # None =>
        \/ priceCache'[Token] = priceCache[Token]
        \/ priceCache'[Token].sampled \in Nat /\ now - priceCache'[Token].sampled <= LongestFetch
  BY <1>1 DEF CacheMoves, Instant
<1> QED BY <1>1, <1>2, <1>3 DEF ToldInv

\* Nobody else runs while a call goes on, and nobody when all is quiet.
LEMMA AloneFacts ==
  ASSUME Inv, NEW c \in Call
  PROVE  /\ Alone(c) => OthersWait(c)
         /\ Turning(c) => Alone(c)
         /\ AllQuiet => Alone(c) /\ ~ Turning(c)
<1>1. \A t \in Caller : t \in Call /\ (stage[t] = "name" => resolving[t] # "no")
  BY ClientsAssumption DEF Inv, TransferInv, StageInv
<1> QED BY <1>1 DEF Alone, OthersWait, Turning, Inv, OneTurn, AllQuiet, Quiet

\* How a call that asks for one price goes through the client.
LEMMA MovesOfOne ==
  ASSUME PriceInv, NEW c \in Call, Len(Asks[c]) = 1, Respond(c) \/ Go(c)
  PROVE  \/ /\ pc[c] = "fetching" /\ pc'[c] \in {"storing", "priced"}
         \/ /\ pc[c] = "storing" /\ pc'[c] = "priced"
         \/ /\ pc[c] = "storing" /\ pc'[c] = "naming" /\ since'[c] = now
         \/ /\ pc[c] = "naming" /\ pc'[c] = "priced"
         \/ /\ pc[c] = "listing" /\ pc'[c] = "listed"
<1>0. pc \in [Call -> Waiting \cup Running \cup {"idle"}] /\ since \in [Call -> Instant]
  BY DEF PriceInv, PriceTypes
<1>1. CASE PricesAnswered(c) \/ PricesFailed(c)
  BY <1>0, <1>1 DEF PricesAnswered, PricesFailed
<1>2. CASE ListAnswered(c) \/ ListFailed(c)
  BY <1>0, <1>2 DEF ListAnswered, ListFailed
<1>3. CASE AskSymbol(c)
  BY <1>0, <1>3 DEF AskSymbol
<1>4. CASE StorePrice(c) \/ SymbolAnswered(c)
  <2>1. pc[c] \in {"storing", "naming"} /\ Stored(c)
    BY <1>4 DEF StorePrice, SymbolAnswered
  <2>2. First(c) \in todo[c] /\ todo[c] \subseteq {1}
    <3>1. First(c) \in todo[c]
      BY <2>1, FirstOf DEF Fetching
    <3>2. todo[c] \subseteq 1 .. 1
      BY DEF PriceInv, FetchInv
    <3> QED BY <3>1, <3>2
  <2>3. todo[c] \ {First(c)} = {}
    BY <2>2
  <2>4. pc'[c] = "priced"
    BY <1>0, <2>1, <2>3 DEF Stored
  <2> QED BY <2>1, <2>4
<1> QED BY <1>1, <1>2, <1>3, <1>4 DEF Respond, Go

\* A transfer asks for one price, and while it waits knows since when.
LEMMA TransferFacts ==
  ASSUME Inv, NEW t \in Caller
  PROVE  /\ t \in Call /\ Len(Asks[t]) = 1
         /\ now \in Nat /\ now \in Instant /\ since[t] \in Nat
         /\ pc[t] \in Waiting => since[t] <= now /\ now <= since[t] + MaxDelay
         /\ TransferInv(t)
         /\ resolving[t] = "done" => owner[t] \in Nat
         /\ stage \in [Caller -> {"idle", "name", "token", "price", "mint", "sent", "rejected"}]
<1>1. t \in Call /\ Asks[t] = <<Token>> /\ Token \in Mint
  BY ClientsAssumption
<1>2. PriceTypes /\ FetchInv(t) /\ TransferInv(t) /\ TransferTypes /\ AskInv(t)
  BY <1>1 DEF Inv, PriceInv, NameInv
<1> QED BY <1>1, <1>2 DEF PriceTypes, FetchInv, Instant, TransferTypes, AskInv

\* The client goes on with a call, or answers it.
LEMMA ClientKeepsInv ==
  ASSUME Inv, NEW c \in Call, Alone(c), Respond(c) \/ Go(c),
         UNCHANGED <<now, nameVars, watchVars, transferVars>>
  PROVE  Inv'
<1>1. now' = now /\ OthersWait(c)
  BY AloneFacts
<1>2. PriceInv' /\ CacheMoves /\ OthersStay(c)
  BY <1>1, RespondKeepsPrices DEF Inv
<1>3. NameInv'
  BY NamesStay DEF Inv
<1>4. WatchTypes' /\ TransferTypes' /\ told' = told /\ newest' = newest
      /\ OtherTransfersStay(c)
  BY DEF Inv, WatchTypes, TransferTypes, watchVars, transferVars, OtherTransfersStay, nameVars
<1>5. \A w \in Watcher \ Portfolio : ToldInv(w)'
  BY <1>1, <1>2, <1>4, ToldStays
<1>6. ASSUME c \in Caller
      PROVE  TransferInv(c)'
  <2>1. /\ Len(Asks[c]) = 1 /\ now \in Nat /\ since[c] \in Nat
        /\ pc[c] \in Waiting => since[c] <= now /\ now <= since[c] + MaxDelay
        /\ TransferInv(c)
        /\ resolving[c] = "done" => owner[c] \in Nat
    BY <1>6, TransferFacts
  <2>2. PriceInv
    BY DEF Inv
  <2>3. \/ /\ pc[c] = "fetching" /\ pc'[c] \in {"storing", "priced"}
        \/ /\ pc[c] = "storing" /\ pc'[c] = "priced"
        \/ /\ pc[c] = "storing" /\ pc'[c] = "naming" /\ since'[c] = now
        \/ /\ pc[c] = "naming" /\ pc'[c] = "priced"
        \/ /\ pc[c] = "listing" /\ pc'[c] = "listed"
    BY <2>1, <2>2, MovesOfOne
  <2>4. /\ stage'[c] = stage[c] /\ sentAt'[c] = sentAt[c] /\ price'[c] = price[c]
        /\ resolving'[c] = resolving[c] /\ owner'[c] = owner[c]
    BY DEF transferVars, nameVars
  <2>5. StageInv(c)'
    BY <2>1, <2>3, <2>4 DEF TransferInv, StageInv, Fetching
  <2>6. stage[c] \in {"token", "price"} /\ resolving[c] = "done"
    <3>1. stage[c] \in {"idle", "name", "token", "price", "mint", "sent", "rejected"}
      BY <1>6 DEF Inv, TransferTypes
    <3> QED BY <2>1, <2>3, <3>1 DEF TransferInv, StageInv
  <2>7. OwnerInv(c)'
    BY <1>1, <2>1, <2>3, <2>4, <2>6, OwnerAges DEF TransferInv, OwnerInv, Waiting
  <2>8. PaidInv(c)'
    BY <2>3, <2>4, <2>6 DEF PaidInv
  <2> QED BY <2>5, <2>7, <2>8 DEF TransferInv
<1> QED BY <1>1, <1>2, <1>3, <1>4, <1>5, <1>6, StepKeepsInv

\* A poll goes on, or begins: it is no transfer.
LEMMA PollKeepsInv ==
  ASSUME Inv, NEW c \in Call \ Caller, Alone(c), now' = now, UNCHANGED <<nameVars, transferVars>>,
         PriceInv', CacheMoves, OthersStay(c), WatchTypes', told' = told, newest' = newest
  PROVE  Inv'
<1>1. NameInv' /\ TransferTypes' /\ OtherTransfersStay(c)
  BY NamesStay DEF Inv, TransferTypes, transferVars, nameVars, OtherTransfersStay
<1>2. \A w \in Watcher \ Portfolio : ToldInv(w)'
  BY ToldStays
<1> QED BY <1>1, <1>2, StepKeepsInv

\* The first request of a poll.
LEMMA StartPollKeepsPrices ==
  ASSUME PriceInv, now' = now, NEW w \in Watcher, NEW c \in PollOf[w], OthersWait(c),
         StartPoll(w, c)
  PROVE  PriceInv' /\ CacheMoves /\ OthersStay(c)
<1>1. c \in Call /\ now \in Instant
  BY ClientsAssumption DEF PriceInv, PriceTypes
<1>2. CASE w \in Portfolio
  BY <1>1, <1>2, LeaveKeepsPrices DEF StartPoll, AwaitOther, Other
<1>3. CASE w \notin Portfolio
  BY <1>1, <1>3, AskKeepsPrices DEF StartPoll
<1> QED BY <1>2, <1>3

LEMMA WatchKeepsInv ==
  ASSUME Inv, NEW w \in Watcher, AllQuiet, watch(w) \/ IntervalFires(w) \/ stop(w)
  PROVE  Inv'
<1>1. now \in Nat /\ now \in Instant /\ Interval[w] \in Nat /\ now + Interval[w] \in Nat
  BY ClientsAssumption DEF Inv, PriceInv, PriceTypes, Instant
<1>2. CASE watch(w) \/ IntervalFires(w)
  <2>1. PICK c \in PollOf[w] : StartPoll(w, c)
    BY <1>2 DEF watch, IntervalFires
  <2>2. c \in Call \ Caller
    BY ClientsAssumption
  <2>3. now' = now /\ UNCHANGED <<nameVars, transferVars>> /\ told' = told /\ newest' = newest
    BY <1>2 DEF watch, IntervalFires
  <2>4. WatchTypes'
    BY <1>1, <1>2 DEF Inv, WatchTypes, watch, IntervalFires
  <2>5. Alone(c) /\ OthersWait(c)
    BY <2>2, AloneFacts
  <2>6. PriceInv' /\ CacheMoves /\ OthersStay(c)
    BY <2>1, <2>3, <2>5, StartPollKeepsPrices DEF Inv
  <2> QED BY <2>2, <2>3, <2>4, <2>5, <2>6, PollKeepsInv
<1>3. CASE stop(w)
  <2>1. now' = now /\ UNCHANGED <<priceVars, nameVars, transferVars, told, newest>>
    BY <1>3 DEF stop
  <2>2. WatchTypes'
    BY <1>1, <1>3 DEF Inv, WatchTypes, stop
  <2>3. PriceInv' /\ CacheMoves
    <3>1. UNCHANGED cacheVars /\ UNCHANGED callVars
      BY <2>1 DEF priceVars
    <3>2. \A c \in Call : First(c)' = First(c)
      BY <3>1 DEF First, callVars
    <3> QED BY <2>1, <3>1, <3>2
            DEF Inv, PriceInv, PriceTypes, EntryInv, FetchInv, ResultInv, ClearInv, CacheMoves,
                Servable, cacheVars, callVars
  <2>4. NameInv'
    BY <2>1, NamesStay DEF Inv
  <2>5. \A v \in Watcher \ Portfolio : ToldInv(v)'
    BY <2>1, <2>3, ToldStays
  <2>6. TransferTypes' /\ (\A t \in Caller : TransferInv(t)') /\ OneTurn'
    BY <2>1 DEF Inv, TransferTypes, TransferInv, StageInv, OwnerInv, PaidInv, OneTurn, Turning,
                priceVars, callVars, nameVars, transferVars
  <2> QED BY <2>2, <2>3, <2>4, <2>5, <2>6 DEF Inv
<1> QED BY <1>2, <1>3

\* The holdings of a portfolio arrive, or do not.
LEMMA HoldingsKeepInv ==
  ASSUME Inv, NEW c \in Call, AllQuiet, BalanceRead(c) \/ AccountsRead(c) \/ HoldingsFailed(c)
  PROVE  Inv'
<1>1. Alone(c) /\ OthersWait(c) /\ PriceInv /\ now \in Instant
  BY AloneFacts DEF Inv, PriceInv, PriceTypes
<1>2. c \in Call \ Caller
  <2>1. pc[c] \in {"balance", "accounts"}
    BY DEF BalanceRead, AccountsRead, HoldingsFailed
  <2>2. c \in Caller => StageInv(c) /\ stage[c] \in
          {"idle", "name", "token", "price", "mint", "sent", "rejected"}
    BY DEF Inv, TransferInv, TransferTypes
  <2> QED BY <2>1, <2>2 DEF StageInv, Fetching
<1>3. now' = now /\ UNCHANGED <<nameVars, transferVars>>
  BY DEF BalanceRead, AccountsRead, HoldingsFailed
<1>4. CASE BalanceRead(c) \/ AccountsRead(c)
  <2>1. UNCHANGED watchVars
    BY <1>4 DEF BalanceRead, AccountsRead
  <2>2. WatchTypes' /\ told' = told /\ newest' = newest
    BY <2>1 DEF Inv, WatchTypes, watchVars
  <2>3. PriceInv' /\ CacheMoves /\ OthersStay(c)
    <3>1. CASE BalanceRead(c)
      BY <1>1, <1>3, <3>1, LeaveKeepsPrices DEF BalanceRead, AwaitOther, Other
    <3>2. CASE AccountsRead(c)
      BY <1>1, <1>3, <3>2, AskKeepsPrices DEF AccountsRead
    <3> QED BY <1>4, <3>1, <3>2
  <2> QED BY <1>1, <1>2, <1>3, <2>2, <2>3, PollKeepsInv
<1>5. CASE HoldingsFailed(c)
  <2>1. Return(c) /\ UNCHANGED cacheVars /\ 0 \in Instant
    BY <1>5, ClockAssumption DEF HoldingsFailed, CallBack, Instant
  <2>2. told' = told /\ newest' = newest /\ UNCHANGED <<watching, nextAt, stoppedAt>>
    BY <1>5 DEF HoldingsFailed, CallBack, Inv, WatchTypes
  <2>3. WatchTypes'
    BY <2>2 DEF Inv, WatchTypes
  <2>4. PriceInv' /\ CacheMoves /\ OthersStay(c)
    BY <1>1, <1>3, <2>1, LeaveKeepsPrices DEF Return, Other
  <2> QED BY <1>1, <1>2, <1>3, <2>2, <2>3, <2>4, PollKeepsInv
<1> QED BY <1>4, <1>5

\* A poll tells its watcher a price that is cached: one that the watcher was not
\* told much more than before.
LEMMA ReportKeepsInv ==
  ASSUME Inv, NEW c \in Call, Alone(c), Report(c)
  PROVE  Inv'
<1> DEFINE w == WatcherOf(c)
           value == IF w \in Portfolio THEN None ELSE result[c][Token]
<1>1. w \in Watcher /\ c \in PollOf[w] /\ c \notin Caller
  <2>1. \E v \in Watcher : c \in PollOf[v]
    BY DEF Report, Poll
  <2> QED BY <2>1, ClientsAssumption DEF WatcherOf
<1>2. OthersWait(c) /\ PriceInv /\ PriceTypes /\ now \in Instant /\ now \in Nat /\ 0 \in Instant
  BY AloneFacts, ClockAssumption DEF Inv, PriceInv, PriceTypes, Instant
<1>3. /\ now' = now /\ UNCHANGED <<nameVars, transferVars, cacheVars>> /\ pc[c] = "priced"
      /\ Return(c) /\ UNCHANGED <<watching, nextAt, stoppedAt>>
      /\ told' = [told EXCEPT ![w] = IF value = None THEN @ ELSE value]
      /\ newest' = [newest EXCEPT ![w] =
                      IF value # None /\ (@ = None \/ @ < value) THEN value ELSE @]
  BY DEF Report, CallBack
<1>4. PriceInv' /\ CacheMoves /\ OthersStay(c)
  BY <1>2, <1>3, LeaveKeepsPrices DEF Return, Other
<1>5. value # None =>
        /\ value \in Nat /\ value \in Instant /\ value <= now
        /\ priceCache[Token] # None /\ priceCache[Token].sampled = value
        /\ w \in Watcher \ Portfolio
  <2> SUFFICES ASSUME value # None
               PROVE  /\ value \in Nat /\ value \in Instant /\ value <= now
                      /\ priceCache[Token] # None /\ priceCache[Token].sampled = value
                      /\ w \in Watcher \ Portfolio
    OBVIOUS
  <2>1. w \in Watcher \ Portfolio /\ value = result[c][Token] /\ Token \in Mint
    BY <1>1, ClientsAssumption
  <2>2. Len(Asks[c]) = 1
    <3> HIDE DEF w
    <3>1. Asks[c] = MintsOf[w] /\ MintsOf[w] = <<Token>>
      BY <1>1, <2>1, ClientsAssumption
    <3> QED BY <3>1
  <2>3. Servable(Token) /\ priceCache[Token].sampled = value
    BY <1>2, <1>3, <2>1, <2>2 DEF PriceInv, ResultInv
  <2>4. value \in Instant
    BY <1>2, <2>1 DEF PriceTypes
  <2>5. priceCache[Token].sampled <= now
    BY <1>2, <2>1, <2>3 DEF PriceInv, EntryInv, Servable
  <2> QED BY <2>1, <2>3, <2>4, <2>5 DEF Servable, Instant
<1>6. WatchTypes'
  <2>1. WatchTypes
    BY DEF Inv
  <2>2. told' \in [Watcher -> Instant \cup {None}]
    BY <1>1, <1>3, <1>5, <2>1 DEF WatchTypes
  <2>3. newest' \in [Watcher -> Instant \cup {None}]
    BY <1>1, <1>3, <1>5, <2>1 DEF WatchTypes
  <2> QED BY <1>3, <2>1, <2>2, <2>3 DEF WatchTypes
<1>7. ASSUME NEW v \in Watcher \ Portfolio
      PROVE  ToldInv(v)'
  <2>1. ToldInv(v) /\ LongestFetch \in Nat /\ UNCHANGED priceCache
        /\ told \in [Watcher -> Instant \cup {None}] /\ newest \in [Watcher -> Instant \cup {None}]
    BY <1>3, LongestFacts DEF Inv, WatchTypes, cacheVars
  <2>2. CASE v # w \/ value = None
    <3>1. told'[v] = told[v] /\ newest'[v] = newest[v]
      BY <1>3, <2>1, <2>2
    <3> QED BY <1>3, <2>1, <3>1 DEF ToldInv
  <2>3. CASE v = w /\ value # None
    <3> DEFINE old == newest[v]
               new == newest'[v]
    <3>1. told'[v] = value /\ new = IF old = None \/ old < value THEN value ELSE old
      BY <1>1, <1>3, <2>1, <2>3
    <3>2. old # None => old \in Nat /\ old <= now /\ old - value <= LongestFetch
      BY <1>5, <2>1, <2>3 DEF ToldInv, Instant
    <3>3. /\ value \in Nat /\ value <= now /\ value # None
          /\ priceCache'[Token] # None /\ priceCache'[Token].sampled = value
      BY <1>5, <2>1, <2>3
    <3> HIDE DEF value, old
    <3>4. new # None /\ new \in Nat /\ new <= now /\ new - value <= LongestFetch
      BY <2>1, <3>1, <3>2, <3>3
    <3> HIDE DEF new
    <3>5. newest'[v] = new
      BY DEF new
    <3> QED BY <1>3, <3>1, <3>3, <3>4, <3>5 DEF ToldInv
  <2> QED BY <2>2, <2>3
<1>8. NameInv' /\ TransferTypes' /\ OtherTransfersStay(c)
  BY <1>3, NamesStay DEF Inv, TransferTypes, transferVars, nameVars, OtherTransfersStay
<1> QED BY <1>1, <1>3, <1>4, <1>6, <1>7, <1>8, StepKeepsInv

-----------------------------------------------------------------------------
\* The steps of a transfer.

\* What a step of transfer t has to show.
LEMMA TransferKeepsInv ==
  ASSUME Inv, NEW t \in Caller, Alone(t), now' = now, OtherTransfersStay(t), UNCHANGED watchVars,
         PriceInv', CacheMoves, OthersStay(t), NameInv', TransferTypes', TransferInv(t)'
  PROVE  Inv'
<1>1. t \in Call
  BY ClientsAssumption
<1>2. WatchTypes' /\ told' = told /\ newest' = newest
  BY DEF Inv, WatchTypes, watchVars
<1>3. \A w \in Watcher \ Portfolio : ToldInv(w)'
  BY <1>2, ToldStays
<1> QED BY <1>1, <1>2, <1>3, StepKeepsInv

\* The name is asked for, or answered.
LEMMA NameKeepsInv ==
  ASSUME Inv, NEW t \in Caller, AllQuiet,
         \/ transferTokens(t)
         \/ (NameAnswered(t) \/ NameFailed(t)) /\ UNCHANGED <<now, priceVars, watchVars, transferVars>>
  PROVE  Inv'
<1>1. t \in Call /\ Alone(t) /\ PriceInv /\ NameInv /\ TransferTypes /\ TransferInv(t)
  BY ClientsAssumption, AloneFacts DEF Inv
<1>2. UNCHANGED <<now, priceVars, watchVars, price, sentAt>>
  BY DEF transferTokens, transferVars
<1>3. /\ NameInv'
      /\ \A u \in Caller \ {t} : resolving'[u] = resolving[u] /\ owner'[u] = owner[u]
      /\ resolving'[t] \in {"asked", "done", "failed"}
      /\ resolving'[t] = "done" => now - owner'[t] <= NameTime + MaxDelay
  BY <1>1, <1>2, NameStepKeepsNames DEF transferTokens
<1>4. stage' = [stage EXCEPT ![t] = "name"]
  <2>1. CASE transferTokens(t)
    BY <2>1 DEF transferTokens
  <2>2. CASE NameAnswered(t) \/ NameFailed(t)
    <3>1. resolving[t] = "asked"
      BY <2>2 DEF NameAnswered, NameFailed
    <3>2. stage[t] = "name"
      BY <1>1, <3>1 DEF TransferInv, StageInv
    <3>3. stage' = stage
      <4>1. CASE transferTokens(t)
        BY <1>1, <3>2, <4>1 DEF transferTokens, TransferInv, StageInv
      <4> QED BY <4>1 DEF transferVars
    <3> QED BY <1>1, <3>2, <3>3 DEF TransferTypes
  <2> QED BY <2>1, <2>2
<1>5. stage[t] \in {"idle", "name"} /\ pc[t] = "idle" /\ sentAt[t] = None
  <2>1. stage[t] \in {"idle", "name"}
    BY <1>1 DEF transferTokens, NameAnswered, NameFailed, TransferInv, StageInv
  <2> QED BY <1>1, <2>1 DEF TransferInv, StageInv
<1>6. PriceInv' /\ CacheMoves /\ OthersStay(t)
  <2>1. UNCHANGED cacheVars /\ UNCHANGED callVars
    BY <1>2 DEF priceVars
  <2>2. \A c \in Call : First(c)' = First(c)
    BY <2>1 DEF First, callVars
  <2> QED BY <1>1, <1>2, <2>1, <2>2
          DEF PriceInv, PriceTypes, EntryInv, FetchInv, ResultInv, ClearInv, CacheMoves,
              Servable, OthersStay, cacheVars, callVars
<1>7. TransferTypes' /\ OtherTransfersStay(t)
  BY <1>1, <1>2, <1>3, <1>4 DEF TransferTypes, OtherTransfersStay
<1>8. TransferInv(t)'
  <2>1. stage'[t] = "name" /\ pc'[t] = "idle" /\ sentAt'[t] = None
    BY <1>1, <1>2, <1>4, <1>5 DEF TransferTypes, priceVars, callVars
  <2>2. StageInv(t)'
    BY <1>3, <2>1 DEF StageInv
  <2>3. OwnerInv(t)'
    BY <1>2, <1>3, <2>1, OwnerAges DEF OwnerInv
  <2>4. PaidInv(t)'
    BY <2>1 DEF PaidInv
  <2> QED BY <2>2, <2>3, <2>4 DEF TransferInv
<1> QED BY <1>1, <1>2, <1>3, <1>6, <1>7, <1>8, TransferKeepsInv

\* The receiver is known, and the token or the price is asked for.
LEMMA AskingKeepsInv ==
  ASSUME Inv, NEW t \in Caller, ReceiverResolved(t) \/ TokenResolved(t)
  PROVE  Inv'
<1>1. /\ t \in Call /\ Len(Asks[t]) = 1
      /\ now \in Nat /\ now \in Instant /\ TransferInv(t)
      /\ resolving[t] = "done" => owner[t] \in Nat
  BY TransferFacts
<1>2. PriceInv /\ PriceTypes /\ NameInv /\ TransferTypes
  BY DEF Inv, PriceInv
<1>3. UNCHANGED <<now, nameVars, watchVars, price, sentAt>>
  BY DEF ReceiverResolved, TokenResolved
<1>4. resolving[t] = "done" /\ now - owner[t] <= OwnerAge(2) /\ stage[t] \in {"name", "token"}
      /\ (stage[t] = "name" => now - owner[t] <= OwnerAge(1))
  BY <1>1, OwnerAges DEF ReceiverResolved, TokenResolved, TransferInv, StageInv, OwnerInv
<1>5. Turning(t)
  BY <1>4 DEF Turning, ReceiverResolved, TokenResolved, Running
<1>6. Alone(t) /\ OthersWait(t)
  BY <1>1, <1>5, AloneFacts
<1>7. NameInv'
  BY <1>2, <1>3, NamesStay
<1>8. CASE getTokenPrices(t) /\ stage' = [stage EXCEPT ![t] = "price"]
  <2>1. PriceInv' /\ CacheMoves /\ OthersStay(t)
    BY <1>1, <1>2, <1>3, <1>6, <1>8, AskKeepsPrices
  <2>2. TransferTypes' /\ OtherTransfersStay(t)
    BY <1>2, <1>3, <1>8 DEF TransferTypes, OtherTransfersStay, nameVars
  <2>3. /\ pc'[t] \in {"fetching", "priced"} /\ since'[t] = now /\ stage'[t] = "price"
        /\ sentAt'[t] = sentAt[t] /\ owner'[t] = owner[t] /\ resolving'[t] = resolving[t]
    BY <1>1, <1>2, <1>3, <1>8 DEF getTokenPrices, PriceTypes, TransferTypes, nameVars
  <2>4. TransferInv(t)'
    <3>1. StageInv(t)'
      BY <1>1, <1>4, <2>3 DEF TransferInv, StageInv, Fetching
    <3>2. OwnerInv(t)'
      BY <1>1, <1>3, <1>4, <2>3, OwnerAges DEF OwnerInv
    <3>3. PaidInv(t)'
      BY <2>3 DEF PaidInv
    <3> QED BY <3>1, <3>2, <3>3 DEF TransferInv
  <2> QED BY <1>3, <1>6, <1>7, <2>1, <2>2, <2>4, TransferKeepsInv
<1>9. CASE resolveTokenSymbol(t) /\ stage' = [stage EXCEPT ![t] = "token"] /\ stage[t] = "name"
  <2>1. PriceInv' /\ CacheMoves /\ OthersStay(t)
    BY <1>1, <1>2, <1>3, <1>6, <1>9, ListKeepsPrices
  <2>2. TransferTypes' /\ OtherTransfersStay(t)
    BY <1>2, <1>3, <1>9 DEF TransferTypes, OtherTransfersStay, nameVars
  <2>3. /\ pc'[t] \in {"listing", "listed"} /\ since'[t] = now /\ stage'[t] = "token"
        /\ sentAt'[t] = sentAt[t] /\ owner'[t] = owner[t] /\ resolving'[t] = resolving[t]
    BY <1>1, <1>2, <1>3, <1>9 DEF resolveTokenSymbol, PriceTypes, TransferTypes, nameVars
  <2>4. TransferInv(t)'
    <3>1. StageInv(t)'
      BY <1>1, <1>4, <2>3 DEF TransferInv, StageInv, Fetching
    <3>2. OwnerInv(t)'
      BY <1>1, <1>3, <1>4, <1>9, <2>3, OwnerAges DEF OwnerInv
    <3>3. PaidInv(t)'
      BY <2>3 DEF PaidInv
    <3> QED BY <3>1, <3>2, <3>3 DEF TransferInv
  <2> QED BY <1>3, <1>6, <1>7, <2>1, <2>2, <2>4, TransferKeepsInv
<1> QED BY <1>8, <1>9 DEF ReceiverResolved, TokenResolved

\* The price is there, or something is not found.
LEMMA PricedKeepsInv ==
  ASSUME Inv, NEW t \in Caller, Priced(t) \/ TransferRejected(t)
  PROVE  Inv'
<1>1. /\ t \in Call /\ Len(Asks[t]) = 1
      /\ now \in Nat /\ now \in Instant /\ TransferInv(t)
      /\ resolving[t] = "done" => owner[t] \in Nat
  BY TransferFacts
<1>2. PriceInv /\ PriceTypes /\ NameInv /\ TransferTypes /\ 0 \in Instant
  BY ClockAssumption DEF Inv, PriceInv, Instant
<1>3. UNCHANGED <<now, cacheVars, nameVars, watchVars, sentAt>>
  BY DEF Priced, TransferRejected
<1>4. Turning(t)
  BY DEF Turning, Priced, TransferRejected, Running
<1>5. Alone(t) /\ OthersWait(t) /\ NameInv'
  BY <1>1, <1>2, <1>3, <1>4, AloneFacts, NamesStay
<1>6. CASE Priced(t)
  <2>1. PriceInv' /\ CacheMoves /\ OthersStay(t)
    BY <1>1, <1>2, <1>3, <1>5, <1>6, LeaveKeepsPrices DEF Priced, AwaitOther, Other
  <2>2. /\ stage' = [stage EXCEPT ![t] = "mint"] /\ price' = [price EXCEPT ![t] = result[t][Token]]
        /\ result[t][Token] # None /\ pc[t] = "priced" /\ Token \in Mint
    BY <1>6, ClientsAssumption DEF Priced
  <2>3. /\ result[t][Token] \in Instant /\ result[t][Token] \in Nat
        /\ now - result[t][Token] <= CacheTime + LongestFetch
    <3>1. ResultInv(t) /\ EntryInv(Token)
      BY <1>1, <1>2, <2>2 DEF PriceInv
    <3>2. Servable(Token) /\ priceCache[Token].sampled = result[t][Token]
      BY <1>1, <2>2, <3>1 DEF ResultInv
    <3>3. result[t][Token] \in Instant /\ priceCache[Token] \in Entry
      BY <1>1, <1>2, <2>2, <3>2 DEF PriceTypes, Servable
    <3>4. now <= result[t][Token] + CacheTime + LongestFetch
      BY <1>1, <3>1, <3>2, <3>3, LongestFacts, PriceCacheAssumption
         DEF EntryInv, Servable, Entry, Instant
    <3> QED BY <1>1, <3>3, <3>4, LongestFacts, PriceCacheAssumption DEF Instant
  <2>4. TransferTypes' /\ OtherTransfersStay(t)
    BY <1>2, <1>3, <2>2, <2>3 DEF TransferTypes, OtherTransfersStay, nameVars
  <2>5. /\ pc'[t] = "mint" /\ since'[t] = now /\ stage'[t] = "mint" /\ price'[t] = result[t][Token]
        /\ sentAt'[t] = sentAt[t] /\ owner'[t] = owner[t] /\ resolving'[t] = resolving[t]
    BY <1>1, <1>2, <1>3, <1>6, <2>2
       DEF Priced, AwaitOther, Leave, PriceTypes, TransferTypes, nameVars
  <2>6. stage[t] = "price"
    BY <1>6 DEF Priced
  <2>7. TransferInv(t)'
    <3>1. StageInv(t)'
      BY <1>1, <2>5, <2>6 DEF TransferInv, StageInv
    <3>2. OwnerInv(t)'
      BY <1>1, <1>3, <2>2, <2>5, OwnerAges DEF TransferInv, OwnerInv
    <3>3. PaidInv(t)'
      BY <2>3, <2>5 DEF PaidInv
    <3> QED BY <3>1, <3>2, <3>3 DEF TransferInv
  <2> QED BY <1>3, <1>5, <2>1, <2>4, <2>7, TransferKeepsInv
<1>7. CASE TransferRejected(t)
  <2>1. PriceInv' /\ CacheMoves /\ OthersStay(t)
    BY <1>1, <1>2, <1>3, <1>5, <1>7, LeaveKeepsPrices DEF TransferRejected, Return, Other
  <2>2. stage' = [stage EXCEPT ![t] = "rejected"] /\ UNCHANGED price
        /\ stage[t] \in {"name", "token", "price"} /\ (stage[t] = "name" => resolving[t] = "failed")
    BY <1>7 DEF TransferRejected
  <2>3. TransferTypes' /\ OtherTransfersStay(t)
    BY <1>2, <1>3, <2>2 DEF TransferTypes, OtherTransfersStay, nameVars
  <2>4. pc'[t] = "idle" /\ stage'[t] = "rejected" /\ sentAt'[t] = sentAt[t]
        /\ resolving'[t] = resolving[t]
    BY <1>1, <1>2, <1>3, <1>7, <2>2
       DEF TransferRejected, Return, Leave, PriceTypes, TransferTypes, nameVars
  <2>5. TransferInv(t)'
    BY <1>1, <2>2, <2>4 DEF TransferInv, StageInv, OwnerInv, PaidInv
  <2> QED BY <1>3, <1>5, <2>1, <2>3, <2>5, TransferKeepsInv
<1> QED BY <1>6, <1>7

\* The mint is read, and the transfer is sent, or it is not.
LEMMA MintKeepsInv ==
  ASSUME Inv, NEW t \in Caller, AllQuiet, MintRead(t) \/ MintFailed(t)
  PROVE  Inv'
<1>1. /\ t \in Call /\ now \in Nat /\ now \in Instant /\ since[t] \in Nat /\ TransferInv(t)
      /\ pc[t] \in Waiting => since[t] <= now /\ now <= since[t] + MaxDelay
      /\ resolving[t] = "done" => owner[t] \in Nat
  BY TransferFacts
<1>2. PriceInv /\ PriceTypes /\ NameInv /\ TransferTypes /\ 0 \in Instant
  BY ClockAssumption DEF Inv, PriceInv, Instant
<1>3. UNCHANGED <<now, cacheVars, nameVars, watchVars, price>> /\ stage[t] = "mint" /\ Return(t)
  BY DEF MintRead, MintFailed
<1>4. Alone(t) /\ OthersWait(t) /\ NameInv'
  BY <1>1, <1>2, <1>3, AloneFacts, NamesStay
<1>5. PriceInv' /\ CacheMoves /\ OthersStay(t)
  BY <1>1, <1>2, <1>3, <1>4, LeaveKeepsPrices DEF Return, Other
<1>6. pc[t] = "mint" /\ resolving[t] = "done" /\ sentAt[t] = None /\ pc'[t] = "idle"
      /\ price'[t] = price[t] /\ owner'[t] = owner[t] /\ resolving'[t] = resolving[t]
  BY <1>1, <1>2, <1>3 DEF TransferInv, StageInv, Return, Leave, PriceTypes, nameVars
<1>7. CASE MintRead(t)
  <2>1. stage' = [stage EXCEPT ![t] = "sent"] /\ sentAt' = [sentAt EXCEPT ![t] = now]
    BY <1>7 DEF MintRead
  <2>2. TransferTypes' /\ OtherTransfersStay(t)
    BY <1>1, <1>2, <1>3, <2>1 DEF TransferTypes, OtherTransfersStay, nameVars
  <2>3. stage'[t] = "sent" /\ sentAt'[t] = now /\ now # None
    BY <1>1, <1>2, <2>1, PriceCacheAssumption DEF TransferTypes
  <2>4. StageInv(t)'
    BY <1>6, <2>3 DEF StageInv
  <2>5. now <= since[t] + MaxDelay
    BY <1>1, <1>6 DEF Waiting, Other
  <2>6. OwnerInv(t)'
    BY <1>1, <1>6, <2>3, <2>5, OwnerAges DEF TransferInv, OwnerInv
  <2>7. PaidInv(t)'
    BY <1>1, <1>6, <2>3, <2>5, LongestFacts, PriceCacheAssumption, ClockAssumption
       DEF TransferInv, PaidInv, Instant
  <2> QED BY <1>3, <1>4, <1>5, <2>2, <2>4, <2>6, <2>7, TransferKeepsInv DEF TransferInv
<1>8. CASE MintFailed(t)
  <2>1. stage' = [stage EXCEPT ![t] = "rejected"] /\ sentAt' = sentAt
    BY <1>8 DEF MintFailed
  <2>2. TransferTypes' /\ OtherTransfersStay(t)
    BY <1>2, <1>3, <2>1 DEF TransferTypes, OtherTransfersStay, nameVars
  <2>3. stage'[t] = "rejected"
    BY <1>2, <2>1 DEF TransferTypes
  <2>4. TransferInv(t)'
    BY <1>6, <2>1, <2>3 DEF TransferInv, StageInv, OwnerInv, PaidInv
  <2> QED BY <1>3, <1>4, <1>5, <2>2, <2>4, TransferKeepsInv
<1> QED BY <1>7, <1>8

-----------------------------------------------------------------------------
\* The caches are cleared, and time passes.

LEMMA ClearKeepsInv ==
  ASSUME Inv, AllQuiet, Clear
  PROVE  Inv'
<1>1. now' = now /\ UNCHANGED <<watchVars, transferVars, callVars, resolving, owner>>
  BY DEF Clear, clearCache, clearNames, nameVars, priceVars
<1>2. PriceInv' /\ CacheMoves
  <2>1. CASE clearCache
    BY <1>1, <2>1, ClearKeepsPrices DEF Inv, AllQuiet
  <2>2. CASE UNCHANGED priceVars
    <3>1. UNCHANGED cacheVars
      BY <2>2 DEF priceVars
    <3>2. \A c \in Call : First(c)' = First(c)
      BY <1>1 DEF First, callVars
    <3> QED BY <1>1, <3>1, <3>2
            DEF Inv, PriceInv, PriceTypes, EntryInv, FetchInv, ResultInv, ClearInv, CacheMoves,
                Servable, cacheVars, callVars
  <2> QED BY <2>1, <2>2 DEF Clear
<1>3. NameInv'
  <2>1. CASE clearNames
    BY <1>1, <2>1, ClearKeepsNames DEF Inv
  <2>2. CASE UNCHANGED nameVars
    BY <1>1, <2>2, NamesStay DEF Inv
  <2> QED BY <2>1, <2>2 DEF Clear
<1>4. WatchTypes' /\ told' = told /\ newest' = newest
  BY <1>1 DEF Inv, WatchTypes, watchVars
<1>5. \A w \in Watcher \ Portfolio : ToldInv(w)'
  BY <1>1, <1>2, <1>4, ToldStays
<1>6. TransferTypes' /\ (\A t \in Caller : TransferInv(t)') /\ OneTurn'
  BY <1>1 DEF Inv, TransferTypes, TransferInv, StageInv, OwnerInv, PaidInv, OneTurn, Turning,
              callVars, transferVars
<1> QED BY <1>2, <1>3, <1>4, <1>5, <1>6 DEF Inv

LEMMA TickKeepsInv ==
  ASSUME Inv, AllQuiet, Tick
  PROVE  Inv'
<1>1. PriceInv' /\ now' = now + 1 /\ now \in Nat
  BY TickKeepsPrices DEF Inv, Tick, AllQuiet
<1>2. UNCHANGED <<cacheVars, callVars, nameVars, watchVars, transferVars>>
  BY DEF Tick, priceVars
<1>3. NameInv'
  BY <1>1, <1>2, TickKeepsNames DEF Inv, Tick, PriceInv, PriceTypes
<1>4. WatchTypes'
  BY <1>2 DEF Inv, WatchTypes, watchVars
<1>5. ASSUME NEW w \in Watcher \ Portfolio
      PROVE  ToldInv(w)'
  <2>1. newest[w] # None => newest[w] \in Nat
    BY DEF Inv, WatchTypes, Instant
  <2> QED BY <1>1, <1>2, <2>1 DEF Inv, ToldInv, cacheVars, watchVars
<1>6. ASSUME NEW t \in Caller
      PROVE  TransferInv(t)'
  <2>1. TransferInv(t) /\ t \in Call /\ pc[t] \notin Running
        /\ (stage[t] = "name" => resolving[t] = "asked")
    BY TransferFacts DEF AllQuiet, Quiet
  <2> QED BY <1>1, <1>2, <2>1
          DEF TransferInv, StageInv, OwnerInv, PaidInv, Running, callVars, nameVars, transferVars
<1>7. TransferTypes' /\ OneTurn'
  BY <1>2 DEF Inv, TransferTypes, OneTurn, Turning, callVars, nameVars, transferVars
<1> QED BY <1>1, <1>3, <1>4, <1>5, <1>6, <1>7 DEF Inv

-----------------------------------------------------------------------------
LEMMA InvInit == Init => Inv
<1> SUFFICES ASSUME Init
             PROVE  Inv
  OBVIOUS
<1>1. 0 \in Instant /\ MaxDelay \in Nat
  BY ClockAssumption DEF Instant
<1>2. PriceTypes
  BY <1>1 DEF Init, PriceInit, PriceTypes
<1>3. PriceInv
  <2>1. (\A m \in Mint : EntryInv(m)) /\ ClearInv
    BY DEF Init, PriceInit, EntryInv, ClearInv
  <2>2. \A c \in Call : FetchInv(c) /\ ResultInv(c)
    BY DEF Init, PriceInit, FetchInv, ResultInv, Fetching, Waiting, Other
  <2> QED BY <1>2, <2>1, <2>2 DEF PriceInv
<1>4. NameInv
  BY <1>1 DEF Init, NameInit, NameInv, NameTypes, NameEntryInv, AskInv
<1>5. WatchTypes /\ \A w \in Watcher \ Portfolio : ToldInv(w)
  BY <1>1 DEF Init, WatchTypes, ToldInv
<1>6. TransferTypes
  BY DEF Init, TransferTypes
<1>7. \A t \in Caller : t \in Call
  BY ClientsAssumption
<1>8. \A t \in Caller : TransferInv(t)
  BY <1>7 DEF Init, PriceInit, NameInit, TransferInv, StageInv, OwnerInv, PaidInv
<1>9. OneTurn
  BY DEF Init, PriceInit, OneTurn, Turning, Running
<1> QED BY <1>3, <1>4, <1>5, <1>6, <1>8, <1>9 DEF Inv

LEMMA InvNext == Inv /\ [Next]_vars => Inv'
<1> SUFFICES ASSUME Inv, [Next]_vars
             PROVE  Inv'
  OBVIOUS
<1>1. ASSUME NEW c \in Call, Continue(c)
      PROVE  Inv'
  <2>1. Turning(c)
    BY <1>1 DEF Continue, Go, StorePrice, AskSymbol, Report, Turning, Running
  <2>2. Alone(c)
    BY <2>1, AloneFacts
  <2>3. CASE Go(c) /\ UNCHANGED <<now, nameVars, watchVars, transferVars>>
    BY <2>2, <2>3, ClientKeepsInv
  <2>4. CASE Report(c)
    BY <2>2, <2>4, ReportKeepsInv
  <2> QED BY <1>1, <2>3, <2>4 DEF Continue
<1>2. ASSUME NEW t \in Caller, TransferContinue(t)
      PROVE  Inv'
  BY <1>2, AskingKeepsInv, PricedKeepsInv DEF TransferContinue
<1>3. ASSUME AllQuiet, NEW w \in Watcher, watch(w) \/ IntervalFires(w) \/ stop(w)
      PROVE  Inv'
  BY <1>3, WatchKeepsInv
<1>4. ASSUME AllQuiet, NEW c \in Call, Answered(c)
      PROVE  Inv'
  <2>1. Alone(c)
    BY <1>4, AloneFacts
  <2>2. CASE Respond(c) /\ UNCHANGED <<now, nameVars, watchVars, transferVars>>
    BY <2>1, <2>2, ClientKeepsInv
  <2>3. CASE BalanceRead(c) \/ AccountsRead(c) \/ HoldingsFailed(c)
    BY <1>4, <2>3, HoldingsKeepInv
  <2> QED BY <1>4, <2>2, <2>3 DEF Answered
<1>5. ASSUME AllQuiet, NEW t \in Caller, transferTokens(t) \/ TransferAnswered(t)
      PROVE  Inv'
  <2>1. CASE MintRead(t) \/ MintFailed(t)
    BY <1>5, <2>1, MintKeepsInv
  <2>2. CASE ~ (MintRead(t) \/ MintFailed(t))
    <3>1. \/ transferTokens(t)
          \/ (NameAnswered(t) \/ NameFailed(t)) /\ UNCHANGED <<now, priceVars, watchVars, transferVars>>
      BY <1>5, <2>2 DEF TransferAnswered
    <3> QED BY <1>5, <3>1, NameKeepsInv
  <2> QED BY <2>1, <2>2
<1>6. CASE AllQuiet /\ Clear
  BY <1>6, ClearKeepsInv
<1>7. CASE AllQuiet /\ Tick
  BY <1>7, TickKeepsInv
<1>8. CASE UNCHANGED vars
  <2>1. now' = now
        /\ UNCHANGED <<cacheVars, callVars, nameVars, watchVars, transferVars>>
    BY <1>8 DEF vars, priceVars
  <2>2. PriceInv' /\ CacheMoves
    <3>1. \A c \in Call : First(c)' = First(c)
      BY <2>1 DEF First, callVars
    <3> QED BY <2>1, <3>1
            DEF Inv, PriceInv, PriceTypes, EntryInv, FetchInv, ResultInv, ClearInv, CacheMoves,
                Servable, cacheVars, callVars
  <2>3. NameInv'
    BY <2>1, NamesStay DEF Inv
  <2>4. WatchTypes' /\ \A w \in Watcher \ Portfolio : ToldInv(w)'
    BY <2>1, <2>2, ToldStays DEF Inv, WatchTypes, watchVars
  <2>5. TransferTypes' /\ (\A t \in Caller : TransferInv(t)') /\ OneTurn'
    BY <2>1 DEF Inv, TransferTypes, TransferInv, StageInv, OwnerInv, PaidInv, OneTurn, Turning,
                callVars, nameVars, transferVars
  <2> QED BY <2>2, <2>3, <2>4, <2>5 DEF Inv
<1> QED BY <1>1, <1>2, <1>3, <1>4, <1>5, <1>6, <1>7, <1>8 DEF Next, Use

\* The inductive invariant holds in every reachable state.
THEOREM Invariance == Spec => []Inv
BY InvInit, InvNext, PTL DEF Spec

\* Every variable keeps its type, at all delays and intervals.
THEOREM TypeCorrectness == Spec => []TypeOK
<1>1. Inv => TypeOK
  <2> SUFFICES ASSUME Inv
               PROVE  TypeOK
    OBVIOUS
  <2>1. PriceTypes /\ NameTypes /\ WatchTypes /\ TransferTypes
    BY DEF Inv, PriceInv, NameInv
  <2>2. ASSUME NEW c \in Call
        PROVE  /\ todo[c] \subseteq DOMAIN Asks[c]
               /\ pc[c] \in {"fetching", "storing", "naming"} => todo[c] # {}
    <3>1. DOMAIN Asks[c] = 1 .. Len(Asks[c])
      BY PriceCacheAssumption
    <3>2. FetchInv(c)
      BY DEF Inv, PriceInv
    <3> QED BY <3>1, <3>2 DEF FetchInv, Fetching
  <2>3. \A t \in Caller : sentAt[t] # None <=> stage[t] = "sent"
    BY DEF Inv, TransferInv, StageInv
  <2> QED BY <2>1, <2>2, <2>3 DEF TypeOK, PriceTypes, NameTypes, WatchTypes, TransferTypes
<1> QED BY <1>1, Invariance, PTL

\* Prices in the cache, and prices and owners that a transfer uses, are at most
\* the cache times and the requests in between old (jupiter.ts:144-157,
\* ans.ts:155, and transferTokens of both plugins).
THEOREM WhatIsUsedWasRecent == Spec => []WhatIsUsedIsRecent
<1>1. Inv => WhatIsUsedIsRecent
  <2> SUFFICES ASSUME Inv
               PROVE  WhatIsUsedIsRecent
    OBVIOUS
  <2>1. ASSUME NEW m \in Mint, Servable(m)
        PROVE  now - priceCache[m].sampled <= CacheTime + LongestFetch
    <3>1. EntryInv(m) /\ priceCache[m] \in Entry /\ now \in Nat
      BY <2>1 DEF Inv, PriceInv, PriceTypes, Servable, Instant
    <3>2. priceCache[m].sampled \in Nat /\ priceCache[m].expiresAt \in Nat
      BY <3>1 DEF Entry, Instant
    <3> QED BY <2>1, <3>1, <3>2, LongestFacts, PriceCacheAssumption DEF Servable, EntryInv
  <2>2. ASSUME NEW t \in Caller, sentAt[t] # None
        PROVE  /\ sentAt[t] - price[t] <= CacheTime + LongestFetch + MaxDelay
               /\ sentAt[t] - owner[t] <= NameTime + 5 * MaxDelay
    BY <2>2, OwnerAges DEF Inv, TransferInv, StageInv, OwnerInv, PaidInv
  <2> QED BY <2>1, <2>2 DEF WhatIsUsedIsRecent
<1> QED BY <1>1, Invariance, PTL

\* Responses overtake each other, but no watcher of a token is told a price that
\* is older than one it was told before by more than a fetch takes
\* (watchTokenPrice, jupiter.ts:144-157).
THEOREM PricesGoBackLittle == Spec => []PricesGoBackOneFetch
<1>1. Inv => PricesGoBackOneFetch
  BY DEF Inv, ToldInv, PricesGoBackOneFetch
<1> QED BY <1>1, Invariance, PTL

\* What the caches hold after clearCache is no older than the requests that were
\* under way (clearCache of jupiter.ts and ans.ts).
THEOREM ClearedStaysGone == Spec => []ClearedIsGone
<1>1. Inv => ClearedIsGone
  BY DEF Inv, PriceInv, EntryInv, ClearInv, NameInv, NameEntryInv, ClearedIsGone
<1> QED BY <1>1, Invariance, PTL

-----------------------------------------------------------------------------
\* Watchers call back in time.

PollPlaces == {"balance", "accounts", "priced"} \cup Fetching

\* The requests that poll c has still to make take no longer than until d.
EndsBy(c, d) ==
  LET n == Len(Asks[c])
  IN  /\ pc[c] = "balance" => since[c] + Span(n + 3) <= d
      /\ pc[c] = "accounts" => since[c] + Span(n + 2) <= d
      /\ pc[c] = "fetching" => since[c] + Span(n + 1) <= d
      /\ pc[c] = "storing" => now + Span(n + 1 - First(c)) <= d
      /\ pc[c] = "naming" => since[c] + Span(n + 1 - First(c)) <= d
      /\ pc[c] = "priced" => now <= d

\* Of a watcher that is not stopped, either a poll ends or the interval fires in
\* time; of one that is stopped, all polls end in time.
WatchInv(w) ==
  /\ toldAt[w] \in Instant /\ toldAt[w] <= now
  /\ \A c \in Busy(w) : pc[c] \in PollPlaces /\ EndsBy(c, now + PollTime(w))
  /\ watching[w] = "no" => nextAt[w] = None
  /\ watching[w] = "yes" =>
       /\ nextAt[w] \in Nat /\ now <= nextAt[w] /\ nextAt[w] <= now + Interval[w]
       /\ \/ nextAt[w] <= toldAt[w] + Interval[w]
          \/ \E c \in Busy(w) : EndsBy(c, toldAt[w] + Interval[w] + PollTime(w))
  /\ watching[w] = "stopped" =>
       /\ nextAt[w] = None
       /\ toldAt[w] <= stoppedAt[w] + PollTime(w)
       /\ \A c \in Busy(w) : EndsBy(c, stoppedAt[w] + PollTime(w))

CallInv ==
  /\ toldAt \in [Watcher -> Instant]
  /\ \A w \in Watcher : WatchInv(w)
  /\ \A c \in Call : pc[c] # "idle" => c \in Caller \cup Poll

LEMMA PollTimes ==
  ASSUME NEW w \in Watcher
  PROVE  /\ PollTime(w) \in Nat /\ Interval[w] \in Nat
         /\ \A c \in PollOf[w] :
              /\ c \in Call /\ c \notin Caller /\ c \in Poll /\ WatcherOf(c) = w
              /\ Len(Asks[c]) \in Nat
              /\ w \in Portfolio => PollTime(w) = Span(Len(Asks[c]) + 3)
              /\ w \notin Portfolio => PollTime(w) = Span(Len(Asks[c]) + 1)
<1> DEFINE n == Len(MintsOf[w])
<1>1. n \in Nat /\ Interval[w] \in Nat /\ MaxDelay \in Nat
  BY ClientsAssumption, ClockAssumption
<1>2. PollTime(w) = (IF w \in Portfolio THEN 2 * MaxDelay ELSE 0) + (1 + n) * MaxDelay
  BY DEF PollTime, FetchTime
<1> HIDE DEF n
<1>3. (1 + n) * MaxDelay \in Nat /\ (1 + n) * MaxDelay = (n + 1) * MaxDelay
      /\ 2 * MaxDelay + (1 + n) * MaxDelay = (n + 3) * MaxDelay
  BY <1>1
<1>4. ASSUME NEW c \in PollOf[w]
      PROVE  c \in Call /\ c \notin Caller /\ c \in Poll /\ WatcherOf(c) = w /\ Len(Asks[c]) = n
  <2>1. c \in Call /\ c \notin Caller /\ Asks[c] = MintsOf[w]
    BY ClientsAssumption
  <2>2. \A v \in Watcher : c \in PollOf[v] => v = w
    BY ClientsAssumption
  <2>3. WatcherOf(c) = w
    BY <2>2 DEF WatcherOf
  <2> QED BY <2>1, <2>3 DEF Poll, n
<1>5. PollTime(w) \in Nat
  BY <1>1, <1>2, <1>3
<1>6. /\ w \in Portfolio => PollTime(w) = Span(n + 3)
      /\ w \notin Portfolio => PollTime(w) = Span(n + 1)
  BY <1>1, <1>2, <1>3 DEF Span
<1> QED BY <1>1, <1>4, <1>5, <1>6

LEMMA SpanSteps ==
  ASSUME NEW n \in Nat
  PROVE  /\ Span(n) \in Nat /\ Span(n + 1) = Span(n) + MaxDelay /\ Span(n + 1) \in Nat
         /\ Span(n + 2) = Span(n + 1) + MaxDelay /\ Span(n + 2) \in Nat
         /\ Span(n + 3) = Span(n + 2) + MaxDelay /\ Span(n + 3) \in Nat
         /\ \A k \in Nat : 1 <= k /\ k <= n =>
              /\ Span(n + 1 - k) \in Nat /\ MaxDelay <= Span(n + 1 - k)
              /\ Span(n + 1 - k) <= Span(n)
<1>1. MaxDelay \in Nat
  BY ClockAssumption
<1>2. ASSUME NEW i \in Nat, NEW j \in Nat, i <= j
      PROVE  Span(i) \in Nat /\ Span(i) <= Span(j)
  BY <1>2, SpanFacts
<1>3. ASSUME NEW i \in Nat
      PROVE  Span(i + 1) = Span(i) + MaxDelay /\ Span(i) \in Nat
  BY SpanFacts
<1>4. Span(n) \in Nat /\ Span(n + 1) = Span(n) + MaxDelay
  BY <1>3
<1>5. Span(n + 2) = Span(n + 1) + MaxDelay
  <2>1. Span((n + 1) + 1) = Span(n + 1) + MaxDelay
    <3> DEFINE i == n + 1
    <3>1. i \in Nat
      OBVIOUS
    <3> HIDE DEF i
    <3>2. Span(i + 1) = Span(i) + MaxDelay
      BY <1>3, <3>1
    <3> QED BY <3>2 DEF i
  <2>2. (n + 1) + 1 = n + 2
    OBVIOUS
  <2> QED BY <2>1, <2>2
<1>6. Span(n + 3) = Span(n + 2) + MaxDelay
  <2>1. Span((n + 2) + 1) = Span(n + 2) + MaxDelay
    <3> DEFINE i == n + 2
    <3>1. i \in Nat
      OBVIOUS
    <3> HIDE DEF i
    <3>2. Span(i + 1) = Span(i) + MaxDelay
      BY <1>3, <3>1
    <3> QED BY <3>2 DEF i
  <2>2. (n + 2) + 1 = n + 3
    OBVIOUS
  <2> QED BY <2>1, <2>2
<1>7. ASSUME NEW k \in Nat, 1 <= k, k <= n
      PROVE  /\ Span(n + 1 - k) \in Nat /\ MaxDelay <= Span(n + 1 - k)
             /\ Span(n + 1 - k) <= Span(n)
  <2> DEFINE i == n + 1 - k
  <2>1. i \in Nat /\ 1 <= i /\ i <= n
    BY <1>7
  <2> HIDE DEF i
  <2>2. Span(i) \in Nat /\ Span(1) <= Span(i) /\ Span(i) <= Span(n)
    BY <1>2, <2>1
  <2> QED BY <2>2, SpanFacts DEF i
<1> QED BY <1>1, <1>4, <1>5, <1>6, <1>7

\* One request less is at least MaxDelay less.
LEMMA SpanGap ==
  ASSUME NEW i \in Nat, NEW j \in Nat, i < j
  PROVE  Span(i) \in Nat /\ Span(j) \in Nat /\ Span(i) + MaxDelay <= Span(j)
<1> DEFINE i1 == i + 1
<1>1. i1 \in Nat /\ i1 <= j
  OBVIOUS
<1>2. Span(i1) = Span(i) + MaxDelay
  BY SpanFacts
<1> HIDE DEF i1
<1>3. Span(i1) <= Span(j) /\ Span(i) \in Nat /\ Span(j) \in Nat
  BY <1>1, SpanFacts
<1> QED BY <1>2, <1>3

\* As the client goes on with a poll, or answers it, less is left of it.
LEMMA ClientEndsBy ==
  ASSUME Inv, Inv', now' = now, NEW c \in Call, pc[c] \in PollPlaces, Respond(c) \/ Go(c)
  PROVE  pc'[c] \in PollPlaces /\ \A d \in Nat : EndsBy(c, d) => EndsBy(c, d)'
<1> DEFINE n == Len(Asks[c])
           k == First(c)
           h == First(c)'
<1>1. /\ pc \in [Call -> Waiting \cup Running \cup {"idle"}] /\ since \in [Call -> Instant]
      /\ now \in Nat /\ since[c] \in Nat /\ MaxDelay \in Nat
      /\ pc[c] \in Waiting => now <= since[c] + MaxDelay
  BY ClockAssumption DEF Inv, PriceInv, PriceTypes, FetchInv, Instant
<1>2. n \in Nat
  BY LongestFacts
<1>3. pc[c] \in Fetching => k \in todo[c] /\ (\A j \in todo[c] : k <= j)
                            /\ k \in Nat /\ 1 <= k /\ k <= n
  BY FirstOf DEF Inv
<1>4. pc'[c] \in Fetching => h \in todo'[c] /\ h \in Nat /\ 1 <= h /\ h <= n
  <2> SUFFICES ASSUME pc'[c] \in Fetching
               PROVE  h \in todo'[c] /\ h \in Nat /\ 1 <= h /\ h <= n
    OBVIOUS
  <2> DEFINE T == todo'[c]
  <2>1. T # {} /\ T \subseteq 1 .. n
    BY DEF Inv, PriceInv, FetchInv
  <2>2. T \subseteq Nat
    BY <1>2, <2>1
  <2>3. \E i \in T : \A j \in T : i <= j
    BY <2>1, <2>2, LeastOfNat
  <2>4. h \in T
    BY <2>3 DEF First
  <2> QED BY <1>2, <2>1, <2>4
<1> HIDE DEF n
<1>5. CASE PricesAnswered(c) \/ PricesFailed(c)
  <2>1. pc[c] = "fetching" /\ pc'[c] \in {"storing", "priced"}
    BY <1>1, <1>5 DEF PricesAnswered, PricesFailed
  <2>2. ASSUME NEW d \in Nat, since[c] + Span(n + 1) <= d
        PROVE  EndsBy(c, d)'
    <3>1. CASE pc'[c] = "priced"
      <4>1. Span(n) \in Nat /\ Span(n + 1) = Span(n) + MaxDelay
        BY <1>2, SpanSteps
      <4>2. now <= d
        BY <1>1, <2>1, <2>2, <4>1 DEF Waiting
      <4> QED BY <3>1, <4>2 DEF EndsBy
    <3>2. CASE pc'[c] = "storing"
      <4>1. h \in Nat /\ 1 <= h /\ h <= n
        BY <1>4, <3>2 DEF Fetching
      <4> HIDE DEF h
      <4>2. Span(n + 1 - h) \in Nat /\ Span(n + 1 - h) <= Span(n) /\ Span(n) \in Nat
            /\ Span(n + 1) = Span(n) + MaxDelay
        BY <1>2, <4>1, SpanSteps
      <4>3. now + Span(n + 1 - h) <= d
        BY <1>1, <2>1, <2>2, <4>2 DEF Waiting
      <4> QED BY <3>2, <4>3 DEF EndsBy, h, n
    <3> QED BY <2>1, <3>1, <3>2
  <2> QED BY <2>1, <2>2 DEF EndsBy, PollPlaces, Fetching, n
<1>6. CASE AskSymbol(c)
  <2>1. pc[c] = "storing" /\ pc'[c] = "naming" /\ since'[c] = now /\ h = k
    BY <1>1, <1>6 DEF AskSymbol, First
  <2> QED BY <2>1 DEF EndsBy, PollPlaces, Fetching
<1>7. CASE StorePrice(c) \/ SymbolAnswered(c)
  <2>1. pc[c] \in {"storing", "naming"} /\ Stored(c) /\ since' = since
    BY <1>7 DEF StorePrice, SymbolAnswered
  <2>2. todo' = [todo EXCEPT ![c] = todo[c] \ {k}] /\ pc'[c] \in {"storing", "priced"}
    BY <1>1, <2>1 DEF Stored
  <2>3. todo'[c] = todo[c] \ {k}
    BY <2>2 DEF Inv, PriceInv, PriceTypes
  <2>4. k \in Nat /\ 1 <= k /\ k <= n /\ \A j \in todo[c] : k <= j
    BY <1>3, <2>1 DEF Fetching
  <2>5. Span(n + 1 - k) \in Nat /\ MaxDelay <= Span(n + 1 - k)
    BY <1>2, <2>4, SpanSteps
  <2>6. ASSUME NEW d \in Nat, EndsBy(c, d)
        PROVE  EndsBy(c, d)'
    <3>1. /\ pc[c] = "storing" => now + Span(n + 1 - k) <= d
          /\ pc[c] = "naming" => since[c] + Span(n + 1 - k) <= d
      BY <2>6 DEF EndsBy, n
    <3>2. CASE pc'[c] = "priced"
      <4> HIDE DEF k
      <4>1. now <= d
        BY <1>1, <2>1, <2>5, <3>1 DEF Waiting
      <4> QED BY <3>2, <4>1 DEF EndsBy
    <3>3. CASE pc'[c] = "storing"
      <4>1. h \in Nat /\ h <= n /\ h \in todo[c] /\ h # k
        BY <1>4, <2>3, <3>3 DEF Fetching
      <4> HIDE DEF h, k
      <4>2. k < h
        BY <2>4, <4>1
      <4>3. Span(n + 1 - h) + MaxDelay <= Span(n + 1 - k) /\ Span(n + 1 - h) \in Nat
        <5> DEFINE i == n + 1 - h
                   j == n + 1 - k
        <5>1. i \in Nat /\ j \in Nat /\ i < j
          BY <1>2, <2>4, <4>1, <4>2
        <5> HIDE DEF i, j
        <5>2. Span(i) + MaxDelay <= Span(j) /\ Span(i) \in Nat
          BY <5>1, SpanGap
        <5> QED BY <5>2 DEF i, j
      <4>4. now + Span(n + 1 - h) <= d
        BY <1>1, <2>1, <2>5, <3>1, <4>3 DEF Waiting
      <4> QED BY <3>3, <4>4 DEF EndsBy, h, n
    <3> QED BY <2>2, <3>2, <3>3
  <2> QED BY <2>2, <2>6 DEF PollPlaces, Fetching
<1>8. CASE ListAnswered(c) \/ ListFailed(c)
  BY <1>8 DEF ListAnswered, ListFailed, PollPlaces, Fetching
<1> QED BY <1>5, <1>6, <1>7, <1>8 DEF Respond, Go

\* So it does when the holdings of a portfolio arrive.
LEMMA HoldingsEndBy ==
  ASSUME Inv, now' = now, NEW c \in Call, BalanceRead(c) \/ AccountsRead(c)
  PROVE  /\ pc[c] \in PollPlaces /\ pc'[c] \in PollPlaces
         /\ \A d \in Nat : EndsBy(c, d) => EndsBy(c, d)'
<1> DEFINE n == Len(Asks[c])
<1>1. /\ pc \in [Call -> Waiting \cup Running \cup {"idle"}] /\ since \in [Call -> Instant]
      /\ now \in Nat /\ since[c] \in Nat /\ MaxDelay \in Nat
      /\ pc[c] \in Waiting => now <= since[c] + MaxDelay
  BY ClockAssumption DEF Inv, PriceInv, PriceTypes, FetchInv, Instant
<1>2. n \in Nat
  BY LongestFacts
<1> HIDE DEF n
<1>3. CASE BalanceRead(c)
  <2>1. pc[c] = "balance" /\ pc'[c] = "accounts" /\ since'[c] = now
    BY <1>1, <1>3 DEF BalanceRead, AwaitOther, Leave
  <2>2. now <= since[c] + MaxDelay
    BY <1>1, <2>1 DEF Waiting, Other
  <2>3. ASSUME NEW d \in Nat, since[c] + Span(n + 3) <= d
        PROVE  now + Span(n + 2) <= d
    BY <1>1, <1>2, <2>2, <2>3, SpanSteps
  <2> QED BY <2>1, <2>3 DEF EndsBy, PollPlaces, n
<1>4. CASE AccountsRead(c)
  <2>1. pc[c] = "accounts" /\ pc'[c] \in {"fetching", "priced"} /\ since'[c] = now
    BY <1>1, <1>4 DEF AccountsRead, getTokenPrices
  <2>2. now <= since[c] + MaxDelay
    BY <1>1, <2>1 DEF Waiting, Other
  <2>3. ASSUME NEW d \in Nat, since[c] + Span(n + 2) <= d
        PROVE  now + Span(n + 1) <= d /\ now <= d
    <3>1. Span(n + 1) \in Nat /\ Span(n + 2) = Span(n + 1) + MaxDelay
      BY <1>2, SpanSteps
    <3> QED BY <1>1, <2>2, <2>3, <3>1
  <2>4. ASSUME NEW d \in Nat, EndsBy(c, d)
        PROVE  EndsBy(c, d)'
    <3>1. now + Span(n + 1) <= d /\ now <= d
      BY <2>1, <2>3, <2>4 DEF EndsBy, n
    <3> QED BY <2>1, <3>1 DEF EndsBy, n
  <2> QED BY <2>1, <2>4 DEF PollPlaces, Fetching
<1> QED BY <1>3, <1>4

\* A poll that begins has PollTime.
LEMMA StartEndsBy ==
  ASSUME Inv, now' = now, NEW w \in Watcher, NEW c \in PollOf[w], StartPoll(w, c)
  PROVE  /\ pc[c] = "idle" /\ pc'[c] \in PollPlaces
         /\ \A d \in Nat : now + PollTime(w) <= d => EndsBy(c, d)'
<1> DEFINE n == Len(Asks[c])
<1>1. /\ pc \in [Call -> Waiting \cup Running \cup {"idle"}] /\ since \in [Call -> Instant]
      /\ now \in Nat
  BY DEF Inv, PriceInv, PriceTypes, Instant
<1>2. /\ c \in Call /\ n \in Nat
      /\ w \in Portfolio => PollTime(w) = Span(n + 3)
      /\ w \notin Portfolio => PollTime(w) = Span(n + 1)
  BY PollTimes
<1> HIDE DEF n
<1>3. Span(n + 1) \in Nat /\ Span(n + 3) \in Nat
  BY <1>2, SpanSteps
<1>4. CASE w \in Portfolio
  <2>1. pc[c] = "idle" /\ pc'[c] = "balance" /\ since'[c] = now
    BY <1>1, <1>2, <1>4 DEF StartPoll, AwaitOther, Leave
  <2> QED BY <1>2, <1>4, <2>1 DEF EndsBy, PollPlaces, n
<1>5. CASE w \notin Portfolio
  <2>1. pc[c] = "idle" /\ pc'[c] \in {"fetching", "priced"} /\ since'[c] = now
    BY <1>1, <1>2, <1>5 DEF StartPoll, getTokenPrices
  <2>2. ASSUME NEW d \in Nat, now + PollTime(w) <= d
        PROVE  EndsBy(c, d)'
    <3>1. now + Span(n + 1) <= d /\ now <= d
      BY <1>1, <1>2, <1>3, <1>5, <2>2
    <3> QED BY <2>1, <3>1 DEF EndsBy, n
  <2> QED BY <2>1, <2>2 DEF PollPlaces, Fetching
<1> QED BY <1>4, <1>5

\* A poll that has not ended has time left.
LEMMA EndsLater ==
  ASSUME Inv, NEW c \in Call, pc[c] \in PollPlaces, NEW d \in Nat, EndsBy(c, d)
  PROVE  now <= d
<1> DEFINE n == Len(Asks[c])
           k == First(c)
<1>1. /\ now \in Nat /\ since[c] \in Nat /\ MaxDelay \in Nat
      /\ pc[c] \in Waiting => now <= since[c] + MaxDelay
  BY ClockAssumption DEF Inv, PriceInv, PriceTypes, FetchInv, Instant
<1>2. n \in Nat
  BY LongestFacts
<1>3. pc[c] \in Fetching => k \in Nat /\ 1 <= k /\ k <= n
  BY FirstOf DEF Inv
<1>4. /\ pc[c] = "balance" => since[c] + Span(n + 3) <= d
      /\ pc[c] = "accounts" => since[c] + Span(n + 2) <= d
      /\ pc[c] = "fetching" => since[c] + Span(n + 1) <= d
      /\ pc[c] = "storing" => now + Span(n + 1 - k) <= d
      /\ pc[c] = "naming" => since[c] + Span(n + 1 - k) <= d
      /\ pc[c] = "priced" => now <= d
  BY DEF EndsBy
<1> HIDE DEF n, k
<1>5. CASE pc[c] \in {"balance", "accounts", "fetching", "priced"}
  <2>1. /\ Span(n) \in Nat /\ Span(n + 1) = Span(n) + MaxDelay
        /\ Span(n + 2) = Span(n + 1) + MaxDelay /\ Span(n + 3) = Span(n + 2) + MaxDelay
    BY <1>2, SpanSteps
  <2> QED BY <1>1, <1>4, <1>5, <2>1 DEF Waiting, Other
<1>6. CASE pc[c] \in {"storing", "naming"}
  <2>1. Span(n + 1 - k) \in Nat /\ MaxDelay <= Span(n + 1 - k)
    BY <1>2, <1>3, <1>6, SpanSteps DEF Fetching
  <2> QED BY <1>1, <1>4, <1>6, <2>1 DEF Waiting
<1> QED BY <1>5, <1>6 DEF PollPlaces, Fetching

\* Another call's deadline does not move.
LEMMA OthersEndBy ==
  ASSUME NEW c \in Call, now' = now, pc'[c] = pc[c], since'[c] = since[c], todo'[c] = todo[c]
  PROVE  \A d \in Nat : EndsBy(c, d)' <=> EndsBy(c, d)
<1>1. First(c)' = First(c)
  BY DEF First
<1> QED BY <1>1 DEF EndsBy

\* A step that starts no poll and ends none.
LEMMA WatchersStay ==
  ASSUME Inv, CallInv, now' = now, UNCHANGED watchVars,
         \A c \in Call \ Caller :
           \/ pc[c] = "idle" /\ pc'[c] = "idle"
           \/ /\ pc[c] # "idle" /\ pc'[c] \in PollPlaces
              /\ \A d \in Nat : EndsBy(c, d) => EndsBy(c, d)'
  PROVE  CallInv'
<1>0. now \in Nat /\ UNCHANGED <<watching, nextAt, stoppedAt, toldAt>>
  BY DEF Inv, PriceInv, PriceTypes, Instant, watchVars
<1>1. ASSUME NEW w \in Watcher
      PROVE  WatchInv(w)'
  <2> DEFINE P == PollTime(w)
             a == toldAt[w] + Interval[w] + P
             b == stoppedAt[w] + P
  <2>1. P \in Nat /\ Interval[w] \in Nat /\ PollOf[w] \subseteq Call \ Caller
    BY PollTimes
  <2>2. toldAt[w] \in Nat /\ stoppedAt[w] \in Nat
    BY DEF CallInv, WatchInv, Inv, WatchTypes, Instant
  <2>3. a \in Nat /\ b \in Nat /\ now + P \in Nat
    BY <1>0, <2>1, <2>2
  <2>4. PollTime(w)' = P /\ a' = a /\ b' = b /\ now' + P = now + P
    BY <1>0 DEF PollTime, FetchTime
  <2>5. "idle" \notin PollPlaces
    BY DEF PollPlaces, Fetching
  <2>6. Busy(w)' = Busy(w)
    BY <2>1, <2>5 DEF Busy
  <2>7. ASSUME NEW c \in Busy(w)
        PROVE  pc'[c] \in PollPlaces /\ \A d \in Nat : EndsBy(c, d) => EndsBy(c, d)'
    BY <2>1, <2>7 DEF Busy
  <2>8. WatchInv(w)
    BY DEF CallInv
  <2>9. \A c \in Busy(w) : EndsBy(c, now + P)
    BY <2>8 DEF WatchInv
  <2>10. \A c \in Busy(w)' : pc'[c] \in PollPlaces /\ EndsBy(c, now + PollTime(w))'
    <3> SUFFICES ASSUME NEW c \in Busy(w)
                 PROVE  pc'[c] \in PollPlaces /\ EndsBy(c, now + PollTime(w))'
      BY <2>6
    <3> DEFINE d == now + P
    <3>1. d \in Nat /\ EndsBy(c, d)
      BY <2>3, <2>9
    <3>2. pc'[c] \in PollPlaces /\ EndsBy(c, d)'
      BY <2>7, <3>1
    <3> QED BY <2>4, <3>2
  <2>11. watching'[w] = "yes" => nextAt'[w] <= toldAt'[w] + Interval[w]
                                 \/ \E c \in Busy(w)' : EndsBy(c, toldAt[w] + Interval[w] + PollTime(w))'
    <3> SUFFICES ASSUME watching[w] = "yes", ~ (nextAt[w] <= toldAt[w] + Interval[w])
                 PROVE  \E c \in Busy(w)' : EndsBy(c, toldAt[w] + Interval[w] + PollTime(w))'
      BY <1>0
    <3>1. PICK c \in Busy(w) : EndsBy(c, a)
      BY <2>8 DEF WatchInv
    <3>2. a' = a /\ a \in Nat /\ \A d \in Nat : EndsBy(c, d) => EndsBy(c, d)'
      BY <2>3, <2>4, <2>7
    <3> HIDE DEF a
    <3>3. EndsBy(c, a)'
      BY <3>1, <3>2 DEF EndsBy
    <3> QED BY <2>6, <3>3 DEF a
  <2>12. watching'[w] = "stopped" => \A c \in Busy(w)' : EndsBy(c, stoppedAt[w] + PollTime(w))'
    <3> SUFFICES ASSUME watching[w] = "stopped", NEW c \in Busy(w)
                 PROVE  EndsBy(c, stoppedAt[w] + PollTime(w))'
      BY <1>0, <2>6
    <3>1. EndsBy(c, b)
      BY <2>8 DEF WatchInv
    <3>2. b' = b /\ b \in Nat /\ \A d \in Nat : EndsBy(c, d) => EndsBy(c, d)'
      BY <2>3, <2>4, <2>7
    <3> HIDE DEF b
    <3>3. EndsBy(c, b)'
      BY <3>1, <3>2 DEF EndsBy
    <3> QED BY <3>3 DEF b
  <2> QED BY <1>0, <2>4, <2>8, <2>10, <2>11, <2>12 DEF WatchInv
<1>2. \A c \in Call : pc'[c] # "idle" => c \in Caller \cup Poll
  BY DEF CallInv
<1> QED BY <1>0, <1>1, <1>2 DEF CallInv

\* Where a poll is that has not called back.
LEMMA PollPlace ==
  ASSUME CallInv, NEW c \in Call \ Caller, pc[c] # "idle"
  PROVE  pc[c] \in PollPlaces /\ WatcherOf(c) \in Watcher /\ c \in Busy(WatcherOf(c))
<1>1. PICK w \in Watcher : c \in PollOf[w]
  BY DEF CallInv, Poll
<1>2. WatcherOf(c) = w /\ c \in Busy(w)
  BY <1>1, PollTimes DEF Busy
<1> QED BY <1>1, <1>2 DEF CallInv, WatchInv

\* A step of one call that is no poll, or is one that goes on.
LEMMA OneCallGoesOn ==
  ASSUME Inv, CallInv, now' = now, UNCHANGED watchVars, NEW c \in Call, OthersStay(c),
         c \notin Caller => /\ pc[c] # "idle" /\ pc'[c] \in PollPlaces
                            /\ \A d \in Nat : EndsBy(c, d) => EndsBy(c, d)'
  PROVE  CallInv'
<1>1. ASSUME NEW b \in Call \ Caller, b # c
      PROVE  \/ pc[b] = "idle" /\ pc'[b] = "idle"
             \/ /\ pc[b] # "idle" /\ pc'[b] \in PollPlaces
                /\ \A d \in Nat : EndsBy(b, d) => EndsBy(b, d)'
  <2>1. pc'[b] = pc[b] /\ since'[b] = since[b] /\ todo'[b] = todo[b]
    BY <1>1 DEF OthersStay
  <2>2. \A d \in Nat : EndsBy(b, d)' <=> EndsBy(b, d)
    BY <2>1, OthersEndBy
  <2> QED BY <2>1, <2>2, PollPlace
<1>2. \A b \in Call \ Caller :
        \/ pc[b] = "idle" /\ pc'[b] = "idle"
        \/ /\ pc[b] # "idle" /\ pc'[b] \in PollPlaces
           /\ \A d \in Nat : EndsBy(b, d) => EndsBy(b, d)'
  <2> TAKE b \in Call \ Caller
  <2> QED BY <1>1
<1> QED BY <1>2, WatchersStay

\* Nothing happens to a watcher or its polls.
LEMMA OtherWatcherStays ==
  ASSUME Inv, CallInv, now' = now, NEW w \in Watcher,
         watching'[w] = watching[w], nextAt'[w] = nextAt[w],
         stoppedAt'[w] = stoppedAt[w], toldAt'[w] = toldAt[w],
         \A c \in PollOf[w] : pc'[c] = pc[c] /\ since'[c] = since[c] /\ todo'[c] = todo[c]
  PROVE  WatchInv(w)'
<1>1. WatchInv(w) /\ PollTime(w)' = PollTime(w) /\ Busy(w)' = Busy(w)
  BY DEF CallInv, PollTime, FetchTime, Busy
<1>2. ASSUME NEW c \in Busy(w)
      PROVE  /\ pc'[c] = pc[c]
             /\ EndsBy(c, now + PollTime(w))' = EndsBy(c, now + PollTime(w))
             /\ EndsBy(c, toldAt[w] + Interval[w] + PollTime(w))'
                  = EndsBy(c, toldAt[w] + Interval[w] + PollTime(w))
             /\ EndsBy(c, stoppedAt[w] + PollTime(w))' = EndsBy(c, stoppedAt[w] + PollTime(w))
  <2>1. pc'[c] = pc[c] /\ since'[c] = since[c] /\ todo'[c] = todo[c]
    BY <1>2 DEF Busy
  <2>2. First(c)' = First(c)
    BY <2>1 DEF First
  <2> QED BY <1>1, <2>1, <2>2 DEF EndsBy
<1> QED BY <1>1, <1>2 DEF WatchInv

\* A poll calls back, and its watcher starts anew to wait for the next.
LEMMA CallBackKeepsCalls ==
  ASSUME Inv, CallInv, now' = now, NEW c \in Call \ Caller, pc[c] # "idle",
         OthersStay(c), pc'[c] = "idle", UNCHANGED <<watching, nextAt, stoppedAt>>,
         toldAt' = [toldAt EXCEPT ![WatcherOf(c)] = now]
  PROVE  CallInv'
<1> DEFINE w == WatcherOf(c)
<1>1. pc[c] \in PollPlaces /\ w \in Watcher /\ c \in Busy(w)
  BY PollPlace
<1>2. now \in Instant /\ now \in Nat
  BY DEF Inv, PriceInv, PriceTypes, Instant
<1> HIDE DEF w
<1>3. toldAt' \in [Watcher -> Instant] /\ toldAt'[w] = now
  BY <1>1, <1>2 DEF CallInv, w
<1>4. ASSUME NEW v \in Watcher, v # w
      PROVE  WatchInv(v)'
  <2>1. toldAt'[v] = toldAt[v]
    BY <1>4 DEF CallInv, w
  <2>2. \A b \in PollOf[v] : b \in Call /\ b # c
    BY <1>4, PollTimes DEF w
  <2> QED BY <2>1, <2>2, OtherWatcherStays DEF OthersStay
<1>5. WatchInv(w)'
  <2>1. WatchInv(w) /\ PollTime(w) \in Nat /\ Interval[w] \in Nat /\ stoppedAt[w] \in Nat
    BY <1>1, PollTimes DEF CallInv, Inv, WatchTypes, Instant
  <2>2. Busy(w)' \subseteq Busy(w) \ {c}
    <3>1. \A b \in PollOf[w] : b \in Call
      BY <1>1, PollTimes
    <3> QED BY <3>1 DEF Busy, OthersStay
  <2>3. ASSUME NEW b \in Busy(w)'
        PROVE  /\ pc'[b] \in PollPlaces
               /\ EndsBy(b, now + PollTime(w))'
               /\ watching[w] = "stopped" => EndsBy(b, stoppedAt[w] + PollTime(w))'
    <3>1. b \in Busy(w) /\ b \in Call /\ b # c
      BY <1>1, <2>2, <2>3, PollTimes DEF Busy
    <3>2. pc'[b] = pc[b] /\ since'[b] = since[b] /\ todo'[b] = todo[b]
      BY <3>1 DEF OthersStay
    <3>3. First(b)' = First(b) /\ PollTime(w)' = PollTime(w)
      BY <3>2 DEF First, PollTime, FetchTime
    <3> QED BY <2>1, <3>1, <3>2, <3>3 DEF WatchInv, EndsBy
  <2>4. watching[w] = "stopped" => now <= stoppedAt[w] + PollTime(w)
    <3> SUFFICES ASSUME watching[w] = "stopped"
                 PROVE  now <= stoppedAt[w] + PollTime(w)
      OBVIOUS
    <3> DEFINE d == stoppedAt[w] + PollTime(w)
    <3>1. d \in Nat /\ EndsBy(c, d)
      BY <1>1, <2>1 DEF WatchInv
    <3> HIDE DEF d
    <3>2. now <= d
      BY <1>1, <3>1, EndsLater
    <3> QED BY <3>2 DEF d
  <2>5. PollTime(w)' = PollTime(w)
    BY DEF PollTime, FetchTime
  <2> QED BY <1>2, <1>3, <2>1, <2>3, <2>4, <2>5 DEF WatchInv
<1>6. \A b \in Call : pc'[b] # "idle" => b \in Caller \cup Poll
  BY DEF CallInv, OthersStay
<1> QED BY <1>3, <1>4, <1>5, <1>6 DEF CallInv

\* A watcher starts, or its interval fires: a poll begins that has PollTime.
LEMMA WatchKeepsCalls ==
  ASSUME Inv, CallInv, NEW w \in Watcher, AllQuiet, watch(w) \/ IntervalFires(w)
  PROVE  CallInv'
<1>1. PICK c \in PollOf[w] : StartPoll(w, c)
  BY DEF watch, IntervalFires
<1>2. /\ now' = now /\ UNCHANGED stoppedAt
      /\ watching' \in [Watcher -> {"no", "yes", "stopped"}]
      /\ toldAt' \in [Watcher -> Instant]
      /\ nextAt' = [nextAt EXCEPT ![w] = now + Interval[w]]
      /\ watching'[w] = "yes"
      /\ \/ /\ toldAt'[w] \in Nat /\ toldAt'[w] <= now
            /\ now <= toldAt'[w] + Interval[w]
         \/ /\ toldAt'[w] = toldAt[w]
            /\ \E b \in Busy(w) : EndsBy(b, toldAt[w] + Interval[w] + PollTime(w))
      /\ \A v \in Watcher \ {w} : watching'[v] = watching[v] /\ toldAt'[v] = toldAt[v]
  <2>1. /\ now \in Nat /\ now \in Instant /\ Interval[w] \in Nat
        /\ toldAt \in [Watcher -> Instant] /\ WatchInv(w) /\ toldAt[w] \in Nat
        /\ watching \in [Watcher -> {"no", "yes", "stopped"}] /\ None \notin Int
    BY PollTimes, PriceCacheAssumption
       DEF Inv, PriceInv, PriceTypes, Instant, CallInv, WatchTypes
  <2>2. CASE watch(w)
    BY <2>1, <2>2 DEF watch
  <2>3. CASE IntervalFires(w)
    <3>1. nextAt[w] = now /\ UNCHANGED <<watching, stoppedAt, toldAt, now>>
          /\ nextAt' = [nextAt EXCEPT ![w] = now + Interval[w]]
      BY <2>3 DEF IntervalFires
    <3>2. watching[w] = "yes"
      BY <2>1, <3>1 DEF WatchInv
    <3>3. \/ now <= toldAt[w] + Interval[w]
          \/ \E b \in Busy(w) : EndsBy(b, toldAt[w] + Interval[w] + PollTime(w))
      BY <2>1, <3>1, <3>2 DEF WatchInv
    <3>4. toldAt[w] <= now
      BY <2>1 DEF WatchInv
    <3> QED BY <2>1, <3>1, <3>2, <3>3, <3>4
  <2> QED BY <2>2, <2>3
<1>3. c \in Call \ Caller /\ PollTime(w) \in Nat /\ Interval[w] \in Nat
      /\ now \in Nat /\ nextAt \in [Watcher -> Nat \cup {None}] /\ WatchInv(w)
  BY PollTimes DEF Inv, PriceInv, PriceTypes, Instant, WatchTypes, CallInv
<1>4. OthersStay(c)
  <2>1. OthersWait(c) /\ PriceInv
    BY <1>3, AloneFacts DEF Inv
  <2> QED BY <1>1, <1>2, <2>1, StartPollKeepsPrices
<1>5. /\ pc[c] = "idle" /\ pc'[c] \in PollPlaces
      /\ \A d \in Nat : now + PollTime(w) <= d => EndsBy(c, d)'
  BY <1>1, <1>2, StartEndsBy
<1>6. PollTime(w)' = PollTime(w)
  BY DEF PollTime, FetchTime
<1>7. ASSUME NEW v \in Watcher, v # w
      PROVE  WatchInv(v)'
  <2>1. \A b \in PollOf[v] : b \in Call /\ b # c
    <3>1. WatcherOf(c) = w /\ \A b \in PollOf[v] : b \in Call /\ WatcherOf(b) = v
      BY PollTimes
    <3> QED BY <1>7, <3>1
  <2>2. nextAt'[v] = nextAt[v] /\ watching'[v] = watching[v] /\ toldAt'[v] = toldAt[v]
        /\ stoppedAt'[v] = stoppedAt[v]
    BY <1>2, <1>3, <1>7
  <2>3. \A b \in PollOf[v] : pc'[b] = pc[b] /\ since'[b] = since[b] /\ todo'[b] = todo[b]
    BY <1>4, <2>1 DEF OthersStay
  <2> QED BY <1>2, <2>2, <2>3, OtherWatcherStays
<1>8. WatchInv(w)'
  <2>2. ASSUME NEW b \in Busy(w)'
        PROVE  pc'[b] \in PollPlaces /\ EndsBy(b, now + PollTime(w))'
    <3> DEFINE d == now + PollTime(w)
    <3>1. d \in Nat /\ d' = d /\ now + PollTime(w) <= d
      BY <1>2, <1>3, <1>6
    <3>2. CASE b = c
      <4> HIDE DEF d
      <4>1. EndsBy(c, d)'
        BY <1>5, <3>1 DEF EndsBy
      <4> QED BY <1>5, <3>2, <4>1 DEF d
    <3>3. CASE b # c
      <4>1. b \in Call
        BY <2>2, PollTimes DEF Busy
      <4>2. pc'[b] = pc[b] /\ since'[b] = since[b] /\ todo'[b] = todo[b]
        BY <1>4, <3>3, <4>1 DEF OthersStay
      <4>3. b \in Busy(w) /\ First(b)' = First(b)
        BY <2>2, <4>2 DEF Busy, First
      <4>4. pc[b] \in PollPlaces /\ EndsBy(b, d)
        BY <1>3, <4>3 DEF WatchInv
      <4> HIDE DEF d
      <4>5. EndsBy(b, d)'
        BY <1>2, <3>1, <4>2, <4>3, <4>4 DEF EndsBy
      <4> QED BY <4>2, <4>4, <4>5 DEF d
    <3> QED BY <3>2, <3>3
  <2>3. nextAt'[w] = now + Interval[w] /\ nextAt'[w] \in Nat
        /\ now <= nextAt'[w] /\ nextAt'[w] <= now + Interval[w]
    BY <1>3, <1>2
  <2>4. \E b \in Busy(w)' : EndsBy(b, toldAt[w] + Interval[w] + PollTime(w))'
    <3> DEFINE a == toldAt[w] + Interval[w] + PollTime(w)
    <3>1. CASE toldAt'[w] \in Nat /\ toldAt'[w] <= now /\ now <= toldAt'[w] + Interval[w]
      <4>1. a' \in Nat /\ now + PollTime(w) <= a'
        BY <1>3, <1>6, <3>1
      <4> HIDE DEF a
      <4>2. EndsBy(c, a)'
        BY <1>5, <4>1 DEF EndsBy
      <4>3. c \in Busy(w)'
        BY <1>5 DEF Busy, PollPlaces, Fetching
      <4> QED BY <4>2, <4>3 DEF a
    <3>2. CASE /\ toldAt'[w] = toldAt[w]
               /\ \E b \in Busy(w) : EndsBy(b, toldAt[w] + Interval[w] + PollTime(w))
      <4>1. PICK b \in Busy(w) : EndsBy(b, a)
        BY <3>2
      <4>2. a' = a
        BY <1>6, <3>2
      <4> HIDE DEF a
      <4>3. EndsBy(b, a)' /\ b \in Busy(w)'
        <5>1. b \in Call /\ b # c
          BY <1>5, PollTimes DEF Busy
        <5>2. pc'[b] = pc[b] /\ since'[b] = since[b] /\ todo'[b] = todo[b]
          BY <1>4, <5>1 DEF OthersStay
        <5>3. First(b)' = First(b)
          BY <5>2 DEF First
        <5> QED BY <1>2, <4>1, <4>2, <5>2, <5>3 DEF EndsBy, Busy
      <4> QED BY <4>3 DEF a
    <3> QED BY <1>2, <3>1, <3>2
  <2>5. toldAt'[w] \in Instant /\ toldAt'[w] <= now
    BY <1>2, <1>3 DEF WatchInv
  <2> QED BY <1>2, <2>2, <2>3, <2>4, <2>5 DEF WatchInv
<1>9. \A b \in Call : pc'[b] # "idle" => b \in Caller \cup Poll
  <2>1. c \in Poll
    BY PollTimes
  <2> QED BY <1>4, <2>1 DEF CallInv, OthersStay
<1> QED BY <1>2, <1>7, <1>8, <1>9 DEF CallInv

\* A watcher that is stopped has only its polls left.
LEMMA StopKeepsCalls ==
  ASSUME Inv, CallInv, NEW w \in Watcher, stop(w)
  PROVE  CallInv'
<1>1. /\ watching[w] = "yes" /\ UNCHANGED <<now, pc, since, todo, toldAt>>
      /\ watching' = [watching EXCEPT ![w] = "stopped"]
      /\ nextAt' = [nextAt EXCEPT ![w] = None]
      /\ stoppedAt' = [stoppedAt EXCEPT ![w] = now]
  BY DEF stop, priceVars, callVars
<1>2. now \in Nat /\ PollTime(w) \in Nat /\ WatchTypes /\ WatchInv(w) /\ toldAt[w] \in Nat
  BY PollTimes DEF Inv, PriceInv, PriceTypes, Instant, CallInv
<1>3. ASSUME NEW v \in Watcher, v # w
      PROVE  WatchInv(v)'
  <2>1. nextAt'[v] = nextAt[v] /\ watching'[v] = watching[v] /\ stoppedAt'[v] = stoppedAt[v]
        /\ toldAt'[v] = toldAt[v]
    BY <1>1, <1>2, <1>3 DEF WatchTypes
  <2> QED BY <1>1, <2>1, OtherWatcherStays
<1>4. WatchInv(w)'
  <2>1. Busy(w)' = Busy(w) /\ PollTime(w)' = PollTime(w)
    BY <1>1 DEF Busy, PollTime, FetchTime
  <2>2. watching'[w] = "stopped" /\ nextAt'[w] = None /\ stoppedAt'[w] = now
    BY <1>1, <1>2 DEF WatchTypes
  <2>3. ASSUME NEW b \in Busy(w)
        PROVE  /\ pc'[b] \in PollPlaces /\ EndsBy(b, now + PollTime(w))'
               /\ EndsBy(b, stoppedAt[w] + PollTime(w))'
    <3>1. First(b)' = First(b)
      BY <1>1 DEF First
    <3> QED BY <1>1, <1>2, <2>1, <2>2, <3>1 DEF WatchInv, EndsBy
  <2>4. toldAt'[w] \in Instant /\ toldAt'[w] <= now /\ toldAt'[w] <= now + PollTime(w)
    BY <1>1, <1>2 DEF WatchInv
  <2> QED BY <1>1, <2>1, <2>2, <2>3, <2>4 DEF WatchInv
<1> QED BY <1>1, <1>3, <1>4 DEF CallInv

\* While time passes polls wait, and no interval is due.
LEMMA TickKeepsCalls ==
  ASSUME Inv, CallInv, AllQuiet, Tick
  PROVE  CallInv'
<1>1. /\ now \in Nat /\ now' = now + 1 /\ now' \in Instant
      /\ UNCHANGED <<pc, since, todo, toldAt, watching, nextAt, stoppedAt>>
      /\ \A w \in Watcher : nextAt[w] # now
  BY ClockAssumption DEF Tick, Advance, Inv, PriceInv, PriceTypes, Instant, priceVars, callVars, watchVars
<1>2. ASSUME NEW w \in Watcher
      PROVE  WatchInv(w)'
  <2>1. /\ WatchInv(w) /\ PollTime(w) \in Nat /\ Interval[w] \in Nat
        /\ toldAt[w] \in Instant /\ toldAt[w] \in Nat
        /\ nextAt[w] \in Nat \cup {None}
    BY PollTimes DEF CallInv, WatchInv, Instant, Inv, WatchTypes
  <2>2. Busy(w)' = Busy(w) /\ PollTime(w)' = PollTime(w)
    BY <1>1 DEF Busy, PollTime, FetchTime
  <2>3. ASSUME NEW c \in Busy(w)
        PROVE  /\ pc'[c] = pc[c] /\ pc'[c] \in PollPlaces /\ EndsBy(c, now + PollTime(w))'
               /\ EndsBy(c, toldAt[w] + Interval[w] + PollTime(w))
                    => EndsBy(c, toldAt[w] + Interval[w] + PollTime(w))'
               /\ EndsBy(c, stoppedAt[w] + PollTime(w)) => EndsBy(c, stoppedAt[w] + PollTime(w))'
    <3>1. c \in Call /\ pc[c] \notin Running /\ pc[c] \in PollPlaces /\ since[c] \in Nat
          /\ Len(Asks[c]) \in Nat
      BY <2>1, PollTimes DEF Busy, AllQuiet, Quiet, WatchInv, Inv, PriceInv, PriceTypes, Instant
    <3> DEFINE n == Len(Asks[c])
               k == First(c)
               T == PollTime(w)
    <3>2. First(c)' = First(c)
      BY <1>1 DEF First
    <3>3. pc[c] \in {"balance", "accounts", "fetching", "naming"}
      BY <3>1 DEF PollPlaces, Fetching, Running
    <3>4. pc[c] = "naming" => k \in Nat /\ 1 <= k /\ k <= n
      BY <3>1, FirstOf DEF Inv, Fetching
    <3>5. /\ Span(n + 3) \in Nat /\ Span(n + 2) \in Nat /\ Span(n + 1) \in Nat
          /\ pc[c] = "naming" => Span(n + 1 - k) \in Nat
      <4> HIDE DEF n, k
      <4>1. n \in Nat
        BY <3>1 DEF n
      <4> QED BY <3>4, <4>1, SpanSteps
    <3>6. EndsBy(c, now + T)
      BY <2>1 DEF WatchInv
    <3>7. EndsBy(c, now + 1 + T)
      <4>1. /\ pc[c] = "balance" => since[c] + Span(n + 3) <= now + T
            /\ pc[c] = "accounts" => since[c] + Span(n + 2) <= now + T
            /\ pc[c] = "fetching" => since[c] + Span(n + 1) <= now + T
            /\ pc[c] = "naming" => since[c] + Span(n + 1 - k) <= now + T
        BY <3>6 DEF EndsBy
      <4> HIDE DEF n, k, T
      <4>2. T \in Nat
        BY <2>1 DEF T
      <4>3. /\ pc[c] = "balance" => since[c] + Span(n + 3) <= now + 1 + T
            /\ pc[c] = "accounts" => since[c] + Span(n + 2) <= now + 1 + T
            /\ pc[c] = "fetching" => since[c] + Span(n + 1) <= now + 1 + T
            /\ pc[c] = "naming" => since[c] + Span(n + 1 - k) <= now + 1 + T
        BY <1>1, <3>1, <3>5, <4>1, <4>2
      <4> QED BY <3>3, <4>3 DEF EndsBy, n, k
    <3> QED BY <1>1, <2>2, <3>1, <3>2, <3>3, <3>7 DEF EndsBy
  <2>4. watching[w] = "yes" => now + 1 <= nextAt[w] /\ nextAt[w] <= now + 1 + Interval[w]
    BY <1>1, <2>1 DEF WatchInv
  <2>5. toldAt[w] <= now + 1
    BY <1>1, <2>1 DEF WatchInv
  <2> QED BY <1>1, <2>1, <2>2, <2>3, <2>4, <2>5 DEF WatchInv
<1> QED BY <1>1, <1>2 DEF CallInv

LEMMA CallInvInit == Init => CallInv
<1> SUFFICES ASSUME Init
             PROVE  CallInv
  OBVIOUS
<1>1. 0 \in Instant /\ 0 <= 0
  BY ClockAssumption DEF Instant
<1>2. \A w \in Watcher : Busy(w) = {}
  BY PollTimes DEF Init, PriceInit, Busy
<1>3. \A w \in Watcher : WatchInv(w)
  BY <1>1, <1>2 DEF Init, WatchInv
<1> QED BY <1>1, <1>3 DEF Init, PriceInit, CallInv

LEMMA CallInvNext == Inv /\ CallInv /\ [Next]_vars => CallInv'
<1> SUFFICES ASSUME Inv, CallInv, [Next]_vars
             PROVE  CallInv'
  OBVIOUS
<1>0. Inv' /\ PriceInv /\ PriceTypes
  BY InvNext DEF Inv, PriceInv
<1>1. ASSUME NEW c \in Call, Respond(c) \/ Go(c), Alone(c),
             UNCHANGED <<now, nameVars, watchVars, transferVars>>
      PROVE  CallInv'
  <2>1. OthersWait(c) /\ now' = now /\ UNCHANGED watchVars
    BY <1>1, AloneFacts
  <2>2. OthersStay(c)
    BY <1>0, <1>1, <2>1, RespondKeepsPrices
  <2>3. ASSUME c \notin Caller
        PROVE  /\ pc[c] # "idle" /\ pc'[c] \in PollPlaces
               /\ \A d \in Nat : EndsBy(c, d) => EndsBy(c, d)'
    <3>1. pc[c] # "idle"
      BY <1>1 DEF Respond, Go, PricesAnswered, PricesFailed, SymbolAnswered, ListAnswered,
                  ListFailed, StorePrice, AskSymbol
    <3>2. pc[c] \in PollPlaces
      BY <2>3, <3>1, PollPlace
    <3> QED BY <1>0, <1>1, <2>1, <3>1, <3>2, ClientEndsBy
  <2> QED BY <2>1, <2>2, <2>3, OneCallGoesOn
<1>2. ASSUME NEW c \in Call, Report(c) \/ HoldingsFailed(c), Alone(c)
      PROVE  CallInv'
  <2>1. OthersWait(c)
    BY <1>2, AloneFacts
  <2>2. /\ now' = now /\ Return(c) /\ UNCHANGED cacheVars /\ pc[c] # "idle"
        /\ UNCHANGED <<watching, nextAt, stoppedAt>>
        /\ toldAt' = [toldAt EXCEPT ![WatcherOf(c)] = now]
    BY <1>2 DEF Report, HoldingsFailed, CallBack
  <2>3. c \notin Caller
    <3>1. CASE Report(c)
      <4>1. PICK w \in Watcher : c \in PollOf[w]
        BY <3>1 DEF Report, Poll
      <4> QED BY <4>1, ClientsAssumption
    <3>2. CASE HoldingsFailed(c)
      <4>1. pc[c] \in {"balance", "accounts"}
        BY <3>2 DEF HoldingsFailed
      <4>2. c \in Caller => StageInv(c) /\ stage[c] \in
              {"idle", "name", "token", "price", "mint", "sent", "rejected"}
        BY DEF Inv, TransferInv, TransferTypes
      <4> QED BY <4>1, <4>2 DEF StageInv, Fetching
    <3> QED BY <1>2, <3>1, <3>2
  <2>4. OthersStay(c) /\ pc'[c] = "idle"
    BY <1>0, <2>2 DEF OthersStay, Return, Leave, PriceTypes
  <2> QED BY <2>2, <2>3, <2>4, CallBackKeepsCalls
<1>3. ASSUME NEW c \in Call, BalanceRead(c) \/ AccountsRead(c)
      PROVE  CallInv'
  <2>1. now' = now /\ UNCHANGED watchVars
    BY <1>3 DEF BalanceRead, AccountsRead
  <2>2. OthersStay(c)
    BY <1>0, <1>3 DEF BalanceRead, AccountsRead, AwaitOther, Leave, getTokenPrices, OthersStay, PriceTypes
  <2>3. pc[c] # "idle"
    BY <1>3 DEF BalanceRead, AccountsRead
  <2> QED BY <1>3, <2>1, <2>2, <2>3, HoldingsEndBy, OneCallGoesOn
<1>4. ASSUME NEW t \in Caller, TransferContinue(t)
      PROVE  CallInv'
  <2>1. t \in Call /\ now' = now /\ UNCHANGED watchVars
    BY <1>4, ClientsAssumption
       DEF TransferContinue, ReceiverResolved, TokenResolved, Priced, TransferRejected
  <2>2. OthersStay(t)
    BY <1>0, <1>4 DEF TransferContinue, ReceiverResolved, TokenResolved, Priced, TransferRejected,
                AwaitOther, Return, Leave, getTokenPrices, resolveTokenSymbol, OthersStay,
                PriceTypes
  <2> QED BY <2>1, <2>2, OneCallGoesOn
<1>5. ASSUME NEW t \in Caller, transferTokens(t) \/ TransferAnswered(t)
      PROVE  CallInv'
  <2>1. t \in Call /\ now' = now /\ UNCHANGED watchVars
    BY <1>5, ClientsAssumption DEF transferTokens, TransferAnswered, MintRead, MintFailed
  <2>2. OthersStay(t)
    BY <1>0, <1>5 DEF transferTokens, TransferAnswered, MintRead, MintFailed, Return, Leave,
                priceVars, callVars, OthersStay, PriceTypes
  <2> QED BY <2>1, <2>2, OneCallGoesOn
<1>6. CASE Clear \/ UNCHANGED vars
  <2>1. now' = now /\ UNCHANGED watchVars /\ UNCHANGED <<pc, since, todo>>
    BY <1>6 DEF Clear, clearCache, clearNames, vars, priceVars, callVars
  <2>2. \A c \in Call \ Caller :
          \/ pc[c] = "idle" /\ pc'[c] = "idle"
          \/ /\ pc[c] # "idle" /\ pc'[c] \in PollPlaces
             /\ \A d \in Nat : EndsBy(c, d) => EndsBy(c, d)'
    <3> TAKE c \in Call \ Caller
    <3> QED BY <2>1, OthersEndBy, PollPlace
  <2> QED BY <2>1, <2>2, WatchersStay
<1>7. \A c \in Call : AllQuiet => Alone(c)
  BY AloneFacts
<1>8. ASSUME NEW c \in Call, Continue(c)
      PROVE  CallInv'
  <2>1. Turning(c)
    BY <1>8 DEF Continue, Go, StorePrice, AskSymbol, Report, Turning, Running
  <2>2. Alone(c)
    BY <2>1, AloneFacts
  <2> QED BY <1>1, <1>2, <1>8, <2>2 DEF Continue
<1>9. ASSUME AllQuiet, NEW c \in Call, Answered(c)
      PROVE  CallInv'
  BY <1>1, <1>2, <1>3, <1>7, <1>9 DEF Answered
<1>10. ASSUME AllQuiet, NEW w \in Watcher, watch(w) \/ IntervalFires(w) \/ stop(w)
       PROVE  CallInv'
  BY <1>10, WatchKeepsCalls, StopKeepsCalls
<1>11. CASE AllQuiet /\ Tick
  BY <1>11, TickKeepsCalls
<1> QED BY <1>4, <1>5, <1>6, <1>8, <1>9, <1>10, <1>11 DEF Next, Use

\* A watcher that is not stopped calls back at least once in an interval and the
\* time of a poll, and one that is stopped falls silent after the time of a poll,
\* however its polls overlap (watchTokenPrice and watchPortfolioValue).
THEOREM WatchersCallBackInTime == Spec => []WatchersCallBack
<1>1. Inv /\ CallInv => WatchersCallBack
  <2> SUFFICES ASSUME Inv, CallInv, NEW w \in Watcher
               PROVE  /\ watching[w] = "yes" => now - toldAt[w] <= Interval[w] + PollTime(w)
                      /\ watching[w] = "stopped" => toldAt[w] - stoppedAt[w] <= PollTime(w)
    BY DEF WatchersCallBack
  <2>1. /\ WatchInv(w) /\ PollTime(w) \in Nat /\ Interval[w] \in Nat /\ now \in Nat
        /\ toldAt[w] \in Nat /\ stoppedAt[w] \in Nat
    BY PollTimes DEF CallInv, WatchInv, Inv, PriceInv, PriceTypes, WatchTypes, Instant
  <2>2. ASSUME watching[w] = "yes"
        PROVE  now - toldAt[w] <= Interval[w] + PollTime(w)
    <3> DEFINE a == toldAt[w] + Interval[w] + PollTime(w)
    <3>1. a \in Nat
      BY <2>1
    <3>2. CASE nextAt[w] <= toldAt[w] + Interval[w]
      BY <2>1, <2>2, <3>2 DEF WatchInv
    <3>3. CASE \E c \in Busy(w) : EndsBy(c, a)
      <4>1. PICK c \in Busy(w) : EndsBy(c, a)
        BY <3>3
      <4>2. c \in Call /\ pc[c] \in PollPlaces
        BY <2>1, PollTimes DEF WatchInv, Busy
      <4> HIDE DEF a
      <4>3. now <= a
        BY <3>1, <4>1, <4>2, EndsLater
      <4> QED BY <2>1, <4>3 DEF a
    <3> QED BY <2>1, <2>2, <3>2, <3>3 DEF WatchInv
  <2>3. watching[w] = "stopped" => toldAt[w] - stoppedAt[w] <= PollTime(w)
    BY <2>1 DEF WatchInv
  <2> QED BY <2>2, <2>3
<1> QED BY <1>1, CallInvInit, CallInvNext, Invariance, PTL DEF Spec
=============================================================================
