------------------------------ MODULE PriceCache ------------------------------
(***************************************************************************)
(* JupiterClient of kit-plugin-jupiter-pricing: prices that are cached for  *)
(* CacheTime, symbols that are cached for good, and the token list behind   *)
(* resolveTokenSymbol.  A price, or a line of the token list, is            *)
(* represented by the instant at which it was true.                         *)
(***************************************************************************)
EXTENDS Clock, Sequences

CONSTANTS
  Mint,       \* mints whose price is asked for
  Call,       \* calls of the methods of the client; they overlap freely
  Asks,       \* Asks[c]: the mints whose prices call c asks for
  CacheTime,  \* cacheTimeMs
  ListTime,   \* cacheTimeMs * 10
  None        \* a value that is absent

ASSUME PriceCacheAssumption ==
  /\ CacheTime \in Nat
  /\ ListTime \in Nat
  /\ None \notin Int /\ None \notin [sampled : Nat, expiresAt : Nat]
  /\ Asks \in [Call -> Seq(Mint)]

VARIABLES
  priceCache,    \* priceCache[m]: the entry of m, or None
  symbolCache,   \* the mints whose symbol is cached
  listExpiry,    \* tokenListCacheExpiry while there is a list, or None
  symbolToMint,  \* when the mint of the symbol was listed, or None
  pc,            \* pc[c]: where call c is
  since,         \* since[c]: when its last request was made
  todo,          \* todo[c]: what of Asks[c] it has still to fetch, then to store
  answer,        \* answer[c]: the instant of the prices, or of the line, it was sent
  result,        \* result[c]: the prices it has so far
  clearedAt      \* when the cache was cleared, or None (history)

cacheVars == <<priceCache, symbolCache, listExpiry, symbolToMint, clearedAt>>
callVars == <<pc, since, todo, answer, result>>
priceVars == <<cacheVars, callVars>>

-----------------------------------------------------------------------------
Instant == 0 .. MaxTime
Entry == [sampled : Instant, expiresAt : Nat]

\* A call in Running waits for nothing: it goes on before the event loop turns
\* to a timer, a response or another call.
Other == {"balance", "accounts", "mint"}  \* awaits of the caller, elsewhere
Waiting == {"fetching", "naming", "listing"} \cup Other
Running == {"storing", "priced", "listed"}
Quiet == \A c \in Call : pc[c] \notin Running

PriceInit ==
  /\ priceCache = [m \in Mint |-> None]
  /\ symbolCache = {}
  /\ listExpiry = None
  /\ symbolToMint = None
  /\ clearedAt = None
  /\ pc = [c \in Call |-> "idle"]
  /\ since = [c \in Call |-> 0]
  /\ todo = [c \in Call |-> {}]
  /\ answer = [c \in Call |-> None]
  /\ result = [c \in Call |-> [m \in Mint |-> None]]

\* getCachedPrice finds a price.
Servable(m) == priceCache[m] # None /\ now <= priceCache[m].expiresAt

\* The mints of call c that are not served from the cache, by their places in
\* its list; the loop takes them in the order of the list.
Missing(c) == {i \in DOMAIN Asks[c] : ~ Servable(Asks[c][i])}
MintAt(c, i) == Asks[c][i]
First(c) == CHOOSE i \in todo[c] : \A j \in todo[c] : i <= j

\* What call c finds in the cache.
Found(c) ==
  [m \in Mint |->
     IF Servable(m) /\ \E i \in DOMAIN Asks[c] : MintAt(c, i) = m
       THEN priceCache[m].sampled ELSE None]

\* The request is made even if nothing is missing (mutant of getTokenPrices).
getTokenPricesAlways(c) ==
  /\ result' = [result EXCEPT ![c] = Found(c)]
  /\ todo' = [todo EXCEPT ![c] = Missing(c)]
  /\ pc' = [pc EXCEPT ![c] = "fetching"]
  /\ since' = [since EXCEPT ![c] = now]
  /\ answer' = [answer EXCEPT ![c] = None]
  /\ UNCHANGED cacheVars

\* getTokenPrices up to its request: what is cached is taken, what has expired
\* is deleted, the rest is asked for in one request.
getTokenPrices(c) ==
  /\ result' = [result EXCEPT ![c] = Found(c)]
  /\ priceCache' = [m \in Mint |->
                      IF \E i \in Missing(c) : MintAt(c, i) = m THEN None ELSE priceCache[m]]
  /\ todo' = [todo EXCEPT ![c] = Missing(c)]
  /\ pc' = [pc EXCEPT ![c] = IF Missing(c) = {} THEN "priced" ELSE "fetching"]
  /\ since' = [since EXCEPT ![c] = now]
  /\ answer' = [answer EXCEPT ![c] = None]
  /\ UNCHANGED <<symbolCache, listExpiry, symbolToMint, clearedAt>>

\* The response: prices that were true at t, for some of the mints.
PricesAnswered(c) ==
  /\ pc[c] = "fetching"
  /\ \E t \in since[c] .. now, priced \in SUBSET {MintAt(c, i) : i \in todo[c]} :
       LET rest == {i \in todo[c] : MintAt(c, i) \in priced}
       IN  /\ answer' = [answer EXCEPT ![c] = t]
           /\ todo' = [todo EXCEPT ![c] = rest]
           /\ pc' = [pc EXCEPT ![c] = IF rest = {} THEN "priced" ELSE "storing"]
  /\ UNCHANGED <<cacheVars, since, result>>

\* The request fails: the call returns what it found in the cache.
PricesFailed(c) ==
  /\ pc[c] = "fetching"
  /\ pc' = [pc EXCEPT ![c] = "priced"]
  /\ todo' = [todo EXCEPT ![c] = {}]
  /\ UNCHANGED <<cacheVars, since, answer, result>>

\* The mint that the loop is at.
NextMint(c) == MintAt(c, First(c))

\* An entry that is still good is kept (mutant of Stored).
StoredIfAbsent(c) ==
  LET m == NextMint(c)
      rest == todo[c] \ {First(c)}
  IN  /\ priceCache' = IF Servable(m) THEN priceCache
                       ELSE [priceCache EXCEPT ![m] =
                               [sampled |-> answer[c], expiresAt |-> now + CacheTime]]
      /\ result' = [result EXCEPT ![c][m] = answer[c]]
      /\ todo' = [todo EXCEPT ![c] = rest]
      /\ pc' = [pc EXCEPT ![c] = IF rest = {} THEN "priced" ELSE "storing"]
      /\ UNCHANGED <<listExpiry, symbolToMint, clearedAt, answer>>

\* setCachedPrice, and the next turn of the loop.
Stored(c) ==
  LET m == NextMint(c)
      rest == todo[c] \ {First(c)}
  IN  /\ priceCache' = [priceCache EXCEPT ![m] =
                          [sampled |-> answer[c], expiresAt |-> now + CacheTime]]
      /\ result' = [result EXCEPT ![c][m] = answer[c]]
      /\ todo' = [todo EXCEPT ![c] = rest]
      /\ pc' = [pc EXCEPT ![c] = IF rest = {} THEN "priced" ELSE "storing"]
      /\ UNCHANGED <<listExpiry, symbolToMint, clearedAt, answer>>

\* The next mint of the loop has a cached symbol.
StorePrice(c) ==
  /\ pc[c] = "storing"
  /\ NextMint(c) \in symbolCache
  /\ Stored(c)
  /\ UNCHANGED <<symbolCache, since>>

\* It has none, and getTokenSymbol asks for it.
AskSymbol(c) ==
  /\ pc[c] = "storing"
  /\ NextMint(c) \notin symbolCache
  /\ pc' = [pc EXCEPT ![c] = "naming"]
  /\ since' = [since EXCEPT ![c] = now]
  /\ UNCHANGED <<cacheVars, todo, answer, result>>

\* A symbol that is found is cached; a failure, or none, gives the first letters
\* of the mint, which are not.  The price is stored either way.
SymbolAnswered(c) ==
  /\ pc[c] = "naming"
  /\ \E found \in BOOLEAN :
       symbolCache' = IF found THEN symbolCache \cup {NextMint(c)} ELSE symbolCache
  /\ Stored(c)
  /\ UNCHANGED since

\* resolveTokenSymbol up to the request of getStrictTokenList.  A list that has
\* not expired is not asked for again, even if it lacks the symbol.
resolveTokenSymbol(c) ==
  /\ since' = [since EXCEPT ![c] = now]
  /\ IF symbolToMint = None /\ (listExpiry = None \/ now >= listExpiry)
       THEN /\ pc' = [pc EXCEPT ![c] = "listing"]
            /\ UNCHANGED answer
       ELSE /\ pc' = [pc EXCEPT ![c] = "listed"]
            /\ answer' = [answer EXCEPT ![c] = symbolToMint]
  /\ UNCHANGED <<cacheVars, todo, result>>

\* The list arrives: every line is added to symbolToMint, none is removed.
ListAnswered(c) ==
  /\ pc[c] = "listing"
  /\ \E t \in since[c] .. now :
       /\ symbolToMint' \in {t, symbolToMint}
       /\ answer' = [answer EXCEPT ![c] = symbolToMint']
  /\ listExpiry' = now + ListTime
  /\ pc' = [pc EXCEPT ![c] = "listed"]
  /\ UNCHANGED <<priceCache, symbolCache, clearedAt, since, todo, result>>

\* It does not; another call may have filled the map in the meantime.
ListFailed(c) ==
  /\ pc[c] = "listing"
  /\ answer' = [answer EXCEPT ![c] = symbolToMint]
  /\ pc' = [pc EXCEPT ![c] = "listed"]
  /\ UNCHANGED <<cacheVars, since, todo, result>>

\* Code that uses the client goes on to a request of its own, or is done; what
\* the call of the client held is gone.
Leave(c, next, at) ==
  /\ pc' = [pc EXCEPT ![c] = next]
  /\ since' = [since EXCEPT ![c] = at]
  /\ answer' = [answer EXCEPT ![c] = None]
  /\ result' = [result EXCEPT ![c] = [m \in Mint |-> None]]
  /\ UNCHANGED todo

AwaitOther(c, what) == Leave(c, what, now)
Return(c) == Leave(c, "idle", 0)

\* Something is cached, or on its way.
ClearMatters ==
  \/ \E m \in Mint : priceCache[m] # None
  \/ symbolCache # {} \/ listExpiry # None
  \/ \E c \in Call : pc[c] \in Waiting \ Other

\* The map of symbols survives (mutant of clearCache).
clearCacheKeepingSymbols ==
  /\ clearedAt = None
  /\ ClearMatters
  /\ priceCache' = [m \in Mint |-> None]
  /\ symbolCache' = {}
  /\ listExpiry' = None
  /\ clearedAt' = now
  /\ UNCHANGED <<symbolToMint, callVars>>

\* The bound is one call of it, while it matters.
clearCache ==
  /\ clearedAt = None
  /\ ClearMatters
  /\ priceCache' = [m \in Mint |-> None]
  /\ symbolCache' = {}
  /\ symbolToMint' = None
  /\ listExpiry' = None
  /\ clearedAt' = now
  /\ UNCHANGED callVars

\* What comes back to a call that waits.
Respond(c) ==
  \/ PricesAnswered(c) \/ PricesFailed(c) \/ SymbolAnswered(c)
  \/ ListAnswered(c) \/ ListFailed(c)

\* What the code does next without waiting.
Go(c) == StorePrice(c) \/ AskSymbol(c)

\* No call waits for an answer that is due.
CallsAllowTime == \A c \in Call : pc[c] \in Waiting => ~ Due(since[c])
=============================================================================
