------------------------------- MODULE NameCache -------------------------------
(***************************************************************************)
(* ANSClient of kit-plugin-ans-name-service: a name is resolved through the *)
(* account that holds its owner, and the answer is cached for NameTime.     *)
(* One name; its owner is represented by the instant at which it was the    *)
(* owner.  The reverse cache is never filled (ans.ts has no call that sets  *)
(* it), so getANSNamesForAddress always finds nothing and has no state.     *)
(***************************************************************************)
EXTENDS Clock

CONSTANTS
  Caller,    \* calls that resolve the name
  NameTime,  \* cacheTime
  NoName     \* no entry, or no answer

ASSUME NameCacheAssumption ==
  /\ NameTime \in Nat
  /\ NoName \notin Int /\ NoName \notin [sampled : Nat, expiresAt : Nat]

VARIABLES
  forwardCache,   \* the entry of the name, or NoName
  resolving,      \* resolving[t]: "no", "asked", "done" or "failed"
  askedAt,        \* askedAt[t]: when the account was asked for
  owner,          \* owner[t]: the owner it was answered
  namesClearedAt  \* when the cache was cleared, or NoName (history)

nameVars == <<forwardCache, resolving, askedAt, owner, namesClearedAt>>

NameInit ==
  /\ forwardCache = NoName
  /\ resolving = [t \in Caller |-> "no"]
  /\ askedAt = [t \in Caller |-> 0]
  /\ owner = [t \in Caller |-> NoName]
  /\ namesClearedAt = NoName

\* The entry is served however old it is (mutant of NameServable).
NameServableForever == forwardCache # NoName

\* getCachedAddress finds an owner.
NameServable == forwardCache # NoName /\ now <= forwardCache.expiresAt

\* A name, not an address: served from the cache, or asked for.
getAddressForANSName(t) ==
  /\ resolving[t] = "no"
  /\ IF NameServable
       THEN /\ owner' = [owner EXCEPT ![t] = forwardCache.sampled]
            /\ resolving' = [resolving EXCEPT ![t] = "done"]
            /\ UNCHANGED <<forwardCache, askedAt>>
       ELSE /\ forwardCache' = NoName
            /\ resolving' = [resolving EXCEPT ![t] = "asked"]
            /\ askedAt' = [askedAt EXCEPT ![t] = now]
            /\ UNCHANGED owner
  /\ UNCHANGED namesClearedAt

\* resolveANS answers with an owner of some instant since it was asked.
NameAnswered(t) ==
  /\ resolving[t] = "asked"
  /\ \E s \in askedAt[t] .. now :
       /\ forwardCache' = [sampled |-> s, expiresAt |-> now + NameTime]
       /\ owner' = [owner EXCEPT ![t] = s]
  /\ resolving' = [resolving EXCEPT ![t] = "done"]
  /\ askedAt' = [askedAt EXCEPT ![t] = 0]
  /\ UNCHANGED namesClearedAt

\* There is no such account, or the request fails.
NameFailed(t) ==
  /\ resolving[t] = "asked"
  /\ resolving' = [resolving EXCEPT ![t] = "failed"]
  /\ askedAt' = [askedAt EXCEPT ![t] = 0]
  /\ UNCHANGED <<forwardCache, owner, namesClearedAt>>

\* clearCache; the bound is one call of it, while it matters.
clearNames ==
  /\ namesClearedAt = NoName
  /\ forwardCache # NoName \/ \E t \in Caller : resolving[t] = "asked"
  /\ forwardCache' = NoName
  /\ namesClearedAt' = now
  /\ UNCHANGED <<resolving, askedAt, owner>>

NamesAllowTime == \A t \in Caller : resolving[t] = "asked" => ~ Due(askedAt[t])
=============================================================================
