-------------------------- MODULE CircuitPublication --------------------------
(***************************************************************************)
(* What the upload of a circuit promises, without transactions, sizes or    *)
(* loops: each raw circuit account has one holder for good, the holder      *)
(* fills it and it stays filled, and a call publishes the circuit at most   *)
(* once, when it has filled every account it needs.                         *)
(***************************************************************************)
EXTENDS Integers

CONSTANTS Call, NoCall, Acct

VARIABLES
  need,       \* need[c]: the accounts the circuit of call c is spread over
  holder,     \* holder[a]: the call whose circuit part account a is for
  filled,     \* <<c, a>>: account a holds the whole part of call c
  published   \* the call whose circuit the definition stands for, or NoCall

vars == <<need, holder, filled, published>>

Init ==
  /\ need = [c \in Call |-> {}]
  /\ holder = [a \in Acct |-> NoCall]
  /\ filled = {}
  /\ published = NoCall

Announce(c, accounts) ==
  /\ need[c] = {}
  /\ need' = [need EXCEPT ![c] = accounts]
  /\ UNCHANGED <<holder, filled, published>>

Claim(c, a) ==
  /\ a \in need[c]
  /\ holder[a] = NoCall
  /\ holder' = [holder EXCEPT ![a] = c]
  /\ UNCHANGED <<need, filled, published>>

Fill(c, a) ==
  /\ holder[a] = c
  /\ filled' = filled \cup {<<c, a>>}
  /\ UNCHANGED <<need, holder, published>>

Publish(c) ==
  /\ published = NoCall
  /\ need[c] # {}
  /\ \A a \in need[c] : <<c, a>> \in filled
  /\ published' = c
  /\ UNCHANGED <<need, holder, filled>>

Next ==
  \E c \in Call :
    \/ \E accounts \in SUBSET Acct : Announce(c, accounts)
    \/ \E a \in Acct : Claim(c, a) \/ Fill(c, a)
    \/ Publish(c)

Spec == Init /\ [][Next]_vars
=============================================================================
