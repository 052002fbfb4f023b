-------------------------------- MODULE Clock --------------------------------
(***************************************************************************)
(* The time that Date.now() and the timers of a program go by, shared by    *)
(* the models in which something expires.  A request is answered, or has    *)
(* failed, at most MaxDelay after it was made.                              *)
(***************************************************************************)
EXTENDS Integers

CONSTANTS
  MaxDelay,  \* the longest a request may take
  MaxTime    \* bound: the last instant of a run

ASSUME ClockAssumption == MaxDelay \in Nat /\ MaxTime \in Nat

VARIABLE now

\* The request made at t must have been answered before time goes on.
Due(t) == t + MaxDelay <= now

Advance ==
  /\ now < MaxTime
  /\ now' = now + 1
=============================================================================
