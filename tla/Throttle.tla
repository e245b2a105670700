------------------------------ MODULE Throttle ------------------------------
(***************************************************************************)
(* Throttle sees the status of every HTTP answer.  A 418 (banned) suspends *)
(* all requests for a minute from now, or longer if they are suspended for *)
(* longer already.  A 429 (too many requests) suspends them only if        *)
(* nothing was ever suspended: suspend_until_ is compared with zero and    *)
(* never reset, so every later 429 is without effect.                      *)
(*                                                                         *)
(* The REST client, which asks the throttle until when requests are        *)
(* suspended, is outside the repository.                                   *)
(***************************************************************************)
EXTENDS SystemClock

CONSTANTS
  Enabled,  \* server.experimental.enable_rate_limit
  Backoff   \* DEFAULT_BACKOFF

ASSUME ThrottleAssumption == Enabled \in BOOLEAN /\ Backoff \in Nat

VARIABLES
  suspend,  \* Throttle::suspend_until_
  quiet     \* history: for how much longer the exchange was promised silence

throttle == <<suspend, quiet>>

----------------------------------------------------------------------------
\* What the client takes from the throttle.
Suspended == suspend > now

Raised(s, t) == IF t > s THEN t ELSE s

Teapot_First ==  \* mutant: as for 429, only if nothing was suspended
  suspend' = IF suspend = 0 THEN now + Backoff ELSE suspend

Teapot == suspend' = Raised(suspend, now + Backoff)

TooMany == suspend' = IF suspend = 0 THEN now + Backoff ELSE suspend

\* Throttle on MessageEnd.  The exchange is promised silence by a 418, and by
\* a 429 that is the first of all.
MessageEnd(status) ==
  \/ /\ Enabled /\ status = "BANNED"
     /\ Teapot
     /\ quiet' = Backoff
  \/ /\ Enabled /\ status = "LIMITED"
     /\ TooMany
     /\ quiet' = IF suspend = 0 THEN Backoff ELSE quiet
  \/ /\ ~Enabled \/ status \notin {"BANNED", "LIMITED"}
     /\ UNCHANGED throttle

\* 418, 429, and any other.
Statuses == {"BANNED", "LIMITED", "OK"}

----------------------------------------------------------------------------
ThrottleInit == ClockInit /\ suspend = 0 /\ quiet = 0

\* `quiet` is true time, which a step of the clock does not change.
ThrottleTick ==
  \/ Advance /\ quiet' = (IF quiet = 0 THEN 0 ELSE quiet - 1) /\ UNCHANGED suspend
  \/ (\E d \in Steps : SetBack(d)) /\ UNCHANGED throttle

\* A new process knows of no suspension.
ThrottleRestart(d) == GoneFor(d) /\ suspend' = 0 /\ quiet' = 0

ThrottleNext ==
  \/ \E status \in Statuses : MessageEnd(status) /\ UNCHANGED clock
  \/ ThrottleTick
  \/ \E d \in Absences : ThrottleRestart(d)

ThrottleSpec == ThrottleInit /\ [][ThrottleNext]_<<clock, throttle>>

----------------------------------------------------------------------------
\* Every variable stays in its domain.
ThrottleTypeOK ==
  now \in Nat /\ drift \in Nat /\ suspend \in Nat /\ quiet \in 0 .. Backoff

\* While the exchange was promised silence, requests are suspended, although
\* the suspension is a time of a clock that is stepped back in between, and
\* answers that were on their way tell of limits again.
QuietIsSuspended == quiet > 0 => Suspended
=============================================================================
