------------------------------ MODULE Signing ------------------------------
(***************************************************************************)
(* The nonces of an account's signed requests.  All connections of an      *)
(* account share one Account and its Crypto, and every query is signed     *)
(* with a nonce that Crypto makes from the time the *event* was created    *)
(* that leads to the request: the client's message, a timer, an answer.    *)
(* That time is not the time of signing, events are not handled in the     *)
(* order of their creation, one event may sign several requests, the clock *)
(* is stepped back, and the last nonce is lost with the process.           *)
(***************************************************************************)
EXTENDS SystemClock

CONSTANTS
  Burst,  \* the most requests one event signs (one per instrument)
  Ahead   \* bound: requests signed in excess of one per microsecond

ASSUME SigningAssumption == Burst \in Nat \ {0} /\ Ahead \in Nat

\* The gateway does not come back before the clock has passed all it signed.
ASSUME DowntimeAssumption == Downtime > Ahead + MaxDrift

VARIABLES
  low,     \* the earliest time an event of this process may have
  high,    \* the latest time an event of this process may have
  nonce,   \* Crypto::nonce_
  issued,  \* history: every nonce signed with, in this process or before
  reused   \* history: nonces signed with again

signing == <<low, high, nonce, issued, reused>>

----------------------------------------------------------------------------
Lower(x, y)  == IF x < y THEN x ELSE y
Higher(x, y) == IF x > y THEN x ELSE y

First_Now(origin) == origin  \* mutant: the nonce is the time

First_Back(origin) ==  \* mutant: counts down
  IF nonce < origin THEN origin ELSE nonce - 1

First_Equal(origin) ==  \* mutant: <= in place of <
  IF nonce <= origin THEN origin ELSE nonce + 1

\* Crypto::sign_message: the nonce of the first request an event signs.
First(origin) == IF nonce < origin THEN origin ELSE nonce + 1

\* An event created at `origin` signs k requests.  Those after the first find
\* the nonce at or past the event's time and count on from it.
Sign(origin, k) ==
  LET n == First(origin) IN
  /\ origin \in low .. high /\ k \in 1 .. Burst
  /\ n + k - 1 <= high + Ahead
  /\ nonce' = n + k - 1
  /\ issued' = issued \cup n .. n + k - 1
  /\ reused' = reused \cup (n .. n + k - 1 \cap issued)
  /\ UNCHANGED <<low, high>>

----------------------------------------------------------------------------
SigningInit ==
  /\ ClockInit
  /\ low = now /\ high = now
  /\ nonce = 0
  /\ issued = {} /\ reused = {}

SigningTick ==
  /\ Advance \/ \E d \in Steps : SetBack(d)
  /\ low' = Lower(low, now') /\ high' = Higher(high, now')
  /\ UNCHANGED <<nonce, issued, reused>>

\* A new process has a new Crypto, and sees only events of its own.
SigningRestart(d) ==
  /\ GoneFor(d)
  /\ low' = now' /\ high' = now'
  /\ nonce' = 0
  /\ UNCHANGED <<issued, reused>>

SigningNext ==
  \/ \E origin \in low .. high, k \in 1 .. Burst : Sign(origin, k) /\ UNCHANGED clock
  \/ SigningTick
  \/ \E d \in Absences : SigningRestart(d)

SigningSpec == SigningInit /\ [][SigningNext]_<<clock, signing>>

----------------------------------------------------------------------------
\* Every variable stays in its domain.
SigningTypeOK ==
  /\ now \in Nat /\ drift \in 0 .. MaxDrift
  /\ low \in Nat /\ high \in Nat /\ nonce \in Nat
  /\ issued \subseteq Nat /\ reused \subseteq issued

\* No nonce is signed with twice: not by the requests of one event, not by
\* events handled out of the order of their creation or after the clock was
\* stepped back, and not by a process that has forgotten what the one before
\* it signed.
NoncesUnique == reused = {}
=============================================================================
