---------------------------- MODULE SystemClock ----------------------------
(***************************************************************************)
(* The system clock of the gateway's host (clock::get_system) and the life *)
(* of the gateway's process, which the nonces (Signing) and the suspension *)
(* of requests (Throttle) depend on.  The clock may be stepped back.  It   *)
(* is outside the repository.                                              *)
(***************************************************************************)
EXTENDS Naturals

CONSTANTS
  MaxDrift,  \* by how much the clock is stepped back, all steps together
  Downtime,  \* the least time a restart of the gateway takes
  MaxTime    \* bound: the latest time

ASSUME ClockAssumption == MaxDrift \in Nat /\ Downtime \in Nat /\ MaxTime \in Nat

VARIABLES
  now,    \* what the clock shows
  drift   \* by how much it has been stepped back so far

clock == <<now, drift>>

ClockInit == now = 1 /\ drift = 0

Advance ==
  /\ now < MaxTime
  /\ now' = now + 1
  /\ UNCHANGED drift

SetBack(d) ==
  /\ d <= now
  /\ drift + d <= MaxDrift
  /\ now' = now - d
  /\ drift' = drift + d

\* The time it takes to start again, the process being gone meanwhile.
GoneFor(d) ==
  /\ d >= Downtime
  /\ now + d <= MaxTime
  /\ now' = now + d
  /\ UNCHANGED drift

Steps    == 1 .. MaxDrift
Absences == Downtime .. MaxTime
=============================================================================
