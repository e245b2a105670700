--------------------------- MODULE CountdownProofs ---------------------------
(***************************************************************************)
(* Proofs about Countdown, for all settings that satisfy its assumptions:  *)
(* the type invariant, and both promises of the dead man's switch.         *)
(*                                                                         *)
(* KeptAlive says nothing of what is still on its way, so it is not        *)
(* inductive.  The invariant follows the requests: `quiet` bounds how long *)
(* ago the last request was sent that will have an effect (SendingInv),    *)
(* and the countdown that is left is at least what it was set to less the  *)
(* time since the request that set it was sent, which is bounded by the    *)
(* age of the oldest request on its way (RunningInv), unless the session,  *)
(* or the time since requests were suspended, is younger than that.        *)
(***************************************************************************)
EXTENDS Countdown, TLAPS

\* How long n requests in a row may take to be sent.
Gap(n) == n * Spacing

\* A session sends a request in time, refused ones counted, unless suspended.
SendingInv ==
  /\ ~ready => wait = 0
  /\ ready /\ CancelOnDisconnect /\ ~held =>
       /\ wait > 0 => quiet + wait <= Gap(lost) + Rearmed
       /\ wait = 0 => quiet <= Gap(lost) + (PingFreq \div 3) + idle

\* An upper bound of the age of the last request that took effect, or, before
\* there was one, of a virtual request PingFreq \div 3 before the session.
Since == IF wire = <<>> THEN quiet ELSE wire[1] + Gap(Losses + 1)

Covered(l, s, e, f) ==
  \/ l + s >= Window
  \/ e + (PingFreq \div 3) <= s
  \/ f <= s

RunningInv == ready /\ CancelOnDisconnect => Covered(left, Since, elapsed, free)

\* The time since a suspension begins when it is over.
HeldInv == held => free = 0

\* What is on its way when the connection is lost was sent before.
CutOffInv ==
  ~ready =>
    /\ \A i \in DOMAIN wire : elapsed <= wire[i]
    /\ left > 0 => left + elapsed <= Window + Delay

IInv == TypeOK /\ SendingInv /\ RunningInv /\ HeldInv /\ CutOffInv

----------------------------------------------------------------------------
(* Arithmetic of the settings *)

\* What is derived from the settings are natural numbers.
LEMMA Settings ==
  /\ PingFreq \div 3 \in Nat /\ Window \in Nat /\ Rearmed \in Nat /\ Spacing \in Nat
  /\ Period \in Nat /\ Delay \in Nat /\ Losses \in Nat /\ Settled \in Nat
  /\ Resettled \in Nat
PROOF
  <1>1. PingFreq \div 3 \in Nat /\ PingFreq \div Second \in Nat
    BY SettingsAssumption, SMT
  <1>2. Window \in Nat
    BY <1>1, SettingsAssumption DEF Window
  <1>3. Spacing \in Nat
    BY <1>1, SettingsAssumption DEF Spacing
  <1>4. Losses * Spacing \in Nat /\ (Losses + 1) * Spacing \in Nat
    BY <1>3, SettingsAssumption
  <1> QED
    BY <1>1, <1>2, <1>3, <1>4, SettingsAssumption DEF Rearmed, Settled, Resettled

\* Gap counts a spacing for every request.
LEMMA Gaps ==
  ASSUME NEW n \in 0 .. Losses
  PROVE  /\ Gap(n) \in Nat
         /\ Gap(n + 1) = Gap(n) + (PingFreq \div 3) + Period
         /\ Gap(n) + (PingFreq \div 3) + Period <= Gap(Losses + 1)
PROOF
  <1>1. n \in Nat /\ Losses \in Nat /\ Spacing \in Nat
    BY Settings
  <1>2. n * Spacing \in Nat /\ (n + 1) * Spacing = n * Spacing + Spacing
    BY <1>1, SMT
  <1>3. PICK k \in Nat : Losses + 1 = (n + 1) + k
    <2>1. Losses - n \in Nat /\ Losses + 1 = (n + 1) + (Losses - n)
      BY <1>1
    <2> QED  BY <2>1
  <1>4. ((n + 1) + k) * Spacing = (n + 1) * Spacing + k * Spacing /\ k * Spacing \in Nat
    BY <1>1, SMT
  <1>5. Gap(Losses + 1) = Gap(n + 1) + k * Spacing
    BY <1>3, <1>4 DEF Gap
  <1> QED
    BY <1>1, <1>2, <1>4, <1>5, Settings DEF Gap, Spacing

\* What MarginAssumption means for the bounds of the invariant.
LEMMA Margin ==
  /\ Gap(Losses + 1) \in Nat
  /\ PingFreq \div 3 <= Gap(Losses + 1)
  /\ Gap(Losses + 1) + Delay < Window
  /\ Gap(Losses + 1) + Delay = Settled + (PingFreq \div 3)
  /\ Gap(Losses + 1) + Delay = Resettled
PROOF
  <1>1. Gap(Losses + 1) = Losses * Spacing + (PingFreq \div 3) + Period /\ Gap(Losses) \in Nat
    BY Settings, Gaps DEF Gap
  <1> QED
    BY <1>1, Settings, MarginAssumption DEF Gap, Settled, Resettled

----------------------------------------------------------------------------
(* Types *)

LEMMA InitTypeOK == Init => TypeOK
PROOF
  <1> SUFFICES ASSUME Init PROVE TypeOK
    OBVIOUS
  <1>1. wire \in Seq(0 .. Delay)
    BY DEF Init
  <1>2. ready \in BOOLEAN /\ left \in 0 .. Window
    BY DEF Init
  <1>3. free \in 0 .. Resettled + 1 /\ elapsed \in 0 .. 2 * Window
    BY Settings DEF Init
  <1>4. wait \in 0 .. ((PingFreq \div 3) + 1) /\ idle \in 0 .. Period
    BY Settings DEF Init
  <1>5. lost \in 0 .. Losses /\ quiet \in Nat
    BY Settings DEF Init
  <1>6. held \in BOOLEAN
    BY DEF Init
  <1> QED
    BY <1>1, <1>2, <1>3, <1>4, <1>5, <1>6 DEF TypeOK

\* Requests grow older.
LEMMA OneOlder ==
  ASSUME NEW d \in Nat, NEW q \in Seq(0 .. d), \A i \in DOMAIN q : q[i] < d
  PROVE  [i \in DOMAIN q |-> q[i] + 1] \in Seq(0 .. d)
PROOF
  OBVIOUS

LEMMA NextTypeOK == TypeOK /\ [Next]_vars => TypeOK'
PROOF
  <1> SUFFICES ASSUME TypeOK, [Next]_vars PROVE TypeOK'
    OBVIOUS
  <1> USE Settings DEF TypeOK
  <1>1. CASE Connected
    <2>1. quiet' \in Nat /\ elapsed' \in 0 .. 2 * Window
      BY <1>1 DEF Connected
    <2> QED
      BY <1>1, <2>1 DEF Connected
  <1>2. CASE Disconnected
    <2>1. wire' \in Seq(0 .. Delay)
      <3>1. <<>> \in Seq(0 .. Delay) /\ wire \in Seq(0 .. Delay)
        OBVIOUS
      <3> QED
        BY <1>2, <3>1 DEF Disconnected
    <2>2. wait' \in 0 .. ((PingFreq \div 3) + 1) /\ elapsed' \in 0 .. 2 * Window
      BY <1>2 DEF Disconnected, AfterLoss
    <2> QED
      BY <1>2, <2>1, <2>2 DEF Disconnected
  <1>3. CASE Timer
    <2>1. wait' \in 0 .. ((PingFreq \div 3) + 1)
      BY <1>3 DEF Timer, Rearmed
    <2>2. wire' \in Seq(0 .. Delay)
      <3>1. Append(wire, 0) \in Seq(0 .. Delay)
        <4>1. 0 \in 0 .. Delay /\ wire \in Seq(0 .. Delay)
          OBVIOUS
        <4> HIDE DEF TypeOK
        <4> QED  BY <4>1
      <3>2. wire' = wire \/ wire' = Append(wire, 0)
        BY <1>3 DEF Timer
      <3> QED
        BY <3>1, <3>2
    <2>3. lost' \in 0 .. Losses /\ quiet' \in Nat
      BY <1>3 DEF Timer
    <2> QED
      BY <1>3, <2>1, <2>2, <2>3 DEF Timer
  <1>4. CASE Suspended \/ Resumed
    <2>1. held' \in BOOLEAN
      BY <1>4 DEF Suspended, Resumed
    <2>2. free' \in 0 .. Resettled + 1
      BY <1>4 DEF Suspended, Resumed
    <2>3. lost' \in 0 .. Losses /\ quiet' \in Nat
      BY <1>4 DEF Suspended, Resumed
    <2>4. UNCHANGED <<ready, wait, idle, wire, left, elapsed>>
      BY <1>4 DEF Suspended, Resumed
    <2> QED
      BY <2>1, <2>2, <2>3, <2>4
  <1>5. CASE Arrive
    BY <1>5 DEF Arrive
  <1>6. CASE Tick
    <2>1. /\ wire \in Seq(0 .. Delay) /\ Delay \in Nat
          /\ \A i \in DOMAIN wire : wire[i] < Delay
      BY <1>6 DEF Tick
    <2>2. wire' \in Seq(0 .. Delay)
      <3>1. [i \in DOMAIN wire |-> wire[i] + 1] \in Seq(0 .. Delay)
        BY ONLY <2>1, OneOlder
      <3> QED
        BY <1>6, <3>1 DEF Tick
    <2>3. quiet' \in Nat
      BY <1>6 DEF Tick
    <2>4. free' \in 0 .. Resettled + 1
      BY <1>6 DEF Tick
    <2>5. elapsed' \in 0 .. 2 * Window /\ wait' \in 0 .. ((PingFreq \div 3) + 1)
      BY <1>6 DEF Tick
    <2>6. idle' \in 0 .. Period /\ left' \in 0 .. Window
      BY <1>6 DEF Tick
    <2> QED
      BY <1>6, <2>2, <2>3, <2>4, <2>5, <2>6 DEF Tick
  <1>7. CASE UNCHANGED vars
    BY <1>7 DEF vars
  <1> QED
    BY <1>1, <1>2, <1>3, <1>4, <1>5, <1>6, <1>7 DEF Next

\* Every variable stays in its domain.
THEOREM CountdownTypes == Spec => []TypeOK
PROOF
  BY InitTypeOK, NextTypeOK, PTL DEF Spec

----------------------------------------------------------------------------
(* The invariant *)

LEMMA InitIInv == Init => IInv
PROOF
  <1> SUFFICES ASSUME Init PROVE IInv
    OBVIOUS
  <1>1. CutOffInv
    BY Settings DEF Init, CutOffInv
  <1> QED
    BY <1>1, InitTypeOK DEF Init, IInv, SendingInv, RunningInv, HeldInv

\* Requests are sent in time: a timer that finds one due comes soon enough.
LEMMA SendingStep == IInv /\ [Next]_vars => SendingInv'
PROOF
  <1> SUFFICES ASSUME IInv, [Next]_vars PROVE SendingInv'
    OBVIOUS
  <1>1. TypeOK /\ SendingInv
    BY DEF IInv
  <1>2. lost \in 0 .. Losses /\ Gap(lost) \in Nat /\ Gap(0) = 0
    BY <1>1, Gaps, Settings DEF TypeOK, Gap
  <1>3. /\ wait \in Nat /\ idle \in 0 .. Period /\ quiet \in Nat /\ ready \in BOOLEAN
        /\ PingFreq \div 3 \in Nat /\ Period \in Nat /\ Rearmed = (PingFreq \div 3) + 1
    BY <1>1, Settings DEF TypeOK, Rearmed
  <1>4. CASE Connected
    BY <1>1, <1>2, <1>3, <1>4 DEF Connected, SendingInv
  <1>5. CASE Disconnected
    BY <1>5 DEF Disconnected, AfterLoss, SendingInv
  <1>6. CASE Timer
    <2>0. CASE held
      BY <1>1, <1>6, <2>0 DEF Timer, Due, SendingInv
    <2>1. CASE Due(ready, wait) /\ ~held
      <3>1. quiet <= Gap(lost) + (PingFreq \div 3) + idle
        BY <1>1, <2>1 DEF Due, SendingInv
      <3>2. CASE lost' = lost + 1 /\ quiet' = quiet
        <4>1. quiet' + wait' <= Gap(lost') + Rearmed /\ wait' > 0
          BY <1>2, <1>3, <1>6, <2>1, <3>1, <3>2, Gaps DEF Timer
        <4> QED
          BY <1>6, <2>1, <4>1 DEF Timer, Due, SendingInv
      <3>3. CASE lost' = 0 /\ quiet' = 0
        <4>1. quiet' + wait' <= Gap(lost') + Rearmed /\ wait' > 0
          BY <1>2, <1>3, <1>6, <2>1, <3>3 DEF Timer
        <4> QED
          BY <1>6, <2>1, <4>1 DEF Timer, Due, SendingInv
      <3> QED
        BY <1>6, <2>1, <3>2, <3>3 DEF Timer
    <2>2. CASE ~Due(ready, wait)
      BY <1>1, <1>3, <1>6, <2>2 DEF Timer, Due, SendingInv
    <2> QED
      BY <2>0, <2>1, <2>2
  <1>7. CASE Suspended
    BY <1>1, <1>7 DEF Suspended, SendingInv
  <1>8. CASE Resumed
    <2>1. wait <= Rearmed
      BY <1>1, <1>3 DEF TypeOK
    <2> QED
      BY <1>1, <1>2, <1>3, <1>8, <2>1 DEF Resumed, SendingInv
  <1>9. CASE Arrive
    BY <1>1, <1>9 DEF Arrive, SendingInv
  <1>10. CASE Tick
    BY <1>1, <1>2, <1>3, <1>10 DEF Tick, SendingInv
  <1>11. CASE UNCHANGED vars
    BY <1>1, <1>11 DEF vars, SendingInv
  <1> QED
    BY <1>4, <1>5, <1>6, <1>7, <1>8, <1>9, <1>10, <1>11 DEF Next

\* More time is granted, or a tick passes: the countdown stays covered.
LEMMA CoveredByMore ==
  \A l, s, t, e, f \in Nat : Covered(l, s, e, f) /\ s <= t => Covered(l, t, e, f)
PROOF
  BY Settings DEF Covered

LEMMA CoveredByTick ==
  \A l, m, s, t, e, d, f, g \in Nat :
    /\ Covered(l, s, e, f)
    /\ l - 1 <= m /\ t = s + 1 /\ d <= e + 1 /\ g <= f + 1
    => Covered(m, t, d, g)
PROOF
  BY Settings DEF Covered

\* A new countdown, and a new session, are covered, and so is a suspension.
LEMMA CoveredAnew ==
  /\ \A s, e, f \in Nat : Covered(Window, s, e, f)
  /\ \A l, s, f \in Nat : PingFreq \div 3 <= s => Covered(l, s, 0, f)
  /\ \A l, s, e \in Nat : Covered(l, s, e, 0)
PROOF
  BY Settings DEF Covered

\* Elements of a sequence.
LEMMA ElementOf ==
  ASSUME NEW S, NEW q \in Seq(S)
  PROVE  /\ \A i \in DOMAIN q : q[i] \in S
         /\ q # <<>> => 1 \in DOMAIN q
PROOF
  OBVIOUS

\* The countdown that is left covers the requests on their way.
LEMMA RunningStep == IInv /\ [Next]_vars => RunningInv'
PROOF
  <1> SUFFICES ASSUME IInv, [Next]_vars, ready', CancelOnDisconnect
               PROVE  Covered(left', Since', elapsed', free')
    BY DEF RunningInv, Covered
  <1>1. TypeOK /\ TypeOK' /\ SendingInv /\ RunningInv /\ HeldInv
    BY NextTypeOK DEF IInv
  <1>2. /\ left \in Nat /\ left' \in Nat /\ elapsed \in Nat /\ elapsed' \in Nat
        /\ quiet \in Nat /\ quiet' \in Nat /\ idle \in 0 .. Period /\ lost \in 0 .. Losses
        /\ free \in Nat /\ free' \in Nat
    BY <1>1, Settings DEF TypeOK
  <1>3. wire \in Seq(0 .. Delay) /\ wire' \in Seq(0 .. Delay)
    BY <1>1 DEF TypeOK
  <1>4. Gap(Losses + 1) \in Nat /\ PingFreq \div 3 \in Nat /\ PingFreq \div 3 <= Gap(Losses + 1)
    BY Margin, Settings
  <1>5. /\ wire # <<>> => wire[1] \in Nat /\ Since = wire[1] + Gap(Losses + 1)
        /\ wire = <<>> => Since = quiet
        /\ Since \in Nat
    BY <1>2, <1>3, <1>4, Settings DEF Since
  <1>6. /\ wire' # <<>> => wire'[1] \in Nat /\ Since' = wire'[1] + Gap(Losses + 1)
        /\ wire' = <<>> => Since' = quiet'
        /\ Since' \in Nat
    BY <1>2, <1>3, <1>4, Settings DEF Since
  <1>7. ready => Covered(left, Since, elapsed, free)
    BY <1>1 DEF RunningInv
  <1>8. CASE Connected
    <2>1. PingFreq \div 3 <= Since'
      <3>1. CASE wire' = <<>>
        BY <1>4, <1>6, <1>8, <3>1 DEF Connected
      <3>2. CASE wire' # <<>>
        <4>1. PICK n \in Nat : n = wire'[1]
          BY <1>6, <3>2
        <4> QED
          BY <1>4, <1>6, <3>2, <4>1
      <3> QED
        BY <3>1, <3>2
    <2> QED
      BY <1>2, <1>6, <1>8, <2>1, CoveredAnew DEF Connected
  <1>9. CASE Disconnected
    BY <1>9 DEF Disconnected
  <1>10. CASE held /\ free' = free
    BY <1>1, <1>2, <1>6, <1>10, CoveredAnew DEF HeldInv
  <1>11. CASE Timer /\ ~held
    <2>1. left' = left /\ elapsed' = elapsed /\ free' = free /\ ready
      BY <1>11 DEF Timer
    <2>2. Since <= Since'
      <3>1. CASE Due(ready, wait) /\ wire' = Append(wire, 0) /\ wire = <<>>
        <4>1. quiet <= Gap(lost) + (PingFreq \div 3) + idle
          BY <1>1, <1>11, <3>1 DEF Due, SendingInv
        <4>2. Gap(lost) \in Nat /\ Gap(lost) + (PingFreq \div 3) + Period <= Gap(Losses + 1)
          BY <1>2, Gaps
        <4>3. \A q, i, g, h, t \in Nat : q <= g + t + i /\ g + t + Period <= h /\ i <= Period => q <= h
          BY Settings
        <4>4. quiet <= Gap(Losses + 1)
          <5>1. idle \in Nat /\ idle <= Period
            BY <1>2, Settings
          <5> QED
            BY <1>2, <1>4, <4>1, <4>2, <4>3, <5>1, Zenon
        <4>5. wire' # <<>> /\ wire'[1] = 0
          BY <3>1
        <4> QED
          BY <1>4, <1>5, <1>6, <3>1, <4>4, <4>5
      <3>2. CASE wire' = Append(wire, 0) /\ wire # <<>>
        <4>1. wire' # <<>> /\ wire'[1] = wire[1]
          BY <1>3, <3>2
        <4>2. Since' = Since
          BY <1>5, <1>6, <3>2, <4>1
        <4> QED
          BY <1>5, <4>2
      <3>3. CASE wire' = wire /\ quiet' = quiet
        <4>1. Since' = Since
          BY <1>5, <1>6, <3>3
        <4> QED
          BY <1>5, <4>1
      <3> QED
        BY <1>11, <3>1, <3>2, <3>3 DEF Timer
    <2> QED
      BY <1>2, <1>5, <1>6, <1>7, <2>1, <2>2, CoveredByMore, Zenon
  <1>12. CASE Suspended
    BY <1>2, <1>6, <1>12, CoveredAnew DEF Suspended
  <1>13. CASE Resumed
    BY <1>10, <1>13 DEF Resumed
  <1>14. CASE Arrive
    BY <1>2, <1>6, <1>14, CoveredAnew DEF Arrive
  <1>15. CASE Tick /\ ~held
    <2>1. /\ wire = <<>> <=> wire' = <<>>
          /\ wire # <<>> => wire'[1] = wire[1] + 1
      BY <1>3, <1>15 DEF Tick
    <2>2. Since' = Since + 1
      <3>1. CASE wire = <<>>
        BY <1>5, <1>6, <1>15, <2>1, <3>1 DEF Tick
      <3>2. CASE wire # <<>>
        BY <1>4, <1>5, <1>6, <2>1, <3>2
      <3> QED
        BY <3>1, <3>2
    <2>3. left - 1 <= left' /\ elapsed' <= elapsed + 1 /\ free' <= free + 1 /\ ready
      BY <1>2, <1>15 DEF Tick
    <2> QED
      BY <1>2, <1>5, <1>6, <1>7, <2>2, <2>3, CoveredByTick, Zenon
  <1>16. CASE UNCHANGED vars
    <2>1. left' = left /\ elapsed' = elapsed /\ free' = free /\ Since' = Since /\ ready
      BY <1>16 DEF vars, Since
    <2> QED
      BY <1>7, <2>1
  <1>17. CASE (Timer \/ Tick) /\ held
    BY <1>1, <1>10, <1>17 DEF Timer, Tick, HeldInv
  <1> QED
    BY <1>8, <1>9, <1>11, <1>12, <1>13, <1>14, <1>15, <1>16, <1>17 DEF Next

\* Without a connection nothing new is sent, and what is on its way is older.
LEMMA CutOffStep == IInv /\ [Next]_vars => CutOffInv'
PROOF
  <1> SUFFICES ASSUME IInv, [Next]_vars, ~ready' PROVE CutOffInv'
    BY DEF CutOffInv
  <1>1. TypeOK /\ TypeOK' /\ CutOffInv
    BY NextTypeOK DEF IInv
  <1>2. /\ left \in 0 .. Window /\ elapsed \in Nat /\ elapsed' \in Nat
        /\ Window \in Nat /\ Delay \in Nat
    BY <1>1, Settings DEF TypeOK
  <1>3. wire \in Seq(0 .. Delay) /\ wire' \in Seq(0 .. Delay)
    BY <1>1 DEF TypeOK
  <1>4. CASE Connected
    BY <1>4 DEF Connected
  <1>5. CASE Disconnected
    <2>1. elapsed' = 0 /\ left' = left
      BY <1>5 DEF Disconnected
    <2>2. \A i \in DOMAIN wire' : wire'[i] \in Nat /\ wire'[i] <= Delay
      BY <1>2, <1>3
    <2>3. \A i \in DOMAIN wire' : elapsed' <= wire'[i]
      BY <2>1, <2>2
    <2>4. left' + elapsed' <= Window + Delay
      BY <1>2, <2>1
    <2> QED
      BY <2>3, <2>4 DEF CutOffInv
  <1>6. CASE Timer
    BY <1>1, <1>6 DEF Timer, Due, CutOffInv
  <1>7. CASE Arrive
    <2>1. ~ready /\ elapsed' = elapsed /\ left' = Window /\ wire # <<>> /\ wire' = Tail(wire)
      BY <1>7 DEF Arrive
    <2>2. elapsed <= wire[1] /\ wire[1] \in 0 .. Delay
      <3>1. 1 \in DOMAIN wire /\ wire[1] \in 0 .. Delay
        BY <1>3, <2>1, ElementOf
      <3> QED
        BY <1>1, <2>1, <3>1 DEF CutOffInv
    <2>3. \A i \in DOMAIN wire' : wire'[i] = wire[i + 1] /\ i + 1 \in DOMAIN wire
      BY <1>3, <2>1
    <2>4. \A i \in DOMAIN wire' : elapsed' <= wire'[i]
      BY <1>1, <2>1, <2>3 DEF CutOffInv
    <2> QED
      BY <1>2, <2>1, <2>2, <2>4 DEF CutOffInv
  <1>8. CASE Tick
    <2>1. ~ready /\ elapsed' <= elapsed + 1
      BY <1>2, <1>8 DEF Tick
    <2>2. \A i \in DOMAIN wire' : elapsed' <= wire'[i]
      <3> TAKE i \in DOMAIN wire'
      <3>1. i \in DOMAIN wire /\ wire'[i] = wire[i] + 1
        BY <1>8 DEF Tick
      <3>2. elapsed <= wire[i] /\ wire[i] \in Nat
        <4>1. wire[i] \in 0 .. Delay
          BY <1>3, <3>1, ElementOf
        <4> QED
          BY <1>1, <1>2, <2>1, <3>1, <4>1 DEF CutOffInv
      <3> QED
        BY <1>2, <2>1, <3>1, <3>2
    <2>3. left' > 0 => left > 0 /\ left' = left - 1
      BY <1>2, <1>8 DEF Tick
    <2>4. ASSUME left' > 0 PROVE left' + elapsed' <= Window + Delay
      <3>1. left > 0 /\ left' = left - 1 /\ left + elapsed <= Window + Delay
        BY <1>1, <2>1, <2>3, <2>4 DEF CutOffInv
      <3>2. \A l, e, f, w, d \in Nat : l + e <= w + d /\ f <= e + 1 => (l - 1) + f <= w + d
        OBVIOUS
      <3>3. left \in Nat
        BY <1>2
      <3> QED
        BY <1>2, <2>1, <3>1, <3>2, <3>3, Zenon
    <2> QED
      BY <2>2, <2>4 DEF CutOffInv
  <1>9. CASE Suspended \/ Resumed
    BY <1>1, <1>9 DEF Suspended, Resumed, CutOffInv
  <1>10. CASE UNCHANGED vars
    BY <1>1, <1>10 DEF vars, CutOffInv
  <1> QED
    BY <1>4, <1>5, <1>6, <1>7, <1>8, <1>9, <1>10 DEF Next

\* The time since a suspension is reset when one begins.
LEMMA HeldStep == HeldInv /\ [Next]_vars => HeldInv'
PROOF
  <1> SUFFICES ASSUME HeldInv, [Next]_vars PROVE HeldInv'
    OBVIOUS
  <1>1. CASE Connected \/ Disconnected \/ Timer \/ Arrive
    BY <1>1 DEF Connected, Disconnected, Timer, Arrive, HeldInv
  <1>2. CASE Suspended \/ Resumed
    BY <1>2 DEF Suspended, Resumed, HeldInv
  <1>3. CASE Tick
    BY <1>3 DEF Tick, HeldInv
  <1>4. CASE UNCHANGED vars
    BY <1>4 DEF vars, HeldInv
  <1> QED
    BY <1>1, <1>2, <1>3, <1>4 DEF Next

LEMMA Invariance == Spec => []IInv
PROOF
  <1>1. IInv /\ [Next]_vars => IInv'
    BY NextTypeOK, SendingStep, RunningStep, HeldStep, CutOffStep DEF IInv
  <1> QED
    BY InitIInv, <1>1, PTL DEF Spec

----------------------------------------------------------------------------
(* The promises *)

\* A gateway that is alive keeps its orders, whatever its settings, as long as
\* they leave the margin: once a session has settled, and for long enough after
\* requests were suspended, the exchange's countdown never runs out
\* (check_countdown_cancel_all sends in time).
THEOREM AliveIsKept == Spec => []KeptAlive
PROOF
  <1>1. IInv => KeptAlive
    <2> SUFFICES ASSUME IInv, ready, CancelOnDisconnect, elapsed > Settled, free > Resettled
                 PROVE  left > 0
      BY DEF KeptAlive
    <2>1. TypeOK /\ SendingInv /\ RunningInv /\ ~held
      BY Settings DEF IInv, HeldInv
    <2>2. /\ left \in Nat /\ elapsed \in Nat /\ quiet \in Nat /\ wait \in Nat
          /\ wire \in Seq(0 .. Delay) /\ idle \in 0 .. Period /\ lost \in 0 .. Losses
          /\ PingFreq \div 3 \in Nat /\ Settled \in Nat /\ Delay \in Nat /\ Window \in Nat
          /\ Period \in Nat /\ Rearmed = (PingFreq \div 3) + 1
          /\ free \in Nat /\ Resettled \in Nat
      BY <2>1, Settings DEF TypeOK, Rearmed
    <2>3. quiet <= Gap(Losses + 1)
      <3>1. /\ Gap(lost) \in Nat /\ Gap(Losses + 1) \in Nat
            /\ Gap(lost) + (PingFreq \div 3) + Period <= Gap(Losses + 1)
        BY <2>2, Gaps, Margin
      <3>2. CASE wait > 0
        <4>1. quiet + wait <= Gap(lost) + Rearmed
          BY <2>1, <3>2 DEF SendingInv
        <4> QED
          BY <2>2, <3>1, <3>2, <4>1, SettingsAssumption
      <3>3. CASE wait = 0
        <4>1. quiet <= Gap(lost) + (PingFreq \div 3) + idle
          BY <2>1, <3>3 DEF SendingInv
        <4> QED
          BY <2>2, <3>1, <4>1
      <3> QED
        BY <2>2, <3>2, <3>3
    <2>4. Since \in Nat /\ Since <= Gap(Losses + 1) + Delay
      <3>1. Gap(Losses + 1) \in Nat /\ (wire # <<>> => wire[1] \in 0 .. Delay)
        BY <2>2, ElementOf, Margin
      <3> QED
        BY <2>2, <2>3, <3>1 DEF Since
    <2>5. left + Since >= Window \/ elapsed + (PingFreq \div 3) <= Since \/ free <= Since
      BY <2>1 DEF RunningInv, Covered
    <2> QED
      BY <2>2, <2>4, <2>5, Margin
  <1> QED
    BY Invariance, <1>1, PTL

\* A gateway that is cut off does not keep its orders: the countdown ends
\* within Window of the last request on its way (nothing is sent unless ready).
THEOREM CutOffRunsOut == Spec => []RunsOutWhenCutOff
PROOF
  <1>1. IInv => RunsOutWhenCutOff
    BY DEF IInv, CutOffInv, RunsOutWhenCutOff
  <1> QED
    BY Invariance, <1>1, PTL
=============================================================================
