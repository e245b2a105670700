------------------------------ MODULE Countdown ------------------------------
(***************************************************************************)
(* Cancel on disconnect, a dead man's switch at the exchange.  While the   *)
(* REST connection of an account's master OrderEntry is up, its timer asks *)
(* the exchange again and again to cancel all orders after ping_freq; a    *)
(* request comes every ping_freq / 3, so that one or two may get lost.     *)
(* When the gateway dies or is cut off, the exchange's countdown runs out. *)
(* While the throttle suspends requests the timer goes on as before, but   *)
(* nothing is sent.                                                        *)
(* Time is discrete and every clock of the model is relative.  The         *)
(* exchange and the event loop are outside the repository: a request takes *)
(* effect when it arrives, and timers come at bounded intervals.           *)
(***************************************************************************)
EXTENDS Integers, Sequences

CONSTANTS
  CancelOnDisconnect, \* rest.cancel_on_disconnect
  PingFreq,  \* rest.ping_freq, in ticks
  Second,    \* ticks per second
  Period,    \* longest time between two timers
  Delay,     \* longest time a request is on its way
  Losses     \* requests in a row the exchange may refuse

VARIABLES
  ready,    \* is the master OrderEntry ready()?
  wait,     \* ticks until next_heartbeat_ has passed
  idle,     \* ticks since the last timer
  wire,     \* ages of the requests on their way, oldest first
  held,     \* are requests suspended by Throttle?
  left,     \* what is left of the exchange's countdown, 0 when it does not run
  lost,     \* history: requests refused in a row
  quiet,    \* history: ticks since the last request that is not refused
  elapsed,  \* history: ticks since ready changed, up to 2 * Window
  free      \* history: ticks since requests were last suspended, capped

vars == <<ready, wait, idle, wire, held, left, lost, quiet, elapsed, free>>

----------------------------------------------------------------------------

\* The exchange is told whole seconds: the encoder gets duration_cast<seconds>.
Window == (PingFreq \div Second) * Second

Rearmed_Full == PingFreq + 1  \* mutant: the factor is forgotten

\* next_heartbeat_ < now holds again one tick after ping_freq / 3.
Rearmed == (PingFreq \div 3) + 1

\* The longest time between two requests: a timer just misses the moment.
Spacing == (PingFreq \div 3) + Period

\* By then a session's first request that is not refused has arrived.
Settled == Losses * Spacing + Period + Delay

\* The same after a suspension, which leaves next_heartbeat_ where it is.
Resettled == (Losses + 1) * Spacing + Delay

ASSUME SettingsAssumption ==
  /\ CancelOnDisconnect \in BOOLEAN
  /\ PingFreq \in Nat /\ Second \in Nat \ {0}
  /\ Period \in Nat \ {0} /\ Delay \in Nat /\ Losses \in Nat

\* What an operator has to see to when he sets ping_freq.
ASSUME MarginAssumption == (Losses + 1) * Spacing + Delay < Window

----------------------------------------------------------------------------

\* The state a process starts from; an earlier one may have left a countdown.
Init ==
  /\ ready = FALSE /\ wait = 0 /\ idle = 0 /\ wire = <<>>
  /\ left \in 0 .. Window
  /\ held = FALSE
  /\ lost = 0 /\ quiet = 0 /\ elapsed = 0 /\ free = 0

\* To connect takes at least a tick.
Connected ==
  /\ ~ready /\ elapsed > 0
  /\ ready' = TRUE
  /\ elapsed' = 0
  /\ lost' = 0 /\ quiet' = PingFreq \div 3  \* as if the next one was just due
  /\ UNCHANGED <<wait, idle, wire, held, left, free>>

AfterLoss_Kept(w) == w  \* mutant: next_heartbeat_ is not reset

AfterLoss(w) == 0

\* The connection is lost; what it carried may still arrive, or not.
Disconnected ==
  /\ ready
  /\ ready' = FALSE
  /\ wait' = AfterLoss(wait)
  /\ wire' \in {wire, <<>>}
  /\ elapsed' = 0
  /\ UNCHANGED <<idle, held, left, lost, quiet, free>>

Due_Always(r, w) == w = 0  \* mutant: ready() is not tested

\* check_countdown_cancel_all
Due(r, w) == r /\ CancelOnDisconnect /\ w = 0

\* countdown_cancel_all: a request that the exchange will refuse (a limit is
\* reached, say) is logged when it is answered, and has no effect. One that is
\* made while requests are suspended is not sent, though next_heartbeat_ goes on.
Timer ==
  /\ idle' = 0
  /\ IF Due(ready, wait)
     THEN /\ wait' = Rearmed
          /\ \/ held /\ UNCHANGED <<wire, lost, quiet>>
             \/ ~held /\ wire' = Append(wire, 0) /\ lost' = 0 /\ quiet' = 0
             \/ ~held /\ lost < Losses /\ lost' = lost + 1 /\ UNCHANGED <<wire, quiet>>
     ELSE UNCHANGED <<wait, wire, lost, quiet>>
  /\ UNCHANGED <<ready, held, left, elapsed, free>>

\* Throttle: an answer to any request of the gateway is a 418 or a 429.
Suspended ==
  /\ ~held
  /\ held' = TRUE
  /\ free' = 0
  /\ UNCHANGED <<ready, wait, idle, wire, left, lost, quiet, elapsed>>

\* suspend_until_ has passed.
Resumed ==
  /\ held
  /\ held' = FALSE
  /\ lost' = 0 /\ quiet' = 0  \* counted anew
  /\ UNCHANGED <<ready, wait, idle, wire, left, elapsed, free>>

----------------------------------------------------------------------------
(* The exchange, and time *)

Arrive ==
  /\ wire # <<>>
  /\ wire' = Tail(wire)
  /\ left' = Window
  /\ UNCHANGED <<ready, wait, idle, held, lost, quiet, elapsed, free>>

\* A tick: timers are not late, nor are the requests.
Tick ==
  /\ idle < Period
  /\ \A i \in DOMAIN wire : wire[i] < Delay
  /\ idle' = idle + 1
  /\ wait' = IF wait > 0 THEN wait - 1 ELSE 0
  /\ wire' = [i \in DOMAIN wire |-> wire[i] + 1]
  /\ left' = IF left > 0 THEN left - 1 ELSE 0
  /\ quiet' = IF ready /\ CancelOnDisconnect /\ ~held THEN quiet + 1 ELSE quiet
  /\ elapsed' = IF elapsed < 2 * Window THEN elapsed + 1 ELSE elapsed
  /\ free' = IF ~held /\ free <= Resettled THEN free + 1 ELSE free
  /\ UNCHANGED <<ready, held, lost>>

Next == Connected \/ Disconnected \/ Timer \/ Suspended \/ Resumed \/ Arrive \/ Tick

Spec == Init /\ [][Next]_vars

----------------------------------------------------------------------------
(* What the design promises *)

\* Every variable stays in its domain.
TypeOK ==
  /\ ready \in BOOLEAN
  /\ wait \in 0 .. ((PingFreq \div 3) + 1)
  /\ idle \in 0 .. Period
  /\ wire \in Seq(0 .. Delay)
  /\ left \in 0 .. Window
  /\ lost \in 0 .. Losses
  /\ quiet \in Nat
  /\ held \in BOOLEAN
  /\ elapsed \in 0 .. 2 * Window
  /\ free \in 0 .. Resettled + 1

\* A gateway that is alive keeps its orders: once a session has settled, and
\* requests have not been suspended for long enough, the exchange's countdown
\* runs and does not run out, however the timers drift, the requests dawdle and
\* get refused, and whatever connections and suspensions there were before.
KeptAlive ==
  ready /\ CancelOnDisconnect /\ elapsed > Settled /\ free > Resettled => left > 0

\* A gateway that is cut off does not keep them: the countdown ends no later
\* than Window after the last request that was on its way, and nothing
\* restarts it.
RunsOutWhenCutOff == ~ready /\ left > 0 => left + elapsed <= Window + Delay
=============================================================================
