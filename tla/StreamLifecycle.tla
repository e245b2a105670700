--------------------------- MODULE StreamLifecycle ---------------------------
(***************************************************************************)
(* What a client may conclude from the StreamStatus messages about the     *)
(* user stream of an account: a stream is created closed, every session    *)
(* starts by downloading from nothing, READY comes only after everything   *)
(* required was fetched in that session, the end of a session is always    *)
(* announced, and a stream is taken away only while it is closed.          *)
(***************************************************************************)
CONSTANTS
  Accounts,  \* accounts with a user stream
  Required   \* what a session must download

VARIABLES
  phase,     \* the stream of an account, as announced
  fetched    \* what the session downloaded so far

Phases == {"ABSENT", "CLOSED", "DOWNLOADING", "READY"}

Init ==
  /\ phase   = [a \in Accounts |-> "ABSENT"]
  /\ fetched = [a \in Accounts |-> {}]

Moves(a, from, to) == phase[a] \in from /\ phase'[a] = to

Create(a)   == Moves(a, {"ABSENT"}, "CLOSED") /\ fetched'[a] = {}
Open(a)     == Moves(a, {"CLOSED"}, "DOWNLOADING") /\ fetched'[a] = {}
Fetch(a)    == /\ phase[a] \in {"DOWNLOADING", "READY"}
               /\ phase'[a] = phase[a]
               /\ fetched[a] \subseteq fetched'[a]
               /\ fetched'[a] \subseteq Required
Complete(a) == /\ Moves(a, {"DOWNLOADING"}, "READY")
               /\ fetched[a] = Required
               /\ fetched'[a] = fetched[a]
Close(a)    == Moves(a, {"DOWNLOADING", "READY"}, "CLOSED") /\ fetched'[a] = {}
Remove(a)   == Moves(a, {"CLOSED"}, "ABSENT") /\ fetched'[a] = {}
Idle(a)     == phase'[a] = phase[a] /\ fetched'[a] = fetched[a]

Step(a) == \/ Create(a) \/ Open(a) \/ Fetch(a) \/ Complete(a)
           \/ Close(a) \/ Remove(a) \/ Idle(a)

\* One turn of the event loop may move several accounts.
Next ==
  /\ phase'   \in [Accounts -> Phases]
  /\ fetched' \in [Accounts -> SUBSET Required]
  /\ \A a \in Accounts : Step(a)

Spec == Init /\ [][Next]_<<phase, fetched>>
=============================================================================
