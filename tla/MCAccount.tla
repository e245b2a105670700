----------------------------- MODULE MCAccount -----------------------------
(* An instance of Account for TLC. *)
EXTENDS Account

\* Funds and positions do not depend on the clock, nor nonces and suspensions
\* on them: this constraint follows funds and positions while the clock stands
\* still, and the clock while there is no stream and nothing changes.
OneAtATime == now = 1 \/ (~up /\ time = 0 /\ ~Pending("ACCOUNT"))
=============================================================================
