------------------------------ MODULE MarketBook ------------------------------
(***************************************************************************)
(* What a client may conclude from the MarketByPriceUpdate messages of an  *)
(* instrument. The exchange's book changes a level at a time. Clients are  *)
(* given a snapshot first and follow from there: with every update their   *)
(* book is the exchange's as it was at some version, and later versions    *)
(* come after earlier ones. When the gateway loses track clients are told  *)
(* nothing: their book stands still until a snapshot takes them on.        *)
(***************************************************************************)
EXTENDS Naturals, Sequences

CONSTANT Levels  \* price levels

VARIABLES
  changes,   \* the exchange: the level that each version changed
  book,      \* the clients' book: the version that changed a level last
  shown,     \* the version it is published for
  following  \* does the gateway follow the exchange?

Init ==
  /\ changes = <<>>
  /\ book = [l \in Levels |-> 0]
  /\ shown = 0
  /\ following = FALSE

\* The versions up to `v` in which level `l` changed.
ChangesOf(l, v) == {n \in 1 .. v : changes[n] = l}

\* Clients get the book as it was at version `v`.
Show(v) ==
  /\ shown' = v
  /\ book' \in [Levels -> 0 .. v]
  /\ \A l \in Levels : /\ book'[l] \in ChangesOf(l, v) \cup {0}
                       /\ \A n \in ChangesOf(l, v) : n <= book'[l]

Change(l) ==
  /\ changes' = Append(changes, l)
  /\ UNCHANGED <<book, shown, following>>

\* UpdateType::INCREMENTAL
Update ==
  /\ following /\ following'
  /\ \E v \in shown + 1 .. Len(changes) : Show(v)
  /\ UNCHANGED changes

\* UpdateType::SNAPSHOT, which never takes clients back.
Snapshot ==
  /\ ~following /\ following'
  /\ \E v \in shown .. Len(changes) : Show(v)
  /\ UNCHANGED changes

LoseTrack ==
  /\ following /\ ~following'
  /\ UNCHANGED <<changes, book, shown>>

Next == (\E l \in Levels : Change(l)) \/ Update \/ Snapshot \/ LoseTrack

Spec == Init /\ [][Next]_<<changes, book, shown, following>>
=============================================================================
