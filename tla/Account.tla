------------------------------ MODULE Account ------------------------------
(***************************************************************************)
(* One account of the gateway: its REST connections (OrderEntry), whose    *)
(* requests are signed (Signing) and may be suspended (Throttle), and its  *)
(* funds and positions, which clients are told of on two ways that race:   *)
(* the account snapshot, which is downloaded over REST in every session of *)
(* the user stream, and the AccountUpdate events of the stream (DropCopy). *)
(*                                                                         *)
(* The exchange and the REST client are outside the repository: a          *)
(* connection is a pipeline, answered in the order of its requests; a      *)
(* request that is made while requests are suspended is not sent.          *)
(***************************************************************************)
EXTENDS Signing, Throttle, Sequences, FiniteSets

CONSTANTS
  Connections,  \* OrderEntry connections of the account
  Master,       \* the one that sends the requests of downloads
  Funds,        \* assets
  Positions,    \* instruments with a position (one-way mode)
  Isolated,     \* those of them with isolated margin
  MaxRequests,  \* bound: requests signed
  MaxChanges,   \* bound: changes of funds and positions
  MaxDown       \* bound: times the user stream is lost

ASSUME AccountAssumption ==
  /\ Master \in Connections /\ Isolated \subseteq Positions
  /\ MaxRequests \in Nat /\ MaxChanges \in Nat /\ MaxDown \in Nat

VARIABLES
  wire,     \* requests outstanding on a connection, oldest first
  arrived,  \* history: the nonce that arrived last on a connection
  book,     \* the exchange: when an item of the account changed last
  time,     \* the exchange: when anything changed last
  up,       \* is the user stream up?
  feed,     \* AccountUpdate events on the user stream, oldest first
  downs,    \* how often the user stream was lost
  current,  \* was a snapshot delivered that was taken in this session?
  view      \* the latest state published for an item under a margin mode

rest    == <<wire, arrived>>
stream  == <<up, feed, downs, current>>
account == <<book, time, stream, view>>
vars    == <<clock, signing, throttle, rest, account>>

----------------------------------------------------------------------------
Items == Funds \cup Positions
Modes == {"NONE", "CROSS", "ISOLATED"}

\* An item's state is named by the exchange's time of its last change.
Snapshot == [Items -> Nat]
Nothing  == [i \in Items |-> 0]

Entries == [nonce : Nat, kind : {"ACCOUNT", "OTHER"}, status : Statuses \cup {"PENDING"},
            fresh : BOOLEAN, seen : Snapshot]

\* The margin_mode of an update from the snapshot, and of one from the stream.
AckMode(i)    == IF i \in Funds THEN "NONE" ELSE "CROSS"
UpdateMode(i) == IF i \in Funds THEN "NONE"
                 ELSE IF i \in Isolated THEN "ISOLATED" ELSE "CROSS"

Pending(kind) == \E c \in Connections : \E j \in DOMAIN wire[c] : wire[c][j].kind = kind

----------------------------------------------------------------------------
(* Requests *)

\* The requests an event leads to are signed one after the other, and sent on
\* one connection.
Send(c, kind, k) ==
  /\ Cardinality(issued) + k <= MaxRequests
  /\ \E origin \in low .. high :
       /\ Sign(origin, k)
       /\ wire' = IF Suspended THEN wire
                  ELSE [wire EXCEPT ![c] = @ \o [j \in 1 .. k |->
                          [nonce |-> First(origin) + j - 1, kind |-> kind,
                           status |-> "PENDING", fresh |-> FALSE, seen |-> Nothing]]]
  /\ UNCHANGED <<clock, throttle, arrived, account>>

\* The account request waits in Request while one is outstanding.
GetAccount == ~Pending("ACCOUNT") /\ Send(Master, "ACCOUNT", 1)

\* Order requests, countdowns, user-trades: every other signed request.
OtherRequests(c, k) == Send(c, "OTHER", k)

\* The exchange answers the oldest request that it did not answer yet: an
\* account request with a snapshot.
Answered(e, status) ==
  IF e.kind = "ACCOUNT" /\ status = "OK"
  THEN [e EXCEPT !.status = status, !.fresh = up, !.seen = book]
  ELSE [e EXCEPT !.status = status]

Answer(c, status) ==
  \E j \in DOMAIN wire[c] :
    /\ wire[c][j].status = "PENDING"
    /\ \A h \in 1 .. j - 1 : wire[c][h].status # "PENDING"
    /\ wire' = [wire EXCEPT ![c][j] = Answered(@, status)]
    /\ arrived' = [arrived EXCEPT ![c] = wire[c][j].nonce]
    /\ UNCHANGED <<clock, signing, throttle, account>>

Later(x, y) == IF y > x THEN y ELSE x

\* AccountAck: the exchange_time_utc of an update is the item's update_time.
AckTime(e, i) == e.seen[i]

AckHandled(e) == e.kind = "ACCOUNT" /\ e.status = "OK"

\* An answer is delivered: the throttle sees its status, and the snapshot in
\* an account answer that is a success is published item by item.
Deliver(c) ==
  /\ wire[c] # <<>> /\ Head(wire[c]).status # "PENDING"
  /\ wire' = [wire EXCEPT ![c] = Tail(@)]
  /\ LET e == Head(wire[c]) IN
       /\ MessageEnd(e.status)
       /\ view' = [key \in Items \X Modes |->
                     IF AckHandled(e) /\ key[2] = AckMode(key[1])
                     THEN Later(view[key], AckTime(e, key[1])) ELSE view[key]]
       /\ current' = (current \/ (AckHandled(e) /\ e.fresh))
  /\ UNCHANGED <<clock, signing, arrived, book, time, up, feed, downs>>

\* Everything outstanding on a connection that is lost fails, without status.
Disconnected(c) ==
  /\ wire' = [wire EXCEPT ![c] = <<>>]
  /\ UNCHANGED <<clock, signing, throttle, arrived, account>>

----------------------------------------------------------------------------
(* Funds and positions *)

\* A fill, a transfer or a funding fee changes items, all at one time.
Change(items) ==
  /\ time < MaxChanges
  /\ time' = time + 1
  /\ book' = [i \in Items |-> IF i \in items THEN time + 1 ELSE book[i]]
  /\ feed' = IF up THEN Append(feed, [items |-> items, time |-> time + 1]) ELSE feed
  /\ UNCHANGED <<clock, signing, throttle, rest, up, downs, current, view>>

UpdateTime_Zero(m) == 0  \* mutant: the transaction time is not passed on

\* The exchange_time_utc of an update is the event's transaction_time.
UpdateTime(m) == m.time

AccountUpdate ==
  /\ feed # <<>>
  /\ feed' = Tail(feed)
  /\ LET m == Head(feed) IN
       view' = [key \in Items \X Modes |->
                  IF key[1] \in m.items /\ key[2] = UpdateMode(key[1])
                  THEN Later(view[key], UpdateTime(m)) ELSE view[key]]
  /\ UNCHANGED <<clock, signing, throttle, rest, book, time, up, downs, current>>

StreamUp ==
  /\ ~up
  /\ up' = TRUE
  /\ UNCHANGED <<clock, signing, throttle, rest, book, time, feed, downs, current, view>>

\* Events not delivered are lost.  A snapshot that was taken for this session,
\* and is on its way, does not count for the next.
StreamDown ==
  /\ up /\ downs < MaxDown
  /\ up' = FALSE /\ feed' = <<>> /\ current' = FALSE
  /\ downs' = downs + 1
  /\ wire' = [c \in Connections |-> [j \in DOMAIN wire[c] |-> [wire[c][j] EXCEPT !.fresh = FALSE]]]
  /\ UNCHANGED <<clock, signing, throttle, arrived, book, time, view>>

----------------------------------------------------------------------------
(* Time and restarts *)

Tick == SigningTick /\ ThrottleTick /\ UNCHANGED <<rest, account>>

\* A new process: no connection, no stream, nothing published.
Restart(d) ==
  /\ SigningRestart(d) /\ ThrottleRestart(d)
  /\ wire' = [c \in Connections |-> <<>>]
  /\ up' = FALSE /\ feed' = <<>> /\ current' = FALSE
  /\ view' = [key \in Items \X Modes |-> 0]
  /\ UNCHANGED <<arrived, book, time, downs>>

AccountInit ==
  /\ SigningInit /\ ThrottleInit
  /\ wire = [c \in Connections |-> <<>>]
  /\ arrived = [c \in Connections |-> 0]
  /\ book = Nothing /\ time = 0
  /\ up = FALSE /\ feed = <<>> /\ downs = 0 /\ current = FALSE
  /\ view = [key \in Items \X Modes |-> 0]

AccountNext ==
  \/ GetAccount
  \/ \E c \in Connections, k \in 1 .. Burst : OtherRequests(c, k)
  \/ \E c \in Connections, status \in Statuses : Answer(c, status)
  \/ \E c \in Connections : Deliver(c) \/ Disconnected(c)
  \/ \E items \in SUBSET Items \ {{}} : Change(items)
  \/ AccountUpdate \/ StreamUp \/ StreamDown
  \/ Tick
  \/ \E d \in Absences : Restart(d)

AccountSpec == AccountInit /\ [][AccountNext]_vars

----------------------------------------------------------------------------
(* What the design promises *)

\* Every variable stays in its domain.
AccountTypeOK ==
  /\ SigningTypeOK /\ ThrottleTypeOK
  /\ wire \in [Connections -> Seq(Entries)]
  /\ arrived \in [Connections -> Nat]
  /\ book \in Snapshot /\ time \in Nat
  /\ up \in BOOLEAN /\ downs \in Nat /\ current \in BOOLEAN
  /\ feed \in Seq([items : SUBSET Items, time : Nat])
  /\ view \in [Items \X Modes -> Nat]

\* The exchange receives growing nonces on each connection, over sessions,
\* bursts, steps of the clock and restarts, although events are not handled in
\* the order of their creation.  (Between connections there is no order.)
NoncesGrow ==
  \A c \in Connections : \A j \in DOMAIN wire[c] :
    wire[c][j].status = "PENDING" =>
      /\ wire[c][j].nonce > arrived[c]
      /\ \A h \in 1 .. j - 1 : wire[c][h].nonce < wire[c][j].nonce

\* No request is sent in the minute after a 418, nor in the minute after the
\* first 429, whatever the clock and the answers still on their way do.
SilenceKept ==
  [][(\E c \in Connections : Len(wire'[c]) > Len(wire[c])) => quiet = 0]_vars

\* A client that keeps the latest update of an item has the exchange's state
\* of the account once a snapshot taken in this session and all events are
\* delivered, whatever of them came first.  Not so for isolated positions,
\* which the snapshot publishes as CROSS and the stream as ISOLATED.
BalancesConverge ==
  up /\ current /\ feed = <<>>
    => \A i \in Items \ Isolated : view[<<i, UpdateMode(i)>>] = book[i]
=============================================================================
