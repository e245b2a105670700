---------------------------- MODULE OrderHistory ----------------------------
(***************************************************************************)
(* OrderFlow with two history variables, which say what a client of the    *)
(* gateway may expect to see of an order: the states it has been in, and   *)
(* the lots that traded while no stream was there to tell of them.         *)
(***************************************************************************)
EXTENDS OrderFlow

VARIABLES
  past,   \* the states each order has been in
  behind  \* lots of each order that were not reported when the session began

historyVars == <<vars, past, behind>>

HistoryInit ==
  /\ Init
  /\ past = [o \in Orders |-> {Absent}]
  /\ behind = [o \in Orders |-> 0]

Remember ==
  /\ past' = [o \in Orders |-> past[o] \cup {book'[o]}]
  /\ behind' = IF ~up /\ up' THEN [o \in Orders |-> book[o].executed - reported[o]]
               ELSE behind

HistorySpec == HistoryInit /\ [][Next /\ Remember]_historyVars

----------------------------------------------------------------------------
(* What the design promises *)

View == INSTANCE OrderView WITH None <- Absent

\* Answers, events and snapshots race, are lost and come late; still a client
\* that keeps the latest update sees states the order really had, in their
\* order: no update mixes two of them or comes from a state already replaced.
ImplementsOrderView == View!Spec

\* An event on its way tells of a trade of the order.
Pending(o) == \E j \in DOMAIN feed : feed[j].order = o /\ feed[j].trade

\* Every lot that trades while the stream is up is published as a fill once,
\* whatever answers and snapshots say of the order meanwhile: when no trade is
\* on its way, what is missing is what traded before the session began.
FillsOnce ==
  \A o \in Orders : up /\ ~Pending(o) => reported[o] + behind[o] = book[o].executed
=============================================================================
