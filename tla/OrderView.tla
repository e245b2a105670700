------------------------------ MODULE OrderView ------------------------------
(***************************************************************************)
(* What the gateway promises a client about orders, whatever source an     *)
(* update came from: an order goes forward at the exchange, and a client   *)
(* that keeps the latest update sees some of the states it went through,   *)
(* in their order, and no state it never had.                              *)
(***************************************************************************)
EXTENDS Naturals

CONSTANTS Orders, None  \* None: the state of an order the exchange does not have

VARIABLES
  past,  \* the states each order has been in
  view   \* the latest state published of each

vars == <<past, view>>

Init == past = [o \in Orders |-> {None}] /\ view = [o \in Orders |-> None]

\* A state that may follow those an order has been in: it is later, no lot is
\* given back, and nothing follows the end of an order.
After(s, states) ==
  \A t \in states : t.time < s.time /\ t.executed <= s.executed /\ t.status # "CLOSED"

\* Orders get a new state at the exchange.
Progress ==
  /\ past' = [o \in Orders |-> past'[o]]
  /\ \A o \in Orders :
       \/ past'[o] = past[o]
       \/ \E s \in past'[o] : After(s, past[o]) /\ past'[o] = past[o] \cup {s}
  /\ UNCHANGED view

\* Later states of orders are published; states in between may be skipped.
Publish ==
  /\ view' = [o \in Orders |-> view'[o]]
  /\ \A o \in Orders : \/ view'[o] = view[o]
                       \/ view'[o] \in past[o] /\ view[o].time < view'[o].time
  /\ UNCHANGED past

Next == Progress \/ Publish

Spec == Init /\ [][Next]_vars
=============================================================================
