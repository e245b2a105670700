---------------------------- MODULE MCOrderFlow ----------------------------
(* Instances of OrderFlow for TLC. *)
EXTENDS OrderFlow

CONSTANTS o1, o2, s1, s2

OneSymbol  == [o \in Orders |-> s1]
TwoSymbols == [o \in Orders |-> IF o = o1 THEN s1 ELSE s2]

\* Routing and replies do not depend on the user stream: these behaviors leave
\* out its sessions, what it downloads, and more than two requests on their way.
\* None of what is left out is a step that fairness asks for.
NoStream == ~up' /\ snap' = {} /\ Cardinality(InFlight') <= 2

RoutingSpec == Init /\ [][Next /\ NoStream]_vars /\ Fairness
=============================================================================
