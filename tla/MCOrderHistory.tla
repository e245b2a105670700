--------------------------- MODULE MCOrderHistory ---------------------------
(* An instance of OrderHistory for TLC: OrderFlow with its history. *)
EXTENDS OrderHistory

CONSTANTS o1, s1

OneSymbol == [o \in Orders |-> s1]
=============================================================================
