--------------------------- MODULE OrderFlowProofs ---------------------------
(***************************************************************************)
(* Theorems of OrderFlow for every number of connections, orders, lots and *)
(* requests.                                                               *)
(***************************************************************************)
EXTENDS OrderHistory, SequenceFacts, FiniteSetTheorems, TLAPS

----------------------------------------------------------------------------
(* Going round *)

\* A connection is less than N steps away, and no two are equally far.
LEMMA DistanceRange ==
  ASSUME NEW i \in Connections, NEW c \in Connections
  PROVE  /\ Distance(i, c) \in 0 .. N - 1
         /\ \A d \in Connections : Distance(i, c) = Distance(i, d) => c = d
BY ConnectionsAssumption DEF Distance, Connections

\* Moving on past a connection brings those behind it nearer by at least one.
LEMMA PassedNearer ==
  ASSUME NEW i \in Connections, NEW c \in Connections, NEW d \in Connections,
         Distance(i, c) < Distance(i, d)
  PROVE  /\ Following(c) \in Connections
         /\ Distance(Following(c), d) < Distance(i, d)
<1>1. c + 1 \in Connections \/ c + 1 = N
  BY ConnectionsAssumption DEF Connections
<1>2. CASE c + 1 = N
  BY <1>2, ConnectionsAssumption DEF Distance, Following, Connections
<1>3. CASE c + 1 # N
  BY <1>1, <1>3, ConnectionsAssumption DEF Distance, Following, Connections
<1> QED BY <1>2, <1>3

----------------------------------------------------------------------------
(* No connection starves *)

\* The inductive strengthening of NoStarvation: a ready connection has been
\* passed over by fewer requests than N less the steps to its turn.
RoutingInv ==
  /\ ready \in [Connections -> BOOLEAN]
  /\ index \in Connections
  /\ lag \in [Connections -> Nat]
  /\ \A c \in Connections : /\ ready[c] => lag[c] + Distance(index, c) < N
                            /\ ~ready[c] => lag[c] = 0

\* One request routed by get_next.
LEMMA RouteStep ==
  ASSUME RoutingInv, NEW c \in Connections, Route(c)
  PROVE  RoutingInv'
<1>1. /\ ready' = ready /\ ready[c]
      /\ index' = Following(c)
      /\ lag' = [d \in Connections |-> IF d = c \/ ~ready[d] THEN 0 ELSE lag[d] + 1]
      /\ \A d \in Connections : ready[d] => Distance(index, c) <= Distance(index, d)
  BY DEF Route, Chosen
<1>2. index' \in Connections
  BY <1>1, ConnectionsAssumption DEF Following, Connections
<1>3. lag' \in [Connections -> Nat]
  BY <1>1 DEF RoutingInv
<1>4. ASSUME NEW d \in Connections, ready'[d]
      PROVE  lag'[d] + Distance(index', d) < N
  <2>1. Distance(index', d) \in 0 .. N - 1
    BY <1>2, DistanceRange
  <2>2. CASE d = c
    BY <1>1, <2>1, <2>2, ConnectionsAssumption
  <2>3. CASE d # c
    <3>1. index \in Connections /\ ready[d] /\ lag[d] + Distance(index, d) < N /\ lag[d] \in Nat
      BY <1>1, <1>4 DEF RoutingInv
    <3>2. Distance(index, c) \in 0 .. N - 1 /\ Distance(index, d) \in 0 .. N - 1
      BY <3>1, DistanceRange
    <3>3. Distance(index, c) # Distance(index, d)
      BY <2>3, <3>1, DistanceRange
    <3>4. Distance(index, c) < Distance(index, d)
      BY <1>1, <3>1, <3>2, <3>3
    <3>5. Distance(index', d) < Distance(index, d)
      BY <1>1, <3>1, <3>4, PassedNearer
    <3>6. lag'[d] = lag[d] + 1
      BY <1>1, <2>3, <3>1
    <3> QED BY <2>1, <3>1, <3>2, <3>5, <3>6, ConnectionsAssumption
  <2> QED BY <2>2, <2>3
<1>5. \A d \in Connections : ~ready'[d] => lag'[d] = 0
  BY <1>1
<1> QED BY <1>1, <1>2, <1>3, <1>4, <1>5 DEF RoutingInv

LEMMA RoutingStep == RoutingInv /\ [Next]_vars => RoutingInv'
<1> SUFFICES ASSUME RoutingInv, [Next]_vars PROVE RoutingInv'
  OBVIOUS
<1>1. ASSUME UNCHANGED routing PROVE RoutingInv'
  BY <1>1 DEF RoutingInv, routing
<1>2. ASSUME NEW o \in Orders, CreateOrder(o) \/ ModifyOrder(o) \/ CancelOrder(o)
      PROVE  RoutingInv'
  BY <1>2, RouteStep DEF CreateOrder, ModifyOrder, CancelOrder, Ask
<1>3. ASSUME NEW selected, CancelAllOrders(selected) PROVE RoutingInv'
  BY <1>3, RouteStep DEF CancelAllOrders
<1>4. ASSUME NEW c \in Connections, Connected(c) PROVE RoutingInv'
  <2>1. /\ index' = index /\ lag' = lag
        /\ ready' = [ready EXCEPT ![c] = TRUE]
        /\ lag[c] = 0 /\ index \in Connections
    BY <1>4 DEF Connected, RoutingInv
  <2>2. Distance(index, c) \in 0 .. N - 1
    BY <2>1, DistanceRange
  <2> QED BY <2>1, <2>2, ConnectionsAssumption DEF RoutingInv
<1>5. ASSUME NEW c \in Connections, Disconnected(c) PROVE RoutingInv'
  BY <1>5 DEF Disconnected, RoutingInv
<1>6. ASSUME NEW c \in Connections, CarryOut(c) \/ Refuse(c) \/ OrderAck(c)
      PROVE  RoutingInv'
  BY <1>1, <1>6 DEF CarryOut, Refuse, OrderAck, PlaceOrderAck, ModifyOrderAck,
                    CancelOrderAck, CancelAllOrdersAck, OrderAckOf
<1>7. ASSUME NEW o \in Orders, Fill(o) \/ Expire(o) PROVE RoutingInv'
  BY <1>1, <1>7 DEF Fill, Expire
<1>8. CASE \/ StreamUp \/ StreamDown \/ OrderTradeUpdate
           \/ OpenOrdersTaken \/ OpenOrdersAck \/ OpenOrdersError \/ UserTradesAck
  BY <1>1, <1>8 DEF StreamUp, StreamDown, OrderTradeUpdate, OpenOrdersTaken,
                    OpenOrdersAck, OpenOrdersError, UserTradesAck
<1>9. CASE UNCHANGED vars
  BY <1>1, <1>9 DEF vars
<1> QED
  BY <1>2, <1>3, <1>4, <1>5, <1>6, <1>7, <1>8, <1>9 DEF Next

\* However connections come and go, get_next passes over a ready connection at
\* most N - 1 times in a row.
THEOREM RoundRobin == Spec => []NoStarvation
<1>1. Init => RoutingInv
  BY ConnectionsAssumption DEF Init, RoutingInv, Connections
<1>2. RoutingInv => NoStarvation
  <2> SUFFICES ASSUME RoutingInv, NEW c \in Connections, ready[c] PROVE lag[c] < N
    BY DEF NoStarvation
  <2>1. lag[c] + Distance(index, c) < N /\ lag[c] \in Nat /\ index \in Connections
    BY DEF RoutingInv
  <2>2. Distance(index, c) \in 0 .. N - 1
    BY <2>1, DistanceRange
  <2> QED BY <2>1, <2>2, ConnectionsAssumption
<1> QED BY <1>1, <1>2, RoutingStep, PTL DEF Spec

----------------------------------------------------------------------------
(* The exchange's orders *)

\* What is told of an order is its state, or an older one; a closed order has
\* no later state.
Older(s, b) ==
  /\ s.time <= b.time /\ s.executed <= b.executed
  /\ s.time = b.time \/ s.status = "CLOSED" => s = b

\* The exchange's orders change in one direction only.
Follows(n, b) ==
  \/ n = b
  \/ /\ n.time = b.time + 1 /\ b.executed <= n.executed
     /\ b.status # "CLOSED" /\ n.status # "ABSENT"

\* An order that never changed is absent, one that works is not filled.
Sensible(b) ==
  /\ b \in State
  /\ b.time = 0 \/ b.status = "ABSENT" => b = Absent
  /\ b.status = "WORKING" => b.executed < Lots

LEMMA AbsentState == Absent \in State /\ Sensible(Absent) /\ \A b \in State : Sensible(b) => Older(Absent, b)
BY LotsAssumption DEF Absent, State, Sensible, Older

LEMMA OlderStays ==
  ASSUME NEW s \in State, NEW b \in State, NEW n \in State, Older(s, b), Follows(n, b)
  PROVE  Older(s, n)
<1>1. CASE n = b
  BY <1>1
<1>2. CASE n.time = b.time + 1 /\ b.executed <= n.executed /\ b.status # "CLOSED"
  <2>1. s.time \in Nat /\ b.time \in Nat /\ s.executed \in Nat /\ b.executed \in Nat /\ n.executed \in Nat
    BY LotsAssumption DEF State
  <2>2. s.status # "CLOSED"
    BY <1>2 DEF Older
  <2> QED
    BY <1>2, <2>1, <2>2 DEF Older
<1> QED
  BY <1>1, <1>2 DEF Follows

\* What is published of an order is its state once that is told.
LEMMA LaterKnown ==
  ASSUME NEW s \in State, NEW v \in State, NEW b \in State, Older(s, b), Older(v, b)
  PROVE  /\ Later(v, s) \in State /\ Older(Later(v, s), b)
         /\ v = b \/ s = b => Later(v, s) = b
         /\ v.status = "CLOSED" => Later(v, s) = v
<1>1. s.time \in Nat /\ v.time \in Nat /\ b.time \in Nat
  BY DEF State
<1> QED
  BY <1>1 DEF Later, Older

\* What the exchange may do to orders at once.
Sane(changes) ==
  /\ DOMAIN changes \subseteq Orders
  /\ \A o \in DOMAIN changes : /\ Sensible(changes[o]) /\ Follows(changes[o], book[o])
                               /\ changes[o].executed <= book[o].executed + 1
  /\ \/ \A o \in DOMAIN changes : changes[o].executed = book[o].executed
     \/ Cardinality(DOMAIN changes) = 1

LEMMA ChangedState ==
  ASSUME NEW b \in State, Sensible(b), b.status # "CLOSED",
         NEW status \in {"WORKING", "CLOSED"}, NEW executed \in 0 .. Lots,
         b.executed <= executed, status = "WORKING" => executed < Lots
  PROVE  /\ Sensible(Changed(b, status, executed))
         /\ Follows(Changed(b, status, executed), b)
         /\ Changed(b, status, executed).executed = executed
BY DEF State, Sensible, Follows, Changed

LEMMA EffectSane ==
  ASSUME book \in [Orders -> State], \A o \in Orders : Sensible(book[o]),
         NEW r \in Requests \cup CancelAlls, CanDo(r)
  PROVE  Sane(Effect(r))
<1>1. CASE r.kind = "CREATE"
  <2>1. r \in Requests /\ r.order \in Orders
    BY <1>1 DEF Requests, CancelAlls
  <2> DEFINE b == book[r.order]
  <2>2. b \in State /\ Sensible(b) /\ b.status = "ABSENT"
    BY <1>1, <2>1 DEF CanDo
  <2>3. b.executed = 0 /\ 0 \in 0 .. Lots /\ 0 < Lots /\ b.status # "CLOSED"
    BY <2>2, LotsAssumption DEF Sensible, Absent
  <2>4. Sensible(Changed(b, "WORKING", 0)) /\ Follows(Changed(b, "WORKING", 0), b)
    <3> HIDE DEF b
    <3> QED
      BY <2>2, <2>3, ChangedState
  <2>5. Effect(r) = [o \in {r.order} |-> Changed(book[o], "WORKING", 0)]
    BY <1>1 DEF Effect
  <2>6. /\ Changed(b, "WORKING", 0).executed = b.executed
        /\ Changed(b, "WORKING", 0).executed <= b.executed + 1
    BY <2>3 DEF Changed
  <2> QED
    BY <2>1, <2>4, <2>5, <2>6 DEF Sane
<1>2. CASE r.kind \in {"MODIFY", "CANCEL"}
  <2>1. r \in Requests /\ r.order \in Orders
    BY <1>2 DEF Requests, CancelAlls
  <2> DEFINE b      == book[r.order]
             status == IF r.kind = "MODIFY" THEN "WORKING" ELSE "CLOSED"
  <2>2. b \in State /\ Sensible(b) /\ b.status = "WORKING"
    BY <1>2, <2>1 DEF CanDo
  <2>3. b.executed \in 0 .. Lots /\ b.executed < Lots /\ b.status # "CLOSED" /\ status \in {"WORKING", "CLOSED"}
    BY <2>2 DEF Sensible, State
  <2>4. Effect(r) = [o \in {r.order} |-> Changed(book[o], status, book[o].executed)]
    BY <1>2 DEF Effect
  <2> HIDE DEF status
  <2>5. /\ Sensible(Changed(b, status, b.executed)) /\ Follows(Changed(b, status, b.executed), b)
        /\ Changed(b, status, b.executed).executed = b.executed
        /\ Changed(b, status, b.executed).executed <= b.executed + 1
    <3>1. b.executed <= b.executed /\ b.executed <= b.executed + 1
      BY <2>3
    <3> HIDE DEF b
    <3> QED
      BY <2>2, <2>3, <3>1, ChangedState
  <2> QED
    BY <2>1, <2>4, <2>5 DEF Sane
<1>3. CASE r.kind = "CANCEL_ALL"
  <2> DEFINE D == {x \in Orders : SymbolOf[x] = r.symbol /\ book[x].status = "WORKING"}
  <2>1. Effect(r) = [o \in D |-> Changed(book[o], "CLOSED", book[o].executed)]
    BY <1>3 DEF Effect
  <2>2. ASSUME NEW o \in D
        PROVE  /\ Sensible(Changed(book[o], "CLOSED", book[o].executed))
               /\ Follows(Changed(book[o], "CLOSED", book[o].executed), book[o])
               /\ Changed(book[o], "CLOSED", book[o].executed).executed = book[o].executed
               /\ Changed(book[o], "CLOSED", book[o].executed).executed <= book[o].executed + 1
    <3>1. /\ book[o] \in State /\ Sensible(book[o]) /\ book[o].status # "CLOSED"
          /\ book[o].executed \in 0 .. Lots /\ book[o].executed <= book[o].executed
          /\ book[o].executed <= book[o].executed + 1
      BY DEF State
    <3> QED
      BY <3>1, ChangedState
  <2>3. D \subseteq Orders
    OBVIOUS
  <2> HIDE DEF D
  <2> QED
    BY <2>1, <2>2, <2>3 DEF Sane
<1> QED
  BY <1>1, <1>2, <1>3 DEF Requests, CancelAlls

LEMMA FillSane ==
  ASSUME book \in [Orders -> State], \A o \in Orders : Sensible(book[o]),
         NEW o \in Orders, book[o].status = "WORKING"
  PROVE  /\ Sane([x \in {o} |-> Changed(book[o], "CLOSED", book[o].executed)])
         /\ Sane([x \in {o} |-> Changed(book[o], IF book[o].executed + 1 = Lots
                                                 THEN "CLOSED" ELSE "WORKING",
                                        book[o].executed + 1)])
<1> DEFINE b      == book[o]
           e      == b.executed + 1
           status == IF e = Lots THEN "CLOSED" ELSE "WORKING"
<1>1. b \in State /\ Sensible(b) /\ b.status # "CLOSED"
  OBVIOUS
<1>2. /\ b.executed \in 0 .. Lots /\ b.executed <= b.executed /\ e \in 0 .. Lots /\ b.executed <= e
      /\ status \in {"WORKING", "CLOSED"} /\ (status = "WORKING" => e < Lots)
  BY <1>1, LotsAssumption DEF Sensible, State
<1>3. Cardinality({o}) = 1
  BY FS_Singleton
<1> HIDE DEF b, e, status
<1>4. /\ Sensible(Changed(b, "CLOSED", b.executed)) /\ Follows(Changed(b, "CLOSED", b.executed), b)
      /\ Sensible(Changed(b, status, e)) /\ Follows(Changed(b, status, e), b)
      /\ Changed(b, "CLOSED", b.executed).executed <= b.executed + 1
      /\ Changed(b, status, e).executed <= b.executed + 1
  <2>1. e = b.executed + 1
    BY DEF e
  <2>2. b.executed <= b.executed + 1 /\ e <= b.executed + 1
    BY <1>2, <2>1
  <2> QED
    BY <1>1, <1>2, <2>2, ChangedState
<1>5. Sane([x \in {o} |-> Changed(b, "CLOSED", b.executed)])
  BY <1>3, <1>4 DEF Sane, b
<1>6. Sane([x \in {o} |-> Changed(b, status, e)])
  BY <1>3, <1>4 DEF Sane, b
<1> QED
  BY <1>5, <1>6 DEF b, e, status

LEMMA UpdateBook ==
  ASSUME book \in [Orders -> State], \A o \in Orders : Sensible(book[o]),
         NEW changes, Sane(changes), Update(changes)
  PROVE  /\ book' \in [Orders -> State]
         /\ \A o \in Orders : /\ Sensible(book'[o]) /\ Follows(book'[o], book[o])
                              /\ o \in DOMAIN changes => book'[o] = changes[o]
                              /\ o \notin DOMAIN changes => book'[o] = book[o]
<1>1. book' = [o \in Orders |-> IF o \in DOMAIN changes THEN changes[o] ELSE book[o]]
  BY DEF Update
<1>2. \A o \in DOMAIN changes : changes[o] \in State
  BY DEF Sane, Sensible
<1> QED
  BY <1>1, <1>2 DEF Sane, Follows

----------------------------------------------------------------------------
(* The user stream *)

Events == [order : Orders, now : State, trade : BOOLEAN]

\* Changes are told in some order on a stream that is up; only a single change
\* may be a trade.
LEMMA UpdateFeed ==
  ASSUME book \in [Orders -> State], feed \in Seq(Events), up \in BOOLEAN,
         NEW changes, Sane(changes), Update(changes)
  PROVE  /\ feed' \in Seq(Events)
         /\ ~up => feed' = feed
         /\ up => /\ \A j \in DOMAIN feed : j \in DOMAIN feed' /\ feed'[j] = feed[j]
                  /\ \A o \in DOMAIN changes :
                       \E j \in DOMAIN feed' :
                         /\ feed'[j].order = o /\ feed'[j].now = changes[o]
                         /\ feed'[j].trade <=> book[o].executed < changes[o].executed
         /\ \A j \in DOMAIN feed' :
              \/ j \in DOMAIN feed /\ feed'[j] = feed[j]
              \/ /\ feed'[j].order \in DOMAIN changes
                 /\ feed'[j].now = changes[feed'[j].order]
                 /\ feed'[j].trade => /\ j = Len(feed) + 1
                                      /\ book[feed'[j].order].executed < feed'[j].now.executed
<1> DEFINE D == DOMAIN changes
<1>1. IsFiniteSet(D) /\ Cardinality(D) \in Nat
  BY OrdersAssumption, FS_Subset, FS_CardinalityType DEF Sane
<1>2. PICK order \in [1 .. Cardinality(D) -> D] :
        /\ {order[i] : i \in DOMAIN order} = D
        /\ feed' = IF up THEN feed \o [i \in DOMAIN order |->
                                         [order |-> order[i], now |-> changes[order[i]],
                                          trade |-> changes[order[i]].executed
                                                      > book[order[i]].executed]]
                         ELSE feed
  BY DEF Update
<1> DEFINE r == [i \in 1 .. Cardinality(D) |->
                   [order |-> order[i], now |-> changes[order[i]],
                    trade |-> changes[order[i]].executed > book[order[i]].executed]]
<1>3. CASE ~up
  BY <1>2, <1>3
<1>4. CASE up
  <2>1. feed' = feed \o r
    BY <1>2, <1>4
  <2>2. ASSUME NEW i \in 1 .. Cardinality(D)
        PROVE  /\ order[i] \in D /\ order[i] \in Orders
               /\ changes[order[i]] \in State
               /\ r[i] \in Events /\ r[i].order = order[i] /\ r[i].now = changes[order[i]]
               /\ r[i].trade => i = 1
               /\ r[i].trade <=> book[order[i]].executed < changes[order[i]].executed
    <3>1. /\ order[i] \in D /\ order[i] \in Orders /\ changes[order[i]] \in State
          /\ book[order[i]] \in State
      BY DEF Sane, Sensible
    <3>2. changes[order[i]].executed \in Nat /\ book[order[i]].executed \in Nat
      BY <3>1, LotsAssumption DEF State
    <3>3. changes[order[i]].executed > book[order[i]].executed => Cardinality(D) = 1
      BY <3>1, <3>2 DEF Sane
    <3>4. /\ changes[order[i]].executed > book[order[i]].executed => i = 1
          /\ changes[order[i]].executed > book[order[i]].executed
               <=> book[order[i]].executed < changes[order[i]].executed
      BY <3>2, <3>3
    <3>5. r[i] \in Events /\ r[i].order = order[i] /\ r[i].now = changes[order[i]]
      BY <3>1 DEF Events
    <3>6. r[i].trade <=> changes[order[i]].executed > book[order[i]].executed
      OBVIOUS
    <3> QED
      BY <3>1, <3>4, <3>5, <3>6
  <2>3. r \in [1 .. Cardinality(D) -> Events]
    BY <2>2
  <2>4. \A o \in D : \E i \in 1 .. Cardinality(D) : order[i] = o
    BY <1>2
  <2> HIDE DEF r, D
  <2>5. r \in Seq(Events) /\ Len(r) = Cardinality(D) /\ DOMAIN r = 1 .. Cardinality(D)
    BY <1>1, <2>3
  <2> HIDE DEF Events
  <2>6. /\ feed \o r \in Seq(Events) /\ Len(feed \o r) = Len(feed) + Len(r)
        /\ \A j \in DOMAIN feed : j \in DOMAIN (feed \o r) /\ (feed \o r)[j] = feed[j]
        /\ \A i \in DOMAIN r : /\ Len(feed) + i \in DOMAIN (feed \o r)
                               /\ (feed \o r)[Len(feed) + i] = r[i]
        /\ \A j \in DOMAIN (feed \o r) :
             \/ j \in DOMAIN feed /\ (feed \o r)[j] = feed[j]
             \/ j - Len(feed) \in DOMAIN r /\ (feed \o r)[j] = r[j - Len(feed)]
    BY <2>5
  <2>7. \A o \in D : \E j \in DOMAIN feed' :
          /\ feed'[j].order = o /\ feed'[j].now = changes[o]
          /\ feed'[j].trade <=> book[o].executed < changes[o].executed
    <3> SUFFICES ASSUME NEW o \in D
                 PROVE  \E j \in DOMAIN feed' :
                          /\ feed'[j].order = o /\ feed'[j].now = changes[o]
                          /\ feed'[j].trade <=> book[o].executed < changes[o].executed
      OBVIOUS
    <3>1. PICK i \in 1 .. Cardinality(D) : order[i] = o
      BY <2>4
    <3>2. /\ r[i].order = o /\ r[i].now = changes[o]
          /\ r[i].trade <=> book[o].executed < changes[o].executed
      BY <2>2, <3>1
    <3>3. Len(feed) + i \in DOMAIN feed' /\ feed'[Len(feed) + i] = r[i]
      BY <2>1, <2>5, <2>6
    <3> QED
      BY <3>2, <3>3
  <2>8. ASSUME NEW j \in DOMAIN feed'
        PROVE  \/ j \in DOMAIN feed /\ feed'[j] = feed[j]
               \/ /\ feed'[j].order \in D
                  /\ feed'[j].now = changes[feed'[j].order]
                  /\ feed'[j].trade => /\ j = Len(feed) + 1
                                       /\ book[feed'[j].order].executed < feed'[j].now.executed
    <3>1. Len(feed) \in Nat /\ j \in Nat
      BY <2>1, <2>6
    <3>2. CASE j \in DOMAIN feed /\ feed'[j] = feed[j]
      BY <3>2
    <3>3. CASE j - Len(feed) \in DOMAIN r /\ feed'[j] = r[j - Len(feed)]
      BY <3>1, <3>3, <2>2, <2>5
    <3> QED
      BY <2>1, <2>6, <3>2, <3>3
  <2> QED
    BY <1>4, <2>1, <2>6, <2>7, <2>8 DEF D
<1> QED
  BY <1>3, <1>4

----------------------------------------------------------------------------
(* What the gateway knows of the exchange's orders *)

Snapshots == [fresh : BOOLEAN, now : UNION {[D -> State] : D \in SUBSET Orders}]

\* What an entry of a pipeline may say of orders b: a success shows the order
\* or an older state of it, and a request that names an order finds it there.
Truthful(e, b) ==
  /\ e \in Entries
  /\ e.ans = "OK" /\ e.req.kind # "CANCEL_ALL" => Older(e.seen, b[e.req.order])
  /\ e.req.kind \in {"MODIFY", "CANCEL"} /\ e.req.named => b[e.req.order].status # "ABSENT"

BookInv == book \in [Orders -> State] /\ \A o \in Orders : Sensible(book[o])

ViewInv == view \in [Orders -> State] /\ \A o \in Orders : Older(view[o], book[o])

WireInv ==
  /\ wire \in [Connections -> Seq(Entries)]
  /\ \A c \in Connections : \A j \in DOMAIN wire[c] : Truthful(wire[c][j], book)

FeedInv ==
  /\ up \in BOOLEAN /\ feed \in Seq(Events)
  /\ \A j \in DOMAIN feed : Older(feed[j].now, book[feed[j].order])

SnapInv ==
  /\ snap \subseteq Snapshots
  /\ \A s \in snap : \A o \in DOMAIN s.now : Older(s.now[o], book[o])

\* Everything the gateway is told, or was told, is the order or an older state.
KnownInv == BookInv /\ ViewInv /\ WireInv /\ FeedInv /\ SnapInv

LEMMA EntryParts ==
  ASSUME NEW e \in Entries
  PROVE  /\ e.req \in Requests \cup CancelAlls /\ e.ans \in Answers /\ e.seen \in State
         /\ e.req.kind # "CANCEL_ALL" => e.req \in Requests /\ e.req.order \in Orders
BY DEF Entries, Requests, CancelAlls

LEMMA WireParts ==
  ASSUME WireInv, NEW c \in Connections
  PROVE  /\ wire[c] \in Seq(Entries)
         /\ \A j \in DOMAIN wire[c] : wire[c][j] \in Entries /\ Truthful(wire[c][j], book)
BY DEF WireInv

\* What the exchange does on its own or on a request updates orders sanely.
LEMMA UpdateSane ==
  ASSUME BookInv, WireInv
  PROVE  /\ \A c \in Connections : CarryOut(c) =>
              UNCHANGED <<routing, client>> /\ \E changes : Sane(changes) /\ Update(changes)
         /\ \A o \in Orders : Fill(o) \/ Expire(o) =>
              UNCHANGED <<routing, client>> /\ \E changes : Sane(changes) /\ Update(changes)
<1>1. ASSUME NEW c \in Connections, CarryOut(c)
      PROVE  UNCHANGED <<routing, client>> /\ \E changes : Sane(changes) /\ Update(changes)
  <2>1. PICK i \in 1 .. Len(wire[c]) :
          /\ Unanswered(c, i) /\ CanDo(wire[c][i].req) /\ Update(Effect(wire[c][i].req))
          /\ UNCHANGED <<routing, client>>
    BY <1>1 DEF CarryOut
  <2>2. wire[c][i].req \in Requests \cup CancelAlls
    BY <2>1, WireParts, EntryParts DEF Unanswered
  <2>3. Sane(Effect(wire[c][i].req))
    BY <2>1, <2>2, EffectSane DEF BookInv
  <2> QED
    BY <2>1, <2>3
<1>2. ASSUME NEW o \in Orders, Fill(o) \/ Expire(o)
      PROVE  UNCHANGED <<routing, client>> /\ \E changes : Sane(changes) /\ Update(changes)
  <2>1. book[o].status = "WORKING" /\ UNCHANGED <<routing, client>>
    BY <1>2 DEF Fill, Expire
  <2>2. /\ Sane([x \in {o} |-> Changed(book[o], "CLOSED", book[o].executed)])
        /\ Sane([x \in {o} |-> Changed(book[o], IF book[o].executed + 1 = Lots
                                                THEN "CLOSED" ELSE "WORKING",
                                       book[o].executed + 1)])
    BY <2>1, FillSane DEF BookInv
  <2> QED
    BY <1>2, <2>1, <2>2 DEF Fill, Expire
<1> QED
  BY <1>1, <1>2

\* Orders change only when the exchange updates them.
LEMMA UpdateOrNot ==
  ASSUME BookInv, WireInv, [Next]_vars
  PROVE  \/ UNCHANGED book
         \/ UNCHANGED <<routing, client>> /\ \E changes : Sane(changes) /\ Update(changes)
<1> DEFINE Goal == \/ UNCHANGED book
                   \/ /\ UNCHANGED <<routing, client>>
                      /\ \E changes : Sane(changes) /\ Update(changes)
<1>1. ASSUME NEW c \in Connections, CarryOut(c)
      PROVE  Goal
  BY <1>1, UpdateSane
<1>2. ASSUME NEW o \in Orders, Fill(o) \/ Expire(o)
      PROVE  Goal
  BY <1>2, UpdateSane
<1>3. ASSUME NEW c \in Connections, Refuse(c)
      PROVE  Goal
  BY <1>3 DEF Refuse
<1>4. ASSUME NEW o \in Orders, CreateOrder(o) \/ ModifyOrder(o) \/ CancelOrder(o)
      PROVE  Goal
  BY <1>4 DEF CreateOrder, ModifyOrder, CancelOrder, Ask
<1>5. ASSUME NEW selected, CancelAllOrders(selected)
      PROVE  Goal
  BY <1>5 DEF CancelAllOrders
<1>6. ASSUME NEW c \in Connections, OrderAck(c) \/ Connected(c) \/ Disconnected(c)
      PROVE  Goal
  BY <1>6 DEF OrderAck, PlaceOrderAck, ModifyOrderAck, CancelOrderAck, OrderAckOf,
              CancelAllOrdersAck, Connected, Disconnected
<1>7. CASE \/ StreamUp \/ StreamDown \/ OrderTradeUpdate
           \/ OpenOrdersTaken \/ OpenOrdersAck \/ OpenOrdersError \/ UserTradesAck
  BY <1>7 DEF StreamUp, StreamDown, OrderTradeUpdate, OpenOrdersTaken,
              OpenOrdersAck, OpenOrdersError, UserTradesAck
<1>8. CASE UNCHANGED vars
  BY <1>8 DEF vars
<1> QED
  BY <1>1, <1>2, <1>3, <1>4, <1>5, <1>6, <1>7, <1>8 DEF Next

LEMMA BookStep ==
  ASSUME BookInv, WireInv, [Next]_vars
  PROVE  BookInv' /\ \A o \in Orders : Follows(book'[o], book[o])
<1>1. CASE UNCHANGED book
  BY <1>1 DEF BookInv, Follows
<1>2. ASSUME NEW changes, Sane(changes), Update(changes)
      PROVE  BookInv' /\ \A o \in Orders : Follows(book'[o], book[o])
  BY <1>2, UpdateBook DEF BookInv
<1> QED
  BY <1>1, <1>2, UpdateOrNot

----------------------------------------------------------------------------
(* What is published of an order *)

\* Pipelines w, a stream q and snapshots n on their way tell s of an order.
WireTells(w, o, s) ==
  \E c \in Connections : \E j \in DOMAIN w[c] :
    /\ w[c][j].ans = "OK" /\ w[c][j].req.kind # "CANCEL_ALL"
    /\ w[c][j].req.order = o /\ w[c][j].seen = s

FeedTells(q, o, s) == \E j \in DOMAIN q : q[j].order = o /\ q[j].now = s

SnapTells(n, o, s) == \E t \in n : o \in DOMAIN t.now /\ t.now[o] = s

Tells(w, q, n, o, s) == WireTells(w, o, s) \/ FeedTells(q, o, s) \/ SnapTells(n, o, s)

Told(o, s) == Tells(wire, feed, snap, o, s)

\* What is published of an order changes to what an answer, an event or a
\* snapshot tells of it, if that is later.
LEMMA ViewSources ==
  ASSUME KnownInv, [Next]_vars
  PROVE  \/ UNCHANGED view
         \/ /\ UNCHANGED book
            /\ view' = [o \in Orders |-> view'[o]]
            /\ \A o \in Orders :
                 \/ view'[o] = view[o]
                 \/ \E s \in State : /\ Told(o, s) /\ Older(s, book[o])
                                    /\ view'[o] = Later(view[o], s)
<1> DEFINE Fresh  == \A o \in Orders :
                       \/ view'[o] = view[o]
                       \/ \E s \in State : /\ Told(o, s) /\ Older(s, book[o])
                                          /\ view'[o] = Later(view[o], s)
           Goal   == UNCHANGED view \/ (UNCHANGED book /\ view' = [o \in Orders |-> view'[o]] /\ Fresh)
<1>1. ASSUME NEW c \in Connections, NEW kind \in {"CREATE", "MODIFY", "CANCEL"}, OrderAckOf(c, kind)
      PROVE  Goal
  <2> DEFINE e == wire[c][1]
  <2>1. /\ e.req.kind = kind /\ UNCHANGED book
        /\ view' = IF Outcome(e.ans) = "SUCCESS"
                   THEN [view EXCEPT ![e.req.order] = Later(@, AckState(e))] ELSE view
        /\ wire[c] # <<>> /\ e.ans # "PENDING"
    BY <1>1 DEF OrderAckOf, Answered
  <2>2. wire[c] \in Seq(Entries) /\ 1 \in DOMAIN wire[c]
    BY <2>1, WireParts DEF KnownInv
  <2>3. e \in Entries /\ Truthful(e, book)
    BY <2>2, WireParts DEF KnownInv
  <2>4. e.seen \in State /\ e.req.order \in Orders /\ e.ans \in Answers
    BY <2>1, <2>3, EntryParts
  <2>5. CASE e.ans = "OK"
    <3>1. Older(e.seen, book[e.req.order])
      BY <2>1, <2>3, <2>5 DEF Truthful
    <3>2. view' = [view EXCEPT ![e.req.order] = Later(@, e.seen)]
      BY <2>1, <2>5 DEF Outcome, AckState
    <3>3. Told(e.req.order, e.seen)
      BY <2>1, <2>2, <2>5 DEF Told, Tells, WireTells
    <3> HIDE DEF e
    <3> QED
      BY <2>1, <2>4, <3>1, <3>2, <3>3 DEF KnownInv, ViewInv
  <2>6. CASE e.ans # "OK"
    <3>1. Outcome(e.ans) # "SUCCESS"
      BY <2>1, <2>4, <2>6 DEF Outcome, Answers
    <3> QED
      BY <2>1, <3>1
  <2> QED
    BY <2>5, <2>6
<1>2. CASE OrderTradeUpdate
  <2> DEFINE m == Head(feed)
  <2>1. /\ feed # <<>> /\ UNCHANGED book
        /\ view' = [view EXCEPT ![m.order] = Later(@, FeedState(m))]
    BY <1>2 DEF OrderTradeUpdate
  <2>2. feed \in Seq(Events) /\ m = feed[1] /\ 1 \in DOMAIN feed
    BY <2>1 DEF KnownInv, FeedInv
  <2>3. m \in Events
    BY <2>2
  <2>4. m.order \in Orders /\ m.now \in State
    BY <2>3 DEF Events
  <2>5. Older(m.now, book[m.order]) /\ Told(m.order, m.now)
    BY <2>2 DEF KnownInv, FeedInv, Told, Tells, FeedTells
  <2> HIDE DEF m
  <2> QED
    BY <2>1, <2>4, <2>5 DEF FeedState, KnownInv, ViewInv
<1>3. CASE OpenOrdersAck
  <2>1. PICK s \in snap :
          view' = [o \in Orders |-> IF o \in DOMAIN s.now THEN Later(view[o], s.now[o]) ELSE view[o]]
    BY <1>3 DEF OpenOrdersAck
  <2>2. UNCHANGED book
    BY <1>3 DEF OpenOrdersAck
  <2>3. \A o \in DOMAIN s.now :
          s.now[o] \in State /\ Older(s.now[o], book[o]) /\ Told(o, s.now[o])
    BY DEF KnownInv, SnapInv, Snapshots, Told, Tells, SnapTells
  <2> QED
    BY <2>1, <2>2, <2>3
<1>4. ASSUME NEW o \in Orders,
             CreateOrder(o) \/ ModifyOrder(o) \/ CancelOrder(o) \/ Fill(o) \/ Expire(o)
      PROVE  UNCHANGED view
  BY <1>4 DEF CreateOrder, ModifyOrder, CancelOrder, Ask, Fill, Expire, client
<1>5. ASSUME NEW selected, CancelAllOrders(selected)
      PROVE  UNCHANGED view
  BY <1>5 DEF CancelAllOrders, client
<1>6. ASSUME NEW c \in Connections,
             \/ CarryOut(c) \/ Refuse(c) \/ CancelAllOrdersAck(c) \/ Connected(c) \/ Disconnected(c)
      PROVE  UNCHANGED view
  BY <1>6 DEF CarryOut, Refuse, CancelAllOrdersAck, Connected, Disconnected, client
<1>7. CASE StreamUp \/ StreamDown \/ OpenOrdersTaken \/ OpenOrdersError \/ UserTradesAck
  BY <1>7 DEF StreamUp, StreamDown, OpenOrdersTaken, OpenOrdersError, UserTradesAck, client
<1>8. CASE UNCHANGED vars
  BY <1>8 DEF vars, client
<1>9. ASSUME NEW c \in Connections, OrderAck(c)
      PROVE  Goal
  BY <1>1, <1>6, <1>9 DEF OrderAck, PlaceOrderAck, ModifyOrderAck, CancelOrderAck
<1> QED
  BY <1>2, <1>3, <1>4, <1>5, <1>6, <1>7, <1>8, <1>9 DEF Next

LEMMA ViewStep ==
  ASSUME KnownInv, [Next]_vars
  PROVE  ViewInv' /\ \A o \in Orders : view[o].status = "CLOSED" => view'[o] = view[o]
<1>1. /\ book' \in [Orders -> State]
      /\ \A o \in Orders : Follows(book'[o], book[o])
  BY BookStep DEF KnownInv, BookInv
<1>2. \A o \in Orders : view[o] \in State /\ book[o] \in State /\ Older(view[o], book[o])
  BY DEF KnownInv, ViewInv, BookInv
<1>3. CASE UNCHANGED view
  <2>1. ASSUME NEW o \in Orders PROVE Older(view[o], book'[o])
    BY <1>1, <1>2, OlderStays
  <2> QED
    BY <1>3, <2>1 DEF KnownInv, ViewInv
<1>4. CASE /\ UNCHANGED book
           /\ view' = [o \in Orders |-> view'[o]]
           /\ \A o \in Orders :
                \/ view'[o] = view[o]
                \/ \E s \in State : Older(s, book[o]) /\ view'[o] = Later(view[o], s)
  <2>1. ASSUME NEW o \in Orders
        PROVE  /\ view'[o] \in State /\ Older(view'[o], book[o])
               /\ view[o].status = "CLOSED" => view'[o] = view[o]
    <3>1. CASE view'[o] = view[o]
      BY <1>2, <3>1
    <3>2. ASSUME NEW s \in State, Older(s, book[o]), view'[o] = Later(view[o], s)
          PROVE  /\ view'[o] \in State /\ Older(view'[o], book[o])
                 /\ view[o].status = "CLOSED" => view'[o] = view[o]
      BY <1>2, <3>2, LaterKnown
    <3> QED
      BY <1>4, <3>1, <3>2
  <2> QED
    BY <1>4, <2>1 DEF ViewInv
<1> QED
  BY <1>3, <1>4, ViewSources

----------------------------------------------------------------------------
(* What is on its way *)

LEMMA OlderSelf ==
  ASSUME NEW b \in State
  PROVE  Older(b, b)
BY LotsAssumption DEF State, Older

\* The stream tells an order's state, which the order may since have left.
LEMMA FeedStep ==
  ASSUME KnownInv, [Next]_vars
  PROVE  FeedInv'
<1>1. /\ book \in [Orders -> State] /\ book' \in [Orders -> State]
      /\ \A o \in Orders : Follows(book'[o], book[o])
  BY BookStep DEF KnownInv, BookInv
<1>2. up \in BOOLEAN /\ feed \in Seq(Events)
  BY DEF KnownInv, FeedInv
<1>3. ASSUME NEW j \in DOMAIN feed
      PROVE  /\ feed[j].order \in Orders /\ feed[j].now \in State
             /\ Older(feed[j].now, book'[feed[j].order])
  <2>1. feed[j] \in Events
    BY <1>2
  <2>2. feed[j].order \in Orders /\ feed[j].now \in State
    BY <2>1 DEF Events
  <2>3. Older(feed[j].now, book[feed[j].order])
    BY DEF KnownInv, FeedInv
  <2> QED
    BY <1>1, <2>2, <2>3, OlderStays
<1>4. CASE UNCHANGED <<up, feed>>
  BY <1>2, <1>3, <1>4 DEF FeedInv
<1>5. ASSUME NEW changes, Sane(changes), Update(changes)
      PROVE  FeedInv'
  <2>1. feed' \in Seq(Events) /\ up' = up
    BY <1>1, <1>2, <1>5, UpdateFeed DEF Update
  <2>2. \A o \in DOMAIN changes : o \in Orders /\ book'[o] = changes[o]
    BY <1>1, <1>5, UpdateBook DEF KnownInv, BookInv, Sane
  <2>3. ASSUME NEW j \in DOMAIN feed'
        PROVE  Older(feed'[j].now, book'[feed'[j].order])
    <3>1. CASE j \in DOMAIN feed /\ feed'[j] = feed[j]
      BY <1>3, <3>1
    <3>2. CASE feed'[j].order \in DOMAIN changes /\ feed'[j].now = changes[feed'[j].order]
      BY <1>1, <2>2, <3>2, OlderSelf
    <3> QED
      BY <1>1, <1>2, <1>5, <3>1, <3>2, UpdateFeed
  <2> QED
    BY <1>2, <2>1, <2>3 DEF FeedInv
<1>6. CASE StreamUp
  BY <1>2, <1>3, <1>6 DEF StreamUp, FeedInv
<1>7. CASE StreamDown
  <2>1. up' = FALSE /\ feed' = <<>>
    BY <1>7 DEF StreamDown
  <2>2. feed' \in Seq(Events) /\ DOMAIN feed' = {}
    BY <2>1, EmptySequence
  <2> QED
    BY <2>1, <2>2 DEF FeedInv
<1>8. CASE OrderTradeUpdate
  <2>1. feed # <<>> /\ feed' = Tail(feed) /\ up' = up
    BY <1>8 DEF OrderTradeUpdate
  <2> HIDE DEF Events
  <2>2. /\ feed' \in Seq(Events)
        /\ \A j \in DOMAIN feed' : j + 1 \in DOMAIN feed /\ feed'[j] = feed[j + 1]
    BY <1>2, <2>1, TailElements
  <2> QED
    BY <1>2, <1>3, <2>1, <2>2 DEF FeedInv
<1>9. ASSUME NEW o \in Orders, CreateOrder(o) \/ ModifyOrder(o) \/ CancelOrder(o)
      PROVE  UNCHANGED <<up, feed>>
  BY <1>9 DEF CreateOrder, ModifyOrder, CancelOrder, Ask, stream
<1>10. ASSUME NEW selected, CancelAllOrders(selected)
       PROVE  UNCHANGED <<up, feed>>
  BY <1>10 DEF CancelAllOrders, stream
<1>11. ASSUME NEW c \in Connections, Refuse(c) \/ OrderAck(c) \/ Connected(c) \/ Disconnected(c)
       PROVE  UNCHANGED <<up, feed>>
  BY <1>11 DEF Refuse, OrderAck, PlaceOrderAck, ModifyOrderAck, CancelOrderAck,
               CancelAllOrdersAck, OrderAckOf, Connected, Disconnected, stream
<1>12. CASE OpenOrdersTaken \/ OpenOrdersAck \/ OpenOrdersError \/ UserTradesAck
  BY <1>4, <1>12 DEF OpenOrdersTaken, OpenOrdersAck, OpenOrdersError, UserTradesAck
<1>13. ASSUME NEW c \in Connections, CarryOut(c)
       PROVE  \E changes : Sane(changes) /\ Update(changes)
  BY <1>13, UpdateSane DEF KnownInv
<1>14. ASSUME NEW o \in Orders, Fill(o) \/ Expire(o)
       PROVE  \E changes : Sane(changes) /\ Update(changes)
  BY <1>14, UpdateSane DEF KnownInv
<1>15. CASE UNCHANGED vars
  BY <1>4, <1>15 DEF vars, stream
<1> QED
  BY <1>4, <1>5, <1>6, <1>7, <1>8, <1>9, <1>10, <1>11, <1>12, <1>13, <1>14, <1>15 DEF Next

\* What a snapshot holds stays an older state of the orders.
LEMMA SnapStep ==
  ASSUME KnownInv, [Next]_vars
  PROVE  SnapInv'
<1>1. /\ book \in [Orders -> State] /\ book' \in [Orders -> State]
      /\ \A o \in Orders : Follows(book'[o], book[o])
  BY BookStep DEF KnownInv, BookInv
<1>2. ASSUME NEW s \in snap
      PROVE  /\ s \in Snapshots /\ [s EXCEPT !.fresh = FALSE] \in Snapshots
             /\ [s EXCEPT !.fresh = FALSE].now = s.now
             /\ \A o \in DOMAIN s.now : Older(s.now[o], book'[o])
  <2>1. s \in Snapshots
    BY DEF KnownInv, SnapInv
  <2>2. ASSUME NEW o \in DOMAIN s.now
        PROVE  Older(s.now[o], book'[o])
    <3>1. o \in Orders /\ s.now[o] \in State /\ Older(s.now[o], book[o])
      BY <2>1 DEF Snapshots, KnownInv, SnapInv
    <3> QED
      BY <1>1, <3>1, OlderStays
  <2>3. [s EXCEPT !.fresh = FALSE] \in Snapshots /\ [s EXCEPT !.fresh = FALSE].now = s.now
    BY <2>1 DEF Snapshots
  <2> QED
    BY <2>1, <2>2, <2>3
<1>3. CASE UNCHANGED snap
  BY <1>2, <1>3 DEF SnapInv
<1>4. CASE snap' = {}
  BY <1>4 DEF SnapInv
<1>5. CASE StreamDown
  BY <1>2, <1>5 DEF StreamDown, SnapInv
<1>6. CASE OpenOrdersTaken
  <2> DEFINE W == {x \in Orders : book[x].status = "WORKING"}
             s == [fresh |-> up, now |-> [o \in W |-> book[o]]]
  <2>1. snap' = {s} /\ book' = book
    BY <1>6 DEF OpenOrdersTaken
  <2>2. W \in SUBSET Orders /\ [o \in W |-> book[o]] \in [W -> State] /\ up \in BOOLEAN
    BY <1>1 DEF KnownInv, FeedInv
  <2>3. s \in Snapshots
    BY <2>2 DEF Snapshots
  <2>4. \A o \in W : Older(book[o], book[o])
    BY <1>1, OlderSelf
  <2> QED
    BY <2>1, <2>3, <2>4 DEF SnapInv
<1>7. ASSUME NEW o \in Orders,
             CreateOrder(o) \/ ModifyOrder(o) \/ CancelOrder(o) \/ Fill(o) \/ Expire(o)
      PROVE  UNCHANGED snap
  BY <1>7 DEF CreateOrder, ModifyOrder, CancelOrder, Ask, Fill, Expire, Update, stream
<1>8. ASSUME NEW selected, CancelAllOrders(selected)
      PROVE  UNCHANGED snap
  BY <1>8 DEF CancelAllOrders, stream
<1>9. ASSUME NEW c \in Connections,
             CarryOut(c) \/ Refuse(c) \/ OrderAck(c) \/ Connected(c) \/ Disconnected(c)
      PROVE  UNCHANGED snap
  BY <1>9 DEF CarryOut, Update, Refuse, OrderAck, PlaceOrderAck, ModifyOrderAck,
              CancelOrderAck, CancelAllOrdersAck, OrderAckOf, Connected, Disconnected, stream
<1>10. CASE StreamUp \/ OrderTradeUpdate \/ UserTradesAck
  BY <1>3, <1>10 DEF StreamUp, OrderTradeUpdate, UserTradesAck
<1>11. CASE OpenOrdersAck \/ OpenOrdersError
  BY <1>4, <1>11 DEF OpenOrdersAck, OpenOrdersError
<1>12. CASE UNCHANGED vars
  BY <1>3, <1>12 DEF vars, stream
<1> QED
  BY <1>3, <1>5, <1>6, <1>7, <1>8, <1>9, <1>10, <1>11, <1>12 DEF Next

----------------------------------------------------------------------------
(* The pipelines *)

\* Orders once known to the exchange stay known.
LEMMA TruthfulStays ==
  ASSUME NEW b \in [Orders -> State], NEW n \in [Orders -> State],
         \A o \in Orders : Follows(n[o], b[o]),
         NEW e, Truthful(e, b)
  PROVE  Truthful(e, n)
<1>1. e \in Entries /\ e.seen \in State
  BY EntryParts DEF Truthful
<1>2. ASSUME e.req.kind # "CANCEL_ALL"
      PROVE  /\ e.ans = "OK" => Older(e.seen, n[e.req.order])
             /\ e.req.kind \in {"MODIFY", "CANCEL"} /\ e.req.named => n[e.req.order].status # "ABSENT"
  <2> DEFINE o == e.req.order
  <2>1. o \in Orders
    BY <1>1, <1>2, EntryParts
  <2>2. b[o] \in State /\ n[o] \in State /\ Follows(n[o], b[o])
    BY <2>1
  <2>3. e.ans = "OK" => Older(e.seen, b[o])
    BY <1>2 DEF Truthful
  <2>4. e.req.kind \in {"MODIFY", "CANCEL"} /\ e.req.named => b[o].status # "ABSENT"
    BY DEF Truthful
  <2> HIDE DEF o
  <2>5. e.ans = "OK" => Older(e.seen, n[o])
    BY <1>1, <2>2, <2>3, OlderStays
  <2>6. b[o].status # "ABSENT" => n[o].status # "ABSENT"
    BY <2>2 DEF Follows
  <2> QED
    BY <2>4, <2>5, <2>6 DEF o
<1>3. e.req.kind \in {"MODIFY", "CANCEL"} => e.req.kind # "CANCEL_ALL"
  OBVIOUS
<1> QED
  BY <1>1, <1>2, <1>3 DEF Truthful

\* A request is named only after an update of its order was published.
LEMMA NamedKnown ==
  ASSUME BookInv, ViewInv, NEW o \in Orders, view[o].status # "ABSENT"
  PROVE  book[o].status # "ABSENT"
<1>1. book[o] \in State /\ Sensible(book[o]) /\ view[o] \in State /\ Older(view[o], book[o])
  BY DEF BookInv, ViewInv
<1>2. ASSUME book[o].status = "ABSENT" PROVE FALSE
  <2>1. book[o] = Absent /\ view[o].time \in Nat
    BY <1>1, <1>2 DEF Sensible, State
  <2>2. view[o] = book[o]
    BY <1>1, <2>1 DEF Older, Absent
  <2> QED
    BY <1>2, <2>2
<1> QED
  BY <1>2

\* Requests join the end of a pipeline.
LEMMA SendStep ==
  ASSUME WireInv, NEW c \in Connections, NEW requests \in Seq(Requests \cup CancelAlls),
         \A j \in DOMAIN requests :
           requests[j].kind \in {"MODIFY", "CANCEL"} /\ requests[j].named
             => book[requests[j].order].status # "ABSENT",
         Send(c, requests), UNCHANGED book
  PROVE  WireInv'
<1> DEFINE f == [j \in DOMAIN requests |->
                   [req |-> requests[j], ans |-> "PENDING", seen |-> Absent]]
<1>1. ASSUME NEW j \in DOMAIN requests
      PROVE  f[j] \in Entries /\ Truthful(f[j], book)
  <2>1. requests[j] \in Requests \cup CancelAlls
    OBVIOUS
  <2>2. f[j] \in Entries
    BY <2>1, AbsentState DEF Entries, Answers
  <2> QED
    BY <2>2 DEF Truthful
<1>2. f \in [DOMAIN requests -> Entries] /\ DOMAIN f = DOMAIN requests
  BY <1>1
<1>3. wire' = [wire EXCEPT ![c] = @ \o f]
  BY DEF Send
<1> HIDE DEF f
<1>4. f \in Seq(Entries)
  BY <1>2, MappedElements
<1>5. wire[c] \in Seq(Entries) /\ \A j \in DOMAIN wire[c] : Truthful(wire[c][j], book)
  BY WireParts
<1>6. /\ wire[c] \o f \in Seq(Entries)
      /\ \A j \in DOMAIN (wire[c] \o f) : Truthful((wire[c] \o f)[j], book)
  BY <1>1, <1>2, <1>4, <1>5, JoinedElements
<1> QED
  BY <1>3, <1>6 DEF WireInv

\* The pipelines but one are as they were.
LEMMA WireChanged ==
  ASSUME WireInv, BookInv, BookInv', \A o \in Orders : Follows(book'[o], book[o]),
         NEW c \in Connections, NEW q \in Seq(Entries),
         \A j \in DOMAIN q : Truthful(q[j], book'),
         wire' = [wire EXCEPT ![c] = q]
  PROVE  WireInv'
<1>1. ASSUME NEW d \in Connections, NEW j \in DOMAIN wire[d]
      PROVE  Truthful(wire[d][j], book')
  <2>1. Truthful(wire[d][j], book)
    BY WireParts
  <2> QED
    BY <2>1, TruthfulStays DEF BookInv
<1> QED
  BY <1>1 DEF WireInv

LEMMA WireStays ==
  ASSUME WireInv, BookInv, BookInv', \A o \in Orders : Follows(book'[o], book[o]),
         UNCHANGED wire
  PROVE  WireInv'
<1>1. ASSUME NEW d \in Connections, NEW j \in DOMAIN wire[d]
      PROVE  Truthful(wire[d][j], book')
  <2>1. Truthful(wire[d][j], book)
    BY WireParts
  <2> QED
    BY <2>1, TruthfulStays DEF BookInv
<1> QED
  BY <1>1 DEF WireInv

\* An answer is put to its request; a success shows the order as it is now.
LEMMA AnswerStep ==
  ASSUME WireInv, BookInv, BookInv', \A o \in Orders : Follows(book'[o], book[o]),
         NEW c \in Connections, NEW i \in DOMAIN wire[c], NEW ans \in Answers,
         Answer(c, i, ans)
  PROVE  WireInv'
<1> DEFINE e == wire[c][i]
           s == IF ans = "OK" /\ e.req.kind # "CANCEL_ALL" THEN book'[e.req.order] ELSE Absent
           n == [req |-> e.req, ans |-> ans, seen |-> s]
<1>1. wire[c] \in Seq(Entries) /\ e \in Entries /\ Truthful(e, book)
  BY WireParts
<1>2. e.req \in Requests \cup CancelAlls /\ (e.req.kind # "CANCEL_ALL" => e.req.order \in Orders)
  BY <1>1, EntryParts
<1>3. s \in State
  BY <1>2, AbsentState DEF BookInv
<1>4. n \in Entries
  BY <1>2, <1>3 DEF Entries
<1>5. Truthful(e, book')
  BY <1>1, TruthfulStays DEF BookInv
<1>6. ans = "OK" /\ e.req.kind # "CANCEL_ALL" => Older(s, book'[e.req.order])
  BY <1>2, OlderSelf DEF BookInv
<1>7. Truthful(n, book')
  BY <1>4, <1>5, <1>6 DEF Truthful
<1>8. wire' = [wire EXCEPT ![c] = [wire[c] EXCEPT ![i] = n]]
  BY DEF Answer, WireInv
<1> HIDE DEF n
<1>9. /\ [wire[c] EXCEPT ![i] = n] \in Seq(Entries)
       /\ \A h \in DOMAIN [wire[c] EXCEPT ![i] = n] :
            /\ h \in DOMAIN wire[c]
            /\ [wire[c] EXCEPT ![i] = n][h] = IF h = i THEN n ELSE wire[c][h]
  BY <1>1, <1>4, ReplacedElement
<1>10. \A h \in DOMAIN wire[c] : Truthful(wire[c][h], book')
  BY WireParts, TruthfulStays DEF BookInv
<1>11. \A h \in DOMAIN [wire[c] EXCEPT ![i] = n] : Truthful([wire[c] EXCEPT ![i] = n][h], book')
  BY <1>7, <1>9, <1>10
<1> QED
  BY <1>8, <1>9, <1>11, WireChanged

AskedInv == asked \in [Orders -> Nat]

LEMMA WireStep ==
  ASSUME KnownInv, AskedInv, [Next]_vars
  PROVE  WireInv'
<1>1. BookInv /\ ViewInv /\ WireInv /\ BookInv' /\ \A o \in Orders : Follows(book'[o], book[o])
  BY BookStep DEF KnownInv
<1>2. ASSUME UNCHANGED wire PROVE WireInv'
  BY <1>1, <1>2, WireStays
<1>3. ASSUME NEW o \in Orders, NEW kind \in {"CREATE", "MODIFY", "CANCEL"}, NEW named \in BOOLEAN,
             kind # "CREATE" /\ named => Named(o), Ask(kind, o, named)
      PROVE  WireInv'
  <2> DEFINE r == [kind |-> kind, order |-> o, version |-> asked[o] + 1, named |-> named]
  <2>1. PICK c \in Connections : Send(c, <<r>>)
    BY <1>3 DEF Ask
  <2>2. asked[o] + 1 \in Nat /\ UNCHANGED book
    BY <1>3 DEF AskedInv, Ask
  <2>3. r \in Requests \cup CancelAlls
    BY <2>2 DEF Requests
  <2>4. r.kind \in {"MODIFY", "CANCEL"} /\ r.named => book[r.order].status # "ABSENT"
    BY <1>1, <1>3, NamedKnown DEF Named
  <2> HIDE DEF r
  <2>5. <<r>> \in Seq(Requests \cup CancelAlls) /\ \A j \in DOMAIN <<r>> : <<r>>[j] = r
    BY <2>3
  <2> QED
    BY <1>1, <2>1, <2>2, <2>4, <2>5, SendStep
<1>4. ASSUME NEW o \in Orders, CreateOrder(o) \/ ModifyOrder(o) \/ CancelOrder(o)
      PROVE  WireInv'
  <2>1. Named(o) \in BOOLEAN
    BY DEF Named
  <2> QED
    BY <1>3, <1>4, <2>1 DEF CreateOrder, ModifyOrder, CancelOrder
<1>5. ASSUME NEW selected, CancelAllOrders(selected)
      PROVE  WireInv'
  <2> DEFINE known == {SymbolOf[o] : o \in {x \in Orders : asked[x] > 0}}
  <2>1. PICK symbols \in {known \cap selected}, c \in Connections :
          \E q \in [1 .. Cardinality(symbols) -> [kind : {"CANCEL_ALL"}, symbol : symbols]] :
            Send(c, q)
    BY <1>5 DEF CancelAllOrders
  <2>2. PICK q \in [1 .. Cardinality(symbols) -> [kind : {"CANCEL_ALL"}, symbol : symbols]] :
          Send(c, q)
    BY <2>1
  <2>3. known \subseteq Symbols
    BY OrdersAssumption
  <2>4. symbols \subseteq Symbols
    BY <2>3
  <2>5. Cardinality(symbols) \in Nat
    BY <2>4, OrdersAssumption, FS_Subset, FS_CardinalityType
  <2>6. \A j \in 1 .. Cardinality(symbols) : q[j] \in CancelAlls /\ q[j].kind = "CANCEL_ALL"
    BY <2>4 DEF CancelAlls
  <2>7. q \in [1 .. Cardinality(symbols) -> Requests \cup CancelAlls]
    BY <2>6
  <2> HIDE DEF known
  <2>8. q \in Seq(Requests \cup CancelAlls) /\ DOMAIN q = 1 .. Cardinality(symbols)
    BY <2>5, <2>7
  <2>9. UNCHANGED book
    BY <1>5 DEF CancelAllOrders
  <2>10. \A j \in DOMAIN q : q[j].kind \notin {"MODIFY", "CANCEL"}
    BY <2>6, <2>8
  <2> QED
    BY <1>1, <2>2, <2>8, <2>9, <2>10, SendStep
<1>6. ASSUME NEW c \in Connections, CarryOut(c) \/ Refuse(c)
      PROVE  WireInv'
  <2>1. PICK i \in 1 .. Len(wire[c]), ans \in Answers : Unanswered(c, i) /\ Answer(c, i, ans)
    BY <1>6 DEF CarryOut, Refuse, Answers
  <2>2. i \in DOMAIN wire[c]
    BY <2>1 DEF Unanswered
  <2> QED
    BY <1>1, <2>1, <2>2, AnswerStep
<1>7. ASSUME NEW c \in Connections, OrderAck(c)
      PROVE  WireInv'
  <2>1. wire[c] # <<>> /\ wire' = [wire EXCEPT ![c] = Tail(wire[c])] /\ UNCHANGED book
    BY <1>7 DEF OrderAck, PlaceOrderAck, ModifyOrderAck, CancelOrderAck, OrderAckOf,
                CancelAllOrdersAck, Answered
  <2>2. wire[c] \in Seq(Entries) /\ \A j \in DOMAIN wire[c] : Truthful(wire[c][j], book')
    BY <1>1, <2>1, WireParts
  <2>3. /\ Tail(wire[c]) \in Seq(Entries)
        /\ \A j \in DOMAIN Tail(wire[c]) : j + 1 \in DOMAIN wire[c] /\ Tail(wire[c])[j] = wire[c][j + 1]
    BY <2>1, <2>2, TailElements
  <2>4. \A j \in DOMAIN Tail(wire[c]) : Truthful(Tail(wire[c])[j], book')
    BY <2>2, <2>3
  <2> QED
    BY <1>1, <2>1, <2>3, <2>4, WireChanged
<1>8. ASSUME NEW c \in Connections, Disconnected(c)
      PROVE  WireInv'
  <2>1. wire' = [wire EXCEPT ![c] = <<>>]
    BY <1>8 DEF Disconnected
  <2>2. <<>> \in Seq(Entries) /\ DOMAIN <<>> = {}
    BY EmptySequence
  <2>3. \A j \in DOMAIN <<>> : Truthful(<<>>[j], book')
    BY <2>2
  <2> QED
    BY <1>1, <2>1, <2>2, <2>3, WireChanged
<1>9. ASSUME NEW o \in Orders, Fill(o) \/ Expire(o)
      PROVE  WireInv'
  BY <1>2, <1>9 DEF Fill, Expire
<1>10. ASSUME NEW c \in Connections, Connected(c)
       PROVE  WireInv'
  BY <1>2, <1>10 DEF Connected
<1>11. CASE \/ StreamUp \/ StreamDown \/ OrderTradeUpdate
            \/ OpenOrdersTaken \/ OpenOrdersAck \/ OpenOrdersError \/ UserTradesAck
  BY <1>2, <1>11 DEF StreamUp, StreamDown, OrderTradeUpdate, OpenOrdersTaken,
                     OpenOrdersAck, OpenOrdersError, UserTradesAck
<1>12. CASE UNCHANGED vars
  BY <1>2, <1>12 DEF vars
<1> QED
  BY <1>4, <1>5, <1>6, <1>7, <1>8, <1>9, <1>10, <1>11, <1>12 DEF Next

LEMMA AskedStep ==
  ASSUME AskedInv, [Next]_vars
  PROVE  AskedInv'
<1>1. CASE UNCHANGED asked
  BY <1>1 DEF AskedInv
<1>2. ASSUME NEW o \in Orders, CreateOrder(o) \/ ModifyOrder(o) \/ CancelOrder(o)
      PROVE  AskedInv'
  BY <1>2 DEF CreateOrder, ModifyOrder, CancelOrder, Ask, AskedInv
<1>3. ASSUME NEW o \in Orders, Fill(o) \/ Expire(o)
      PROVE  UNCHANGED asked
  BY <1>3 DEF Fill, Expire, client
<1>4. ASSUME NEW selected, CancelAllOrders(selected)
      PROVE  UNCHANGED asked
  BY <1>4 DEF CancelAllOrders, client
<1>5. ASSUME NEW c \in Connections,
             CarryOut(c) \/ Refuse(c) \/ OrderAck(c) \/ Connected(c) \/ Disconnected(c)
      PROVE  UNCHANGED asked
  BY <1>5 DEF CarryOut, Refuse, OrderAck, PlaceOrderAck, ModifyOrderAck, CancelOrderAck,
              CancelAllOrdersAck, OrderAckOf, Connected, Disconnected, client
<1>6. CASE \/ StreamUp \/ StreamDown \/ OrderTradeUpdate
           \/ OpenOrdersTaken \/ OpenOrdersAck \/ OpenOrdersError \/ UserTradesAck
  BY <1>1, <1>6 DEF StreamUp, StreamDown, OrderTradeUpdate, OpenOrdersTaken,
                    OpenOrdersAck, OpenOrdersError, UserTradesAck, client
<1>7. CASE UNCHANGED vars
  BY <1>1, <1>7 DEF vars, client
<1> QED
  BY <1>1, <1>2, <1>3, <1>4, <1>5, <1>6, <1>7 DEF Next

LEMMA KnownStep == KnownInv /\ AskedInv /\ [Next]_vars => KnownInv' /\ AskedInv'
BY BookStep, ViewStep, FeedStep, SnapStep, WireStep, AskedStep DEF KnownInv

LEMMA KnownInit == Init => KnownInv /\ AskedInv
<1> SUFFICES ASSUME Init PROVE KnownInv /\ AskedInv
  OBVIOUS
<1>1. book = [o \in Orders |-> Absent] /\ view = [o \in Orders |-> Absent]
  BY DEF Init
<1>2. BookInv /\ ViewInv
  BY <1>1, AbsentState DEF BookInv, ViewInv
<1>3. AskedInv /\ SnapInv
  BY DEF Init, AskedInv, SnapInv
<1>4. \A c \in Connections : wire[c] = <<>> /\ wire = [d \in Connections |-> <<>>]
  BY DEF Init
<1>5. <<>> \in Seq(Entries) /\ <<>> \in Seq(Events) /\ DOMAIN <<>> = {}
  BY EmptySequence
<1>6. WireInv
  BY <1>5 DEF Init, WireInv
<1>7. FeedInv
  BY <1>5 DEF Init, FeedInv
<1> QED
  BY <1>2, <1>3, <1>6, <1>7 DEF KnownInv

\* Requests of one order are routed to different connections and overtake each
\* other, but one that names the order is sent only after the exchange answered.
THEOREM NamedReachKnown == Spec => []NamedExists
<1>1. KnownInv => NamedExists
  <2> SUFFICES ASSUME KnownInv, NEW r \in InFlight, r.kind \in {"MODIFY", "CANCEL"}, r.named
               PROVE  book[r.order].status # "ABSENT"
    BY DEF NamedExists
  <2>1. PICK c \in Connections : \E j \in DOMAIN wire[c] : r = wire[c][j].req
    BY DEF InFlight
  <2>2. PICK j \in DOMAIN wire[c] : r = wire[c][j].req
    BY <2>1
  <2>3. Truthful(wire[c][j], book)
    BY WireParts DEF KnownInv
  <2> QED
    BY <2>2, <2>3 DEF Truthful
<1> QED
  BY <1>1, KnownInit, KnownStep, PTL DEF Spec

\* Whatever source tells of an order, and however late, a closed order is never
\* published as working again.
THEOREM NeverReopened == Spec => ClosedStaysClosed
<1>1. KnownInv /\ [Next]_vars
        => [\A o \in Orders : view[o].status = "CLOSED" => view'[o].status = "CLOSED"]_vars
  <2> SUFFICES ASSUME KnownInv, [Next]_vars
               PROVE  \A o \in Orders : view[o].status = "CLOSED" => view'[o].status = "CLOSED"
    OBVIOUS
  <2> QED
    BY ViewStep
<1> QED
  BY <1>1, KnownInit, KnownStep, PTL DEF Spec, ClosedStaysClosed

----------------------------------------------------------------------------
(* Fills *)

\* Fills f published, given a stream q and orders b: never more than were
\* traded, and every trade on the stream is news, after those before it.
Fills(f, q, b) ==
  /\ f \in [Orders -> Nat]
  /\ \A o \in Orders : f[o] <= b[o].executed
  /\ \A j \in DOMAIN q : q[j].trade =>
       /\ f[q[j].order] < q[j].now.executed
       /\ \A i \in DOMAIN q : i < j /\ q[i].order = q[j].order
                                => q[i].now.executed < q[j].now.executed

FillInv == Fills(reported, feed, book)

\* What may happen to the stream and to the orders it tells of.
LEMMA FeedSources ==
  ASSUME KnownInv, [Next]_vars
  PROVE  \/ UNCHANGED <<book, feed, reported>>
         \/ UNCHANGED <<reported, view>> /\ \E changes : Sane(changes) /\ Update(changes)
         \/ StreamDown
         \/ OrderTradeUpdate
<1>1. CASE UNCHANGED book
  <2>1. ASSUME NEW o \in Orders, CreateOrder(o) \/ ModifyOrder(o) \/ CancelOrder(o)
        PROVE  UNCHANGED <<feed, reported>>
    BY <2>1 DEF CreateOrder, ModifyOrder, CancelOrder, Ask, stream
  <2>2. ASSUME NEW o \in Orders, Fill(o) \/ Expire(o)
        PROVE  UNCHANGED <<reported, view>> /\ \E changes : Sane(changes) /\ Update(changes)
    BY <2>2, UpdateSane DEF KnownInv, client
  <2>3. ASSUME NEW selected, CancelAllOrders(selected)
        PROVE  UNCHANGED <<feed, reported>>
    BY <2>3 DEF CancelAllOrders, stream, client
  <2>4. ASSUME NEW c \in Connections, CarryOut(c)
        PROVE  UNCHANGED <<reported, view>> /\ \E changes : Sane(changes) /\ Update(changes)
    BY <2>4, UpdateSane DEF KnownInv, client
  <2>5. ASSUME NEW c \in Connections, Refuse(c) \/ OrderAck(c) \/ Connected(c) \/ Disconnected(c)
        PROVE  UNCHANGED <<feed, reported>>
    BY <2>5 DEF Refuse, OrderAck, PlaceOrderAck, ModifyOrderAck, CancelOrderAck,
                CancelAllOrdersAck, OrderAckOf, Connected, Disconnected, stream, client
  <2>6. CASE StreamUp \/ OpenOrdersTaken \/ OpenOrdersAck \/ OpenOrdersError \/ UserTradesAck
    BY <1>1, <2>6 DEF StreamUp, OpenOrdersTaken, OpenOrdersAck, OpenOrdersError, UserTradesAck, client
  <2>7. CASE UNCHANGED vars
    BY <2>7 DEF vars, stream, client
  <2> QED
    BY <1>1, <2>1, <2>2, <2>3, <2>4, <2>5, <2>6, <2>7 DEF Next
<1>2. CASE ~UNCHANGED book
  <2>1. UNCHANGED <<routing, client>> /\ \E changes : Sane(changes) /\ Update(changes)
    BY <1>2, UpdateOrNot DEF KnownInv
  <2> QED
    BY <2>1 DEF client
<1> QED
  BY <1>1, <1>2

LEMMA FillStep ==
  ASSUME KnownInv, FillInv, [Next]_vars
  PROVE  FillInv'
<1>1. /\ book \in [Orders -> State] /\ feed \in Seq(Events)
      /\ reported \in [Orders -> Nat] /\ up \in BOOLEAN
  BY DEF KnownInv, BookInv, FeedInv, FillInv, Fills
<1>2. ASSUME NEW j \in DOMAIN feed
      PROVE  /\ feed[j].order \in Orders /\ feed[j].now.executed \in Nat
             /\ feed[j].now.executed <= book[feed[j].order].executed
             /\ book[feed[j].order].executed \in Nat
             /\ feed[j].trade \in BOOLEAN /\ j \in Nat
  <2>1. feed[j] \in Events /\ j \in Nat
    BY <1>1
  <2>2. feed[j].order \in Orders /\ feed[j].now \in State /\ feed[j].trade \in BOOLEAN
    BY <2>1 DEF Events
  <2>3. Older(feed[j].now, book[feed[j].order])
    BY DEF KnownInv, FeedInv
  <2> QED
    BY <1>1, <2>1, <2>2, <2>3 DEF State, Older
<1>3. /\ \A o \in Orders : reported[o] <= book[o].executed
      /\ \A j \in DOMAIN feed : feed[j].trade =>
           /\ reported[feed[j].order] < feed[j].now.executed
           /\ \A i \in DOMAIN feed : i < j /\ feed[i].order = feed[j].order
                                       => feed[i].now.executed < feed[j].now.executed
  BY DEF FillInv, Fills
<1>4. CASE UNCHANGED <<book, feed, reported>>
  BY <1>4 DEF FillInv
<1>5. ASSUME NEW changes, Sane(changes), Update(changes), UNCHANGED <<reported, view>>
      PROVE  FillInv'
  <2>1. /\ book' \in [Orders -> State]
        /\ \A o \in Orders : Follows(book'[o], book[o])
    BY <1>5, UpdateBook DEF KnownInv, BookInv
  <2>2. ASSUME NEW o \in Orders PROVE reported[o] <= book'[o].executed
    <3>1. /\ book[o].executed \in Nat /\ book'[o].executed \in Nat /\ reported[o] \in Nat
          /\ reported[o] <= book[o].executed
      BY <1>1, <1>3, <2>1 DEF State
    <3>2. book[o].executed <= book'[o].executed
      BY <2>1, <3>1 DEF Follows
    <3> QED
      BY <3>1, <3>2
  <2>3. /\ feed' \in Seq(Events)
        /\ \A j \in DOMAIN feed' :
             \/ j \in DOMAIN feed /\ feed'[j] = feed[j]
             \/ /\ feed'[j].order \in DOMAIN changes
                /\ feed'[j].now = changes[feed'[j].order]
                /\ feed'[j].trade => /\ j = Len(feed) + 1
                                     /\ book[feed'[j].order].executed < feed'[j].now.executed
    BY <1>1, <1>5, UpdateFeed
  <2>4. DOMAIN changes \subseteq Orders
    BY <1>5 DEF Sane
  <2>5. ASSUME NEW j \in DOMAIN feed', feed'[j].trade
        PROVE  /\ reported[feed'[j].order] < feed'[j].now.executed
               /\ \A i \in DOMAIN feed' : i < j /\ feed'[i].order = feed'[j].order
                                           => feed'[i].now.executed < feed'[j].now.executed
    <3>1. Len(feed) \in Nat /\ DOMAIN feed = 1 .. Len(feed) /\ j \in Nat \ {0}
      BY <1>1, <2>3
    <3>2. ASSUME NEW i \in DOMAIN feed', i < j, j <= Len(feed) + 1
          PROVE  i \in DOMAIN feed /\ feed'[i] = feed[i]
      <4>1. i \in Nat \ {0}
        BY <2>3
      <4>2. i \in DOMAIN feed
        BY <3>1, <3>2, <4>1
      <4>3. feed' = feed \/ ~up \/ \A h \in DOMAIN feed : h \in DOMAIN feed' /\ feed'[h] = feed[h]
        BY <1>1, <1>5, UpdateFeed
      <4>4. ~up => feed' = feed
        BY <1>1, <1>5, UpdateFeed
      <4> QED
        BY <4>2, <4>3, <4>4
    <3>3. CASE j \in DOMAIN feed /\ feed'[j] = feed[j]
      BY <1>3, <2>5, <3>1, <3>2, <3>3
    <3>4. CASE /\ feed'[j].order \in DOMAIN changes
               /\ feed'[j].now = changes[feed'[j].order]
               /\ j = Len(feed) + 1
               /\ book[feed'[j].order].executed < feed'[j].now.executed
      <4> DEFINE o == feed'[j].order
                 x == feed'[j].now.executed
      <4>1. changes[o] \in State
        BY <1>5, <3>4 DEF Sane, Sensible
      <4>2. o \in Orders /\ x \in Nat /\ book[o].executed < x /\ book[o].executed \in Nat
        BY <1>1, <2>4, <3>4, <4>1 DEF State
      <4>3. reported[o] <= book[o].executed /\ reported[o] \in Nat
        BY <1>1, <1>3, <4>2
      <4>4. ASSUME NEW i \in DOMAIN feed', i < j, feed'[i].order = o
            PROVE  feed'[i].now.executed < x
        <5>1. i \in DOMAIN feed /\ feed'[i] = feed[i]
          BY <3>1, <3>2, <3>4, <4>4
        <5>2. feed[i].now.executed \in Nat /\ feed[i].now.executed <= book[o].executed
          BY <1>2, <4>4, <5>1
        <5> HIDE DEF o, x
        <5> QED
          BY <4>2, <5>1, <5>2
      <4>5. reported[o] < x
        <5> HIDE DEF o, x
        <5> QED
          BY <4>2, <4>3
      <4> QED
        BY <4>4, <4>5
    <3> QED
      BY <2>3, <2>5, <3>3, <3>4
  <2> QED
    BY <1>1, <1>5, <2>2, <2>5 DEF FillInv, Fills
<1>6. CASE StreamDown
  <2>1. feed' = <<>> /\ UNCHANGED <<book, reported>>
    BY <1>6 DEF StreamDown, client
  <2>2. DOMAIN feed' = {}
    BY <2>1
  <2> QED
    BY <1>1, <1>3, <2>1, <2>2 DEF FillInv, Fills
<1>7. CASE OrderTradeUpdate
  <2> DEFINE m == Head(feed)
  <2>1. /\ feed # <<>> /\ feed' = Tail(feed) /\ UNCHANGED book
        /\ reported' = [reported EXCEPT ![m.order] = IF m.trade THEN @ + 1 ELSE @ + 0]
    BY <1>7 DEF OrderTradeUpdate, TradesOf
  <2>2. 1 \in DOMAIN feed /\ m = feed[1]
    BY <1>1, <2>1
  <2>3. ASSUME NEW j \in DOMAIN feed'
        PROVE  j \in Nat /\ j + 1 \in DOMAIN feed /\ feed'[j] = feed[j + 1] /\ 1 < j + 1
    <3>1. j \in Nat /\ j + 1 \in DOMAIN feed /\ feed'[j] = feed[j + 1] /\ j # 0
      <4> HIDE DEF Events
      <4>1. Tail(feed) \in Seq(Events)
        BY <1>1, <2>1, TailElements
      <4> QED
        BY <1>1, <2>1, <4>1, TailElements
    <3> QED
      BY <3>1
  <2>4. ASSUME NEW o \in Orders
        PROVE  /\ reported'[o] \in Nat
               /\ reported'[o] <= book[o].executed
               /\ m.trade /\ o = m.order => reported'[o] <= m.now.executed
               /\ ~(m.trade /\ o = m.order) => reported'[o] = reported[o]
    <3>1. /\ reported[o] \in Nat /\ book[o].executed \in Nat /\ reported[o] <= book[o].executed
          /\ m.now.executed \in Nat /\ m.now.executed <= book[m.order].executed
      BY <1>1, <1>2, <1>3, <2>2 DEF State
    <3>2. m.trade => reported[m.order] < m.now.executed
      BY <1>3, <2>2
    <3>3. reported'[o] = IF m.trade /\ o = m.order THEN reported[o] + 1 ELSE reported[o]
      BY <1>1, <2>1
    <3> HIDE DEF m
    <3> QED
      BY <3>1, <3>2, <3>3
  <2>5. ASSUME NEW j \in DOMAIN feed', feed'[j].trade
        PROVE  /\ reported'[feed'[j].order] < feed'[j].now.executed
               /\ \A i \in DOMAIN feed' : i < j /\ feed'[i].order = feed'[j].order
                                           => feed'[i].now.executed < feed'[j].now.executed
    <3> DEFINE o == feed'[j].order
               x == feed'[j].now.executed
    <3>1. j + 1 \in DOMAIN feed /\ feed'[j] = feed[j + 1] /\ 1 < j + 1
      BY <2>3
    <3>2. o \in Orders /\ x \in Nat /\ reported[o] < x /\ (m.order = o => m.now.executed < x)
      BY <1>2, <1>3, <2>2, <2>5, <3>1
    <3>3. reported'[o] < x
      <4>1. m.now.executed \in Nat
        BY <1>2, <2>2
      <4>2. /\ reported'[o] \in Nat
            /\ m.trade /\ o = m.order => reported'[o] <= m.now.executed
            /\ ~(m.trade /\ o = m.order) => reported'[o] = reported[o]
        BY <2>4, <3>2
      <4> HIDE DEF o, x, m
      <4> QED
        BY <3>2, <4>1, <4>2
    <3>4. ASSUME NEW i \in DOMAIN feed', i < j, feed'[i].order = o
          PROVE  feed'[i].now.executed < x
      <4>1. /\ i \in Nat /\ j \in Nat /\ i + 1 \in DOMAIN feed /\ feed'[i] = feed[i + 1]
        BY <2>3
      <4>2. i + 1 < j + 1
        BY <3>4, <4>1, <2>3
      <4> QED
        BY <1>3, <2>5, <3>1, <3>4, <4>1, <4>2
    <3> QED
      BY <3>3, <3>4
  <2>6. reported' = [o \in Orders |-> reported'[o]]
    BY <1>1, <2>1
  <2>7. reported' \in [Orders -> Nat]
    BY <2>4, <2>6
  <2> QED
    BY <2>1, <2>4, <2>5, <2>7 DEF FillInv, Fills
<1> QED
  BY <1>4, <1>5, <1>6, <1>7, FeedSources

----------------------------------------------------------------------------
(* A client that keeps the latest update becomes right *)

\* An order's state b is published as v, or is told by an event on stream q.
Reach(o, v, q, b) == v = b \/ \E j \in DOMAIN q : q[j].order = o /\ q[j].now = b

Reachable(o) == Reach(o, view[o], feed, book[o])

\* The snapshot s tells the order's state b.
Listed(o, s, b) == o \in DOMAIN s.now /\ s.now[o] = b

ConvInv ==
  /\ snap # {} => \E s \in snap : snap = {s}
  /\ \A o \in Orders \ missed : book[o].status = "CLOSED" => Reachable(o)
  /\ "OPEN_ORDERS" \in current => up /\ \A o \in Orders \ missed : Reachable(o)
  /\ \A s \in snap : s.fresh =>
       up /\ \A o \in Orders \ missed : Reachable(o) \/ Listed(o, s, book[o])

\* What is published and right stays so while the order stays as it is.
LEMMA ViewKeeps ==
  ASSUME KnownInv, [Next]_vars, NEW o \in Orders, view[o] = book[o], book'[o] = book[o]
  PROVE  view'[o] = book'[o]
<1>1. book[o] \in State /\ Older(book[o], book[o])
  BY OlderSelf DEF KnownInv, BookInv
<1>2. ASSUME NEW s \in State, Older(s, book[o]), view'[o] = Later(view[o], s)
      PROVE  view'[o] = book[o]
  BY <1>1, <1>2, LaterKnown
<1> QED
  BY <1>2, ViewSources

\* An order that never changed is published as absent.
LEMMA AbsentReachable ==
  ASSUME BookInv, ViewInv, NEW o \in Orders, book[o].status = "ABSENT"
  PROVE  Reachable(o)
<1>1. book[o] = Absent /\ view[o] \in State /\ Older(view[o], book[o])
  BY DEF BookInv, ViewInv, Sensible
<1>2. view[o] = book[o]
  BY <1>1 DEF Older, State, Absent
<1> QED
  BY <1>2 DEF Reachable, Reach

\* A step that leaves the orders alone and loses no event loses nothing.
LEMMA ReachableKept ==
  ASSUME KnownInv, [Next]_vars, NEW o \in Orders, Reachable(o), book'[o] = book[o],
         \A j \in DOMAIN feed : j \in DOMAIN feed' /\ feed'[j] = feed[j]
  PROVE  Reach(o, view'[o], feed', book'[o])
<1>1. CASE view[o] = book[o]
  BY <1>1, ViewKeeps DEF Reach
<1>2. ASSUME NEW j \in DOMAIN feed, feed[j].order = o, feed[j].now = book[o]
      PROVE  Reach(o, view'[o], feed', book'[o])
  BY <1>2 DEF Reach
<1> QED
  BY <1>1, <1>2 DEF Reachable, Reach

\* Nor does an event that is taken: it is published.
LEMMA ReachableTaken ==
  ASSUME KnownInv, OrderTradeUpdate, NEW o \in Orders, Reachable(o)
  PROVE  Reach(o, view'[o], feed', book'[o])
<1> DEFINE m == Head(feed)
<1>1. /\ feed # <<>> /\ feed' = Tail(feed) /\ UNCHANGED book
      /\ view' = [view EXCEPT ![m.order] = Later(@, m.now)]
  BY DEF OrderTradeUpdate, FeedState
<1>2. feed \in Seq(Events) /\ m = feed[1] /\ 1 \in DOMAIN feed
  BY <1>1 DEF KnownInv, FeedInv
<1>3. m \in Events /\ Older(m.now, book[m.order])
  BY <1>2 DEF KnownInv, FeedInv
<1>4. m.order \in Orders /\ m.now \in State
  BY <1>3 DEF Events
<1>5. view \in [Orders -> State] /\ book[o] \in State /\ Older(view[o], book[o])
  BY DEF KnownInv, ViewInv, BookInv
<1>6. [Next]_vars
  BY DEF Next
<1>7. CASE view[o] = book[o]
  BY <1>1, <1>6, <1>7, ViewKeeps DEF Reach
<1>8. ASSUME NEW j \in DOMAIN feed, feed[j].order = o, feed[j].now = book[o]
      PROVE  Reach(o, view'[o], feed', book'[o])
  <2>1. CASE j = 1
    <3>1. m.order = o /\ m.now = book[o] /\ Older(m.now, book[o])
      BY <1>2, <1>3, <1>8, <2>1
    <3>2. Later(view[o], m.now) = book[o]
      BY <1>4, <1>5, <3>1, LaterKnown
    <3>3. view'[o] = Later(view[o], m.now)
      <4> HIDE DEF m
      <4> QED
        BY <1>1, <1>5, <3>1
    <3> QED
      BY <1>1, <3>2, <3>3 DEF Reach
  <2>2. CASE j # 1
    <3>1. j - 1 \in DOMAIN feed' /\ feed'[j - 1] = feed[j]
      <4> HIDE DEF Events
      <4> QED
        BY <1>1, <1>2, <2>2
    <3> QED
      BY <1>1, <1>8, <3>1 DEF Reach
  <2> QED
    BY <2>1, <2>2
<1> QED
  BY <1>7, <1>8 DEF Reachable, Reach

LEMMA ConvInit == Init => ConvInv
<1> SUFFICES ASSUME Init PROVE ConvInv
  OBVIOUS
<1>1. snap = {} /\ current = {} /\ \A o \in Orders : book[o] = Absent
  BY DEF Init
<1> QED
  BY <1>1 DEF ConvInv, Absent

\* Steps that concern requests only.
Aside == UNCHANGED <<book, feed, up, missed, snap, current>>

LEMMA ConvSources ==
  ASSUME KnownInv, [Next]_vars
  PROVE  \/ Aside
         \/ UNCHANGED view /\ \E changes : Sane(changes) /\ Update(changes)
         \/ StreamUp \/ StreamDown \/ OrderTradeUpdate
         \/ OpenOrdersTaken \/ OpenOrdersAck \/ OpenOrdersError \/ UserTradesAck
<1>1. ASSUME NEW o \in Orders, CreateOrder(o) \/ ModifyOrder(o) \/ CancelOrder(o)
      PROVE  Aside
  BY <1>1 DEF CreateOrder, ModifyOrder, CancelOrder, Ask, stream, Aside
<1>2. ASSUME NEW selected, CancelAllOrders(selected)
      PROVE  Aside
  BY <1>2 DEF CancelAllOrders, stream, Aside
<1>3. ASSUME NEW c \in Connections, Refuse(c) \/ OrderAck(c) \/ Connected(c) \/ Disconnected(c)
      PROVE  Aside
  BY <1>3 DEF Refuse, OrderAck, PlaceOrderAck, ModifyOrderAck, CancelOrderAck,
              CancelAllOrdersAck, OrderAckOf, Connected, Disconnected, stream, Aside
<1>4. ASSUME NEW c \in Connections, CarryOut(c)
      PROVE  UNCHANGED view /\ \E changes : Sane(changes) /\ Update(changes)
  BY <1>4, UpdateSane DEF KnownInv, client
<1>5. ASSUME NEW o \in Orders, Fill(o) \/ Expire(o)
      PROVE  UNCHANGED view /\ \E changes : Sane(changes) /\ Update(changes)
  BY <1>5, UpdateSane DEF KnownInv, client
<1>6. CASE UNCHANGED vars
  BY <1>6 DEF vars, stream, Aside
<1> QED
  BY <1>1, <1>2, <1>3, <1>4, <1>5, <1>6 DEF Next

LEMMA ConvStep ==
  ASSUME KnownInv, ConvInv, [Next]_vars
  PROVE  ConvInv'
<1>1. /\ book \in [Orders -> State] /\ up \in BOOLEAN /\ feed \in Seq(Events)
      /\ snap \subseteq Snapshots
  BY DEF KnownInv, BookInv, FeedInv, SnapInv
<1>2. /\ \A o \in Orders \ missed : book[o].status = "CLOSED" => Reachable(o)
      /\ "OPEN_ORDERS" \in current => up /\ \A o \in Orders \ missed : Reachable(o)
      /\ \A s \in snap : s.fresh =>
           up /\ \A o \in Orders \ missed : Reachable(o) \/ Listed(o, s, book[o])
      /\ snap # {} => \E s \in snap : snap = {s}
  BY DEF ConvInv
<1> DEFINE Now(o) == Reach(o, view'[o], feed', book'[o])
<1>3. ASSUME UNCHANGED <<book, feed>>, NEW o \in Orders, Reachable(o)
      PROVE  Now(o)
  BY <1>3, ReachableKept
<1>4. CASE Aside
  BY <1>2, <1>3, <1>4 DEF Aside, ConvInv, Reachable
<1>5. ASSUME NEW changes, Sane(changes), Update(changes), UNCHANGED view
      PROVE  ConvInv'
  <2>1. /\ DOMAIN changes \subseteq Orders
        /\ \A o \in Orders : /\ o \in DOMAIN changes => book'[o] = changes[o]
                             /\ o \notin DOMAIN changes => book'[o] = book[o]
    BY <1>5, UpdateBook DEF KnownInv, BookInv, Sane
  <2>2. /\ UNCHANGED <<up, snap, current>>
        /\ missed' = IF up THEN missed
                     ELSE missed \cup {o \in DOMAIN changes : changes[o].status = "CLOSED"}
    BY <1>5 DEF Update
  <2>3. \A j \in DOMAIN feed : j \in DOMAIN feed' /\ feed'[j] = feed[j]
    BY <1>1, <1>5, UpdateFeed
  <2>4. ASSUME NEW o \in Orders, o \notin DOMAIN changes, Reachable(o)
        PROVE  Now(o)
    BY <2>1, <2>3, <2>4, ReachableKept
  <2>5. ASSUME up, NEW o \in DOMAIN changes
        PROVE  Now(o)
    <3>1. PICK j \in DOMAIN feed' : feed'[j].order = o /\ feed'[j].now = changes[o]
      BY <1>1, <1>5, <2>5, UpdateFeed
    <3> QED
      BY <2>1, <3>1 DEF Reach
  <2>6. \A o \in Orders \ missed' : book'[o].status = "CLOSED" => Now(o)
    BY <1>2, <2>1, <2>2, <2>4, <2>5
  <2>7. "OPEN_ORDERS" \in current' => up' /\ \A o \in Orders \ missed' : Now(o)
    BY <1>2, <2>2, <2>4, <2>5
  <2>8. \A s \in snap' : s.fresh =>
          up' /\ \A o \in Orders \ missed' : Now(o) \/ Listed(o, s, book'[o])
    BY <1>2, <2>1, <2>2, <2>4, <2>5
  <2> QED
    BY <1>2, <2>2, <2>6, <2>7, <2>8 DEF ConvInv, Reachable
<1>6. CASE StreamUp
  <2>1. /\ ~up /\ up' = TRUE /\ current' = {}
        /\ UNCHANGED <<book, feed, missed, snap>>
    BY <1>6 DEF StreamUp
  <2> QED
    BY <1>2, <1>3, <2>1 DEF ConvInv, Reachable
<1>7. CASE StreamDown
  <2>1. /\ feed' = <<>> /\ current' = {} /\ UNCHANGED <<book, view>>
        /\ snap' = {[s EXCEPT !.fresh = FALSE] : s \in snap}
        /\ missed' = missed \cup {feed[i].order : i \in {j \in DOMAIN feed : feed[j].now.status = "CLOSED"}}
    BY <1>7 DEF StreamDown, client
  <2>2. \A s \in snap : [s EXCEPT !.fresh = FALSE].fresh = FALSE
    BY <1>1 DEF Snapshots
  <2>3. \A s \in snap' : s.fresh = FALSE
    BY <2>1, <2>2
  <2>4. snap' # {} => \E s \in snap' : snap' = {s}
    <3> SUFFICES ASSUME snap' # {} PROVE \E s \in snap' : snap' = {s}
      OBVIOUS
    <3>1. PICK s \in snap : snap = {s}
      BY <1>2, <2>1
    <3> DEFINE t == [s EXCEPT !.fresh = FALSE]
    <3>2. snap' = {t}
      BY <2>1, <3>1
    <3> HIDE DEF t
    <3> QED
      BY <3>2
  <2>5. ASSUME NEW o \in Orders \ missed', book'[o].status = "CLOSED"
        PROVE  Now(o)
    <3>1. o \notin missed /\ Reachable(o) /\ book'[o] = book[o]
      BY <1>2, <2>1, <2>5
    <3>2. ~ \E j \in DOMAIN feed : feed[j].order = o /\ feed[j].now = book[o]
      BY <2>1, <2>5, <3>1
    <3> QED
      BY <2>1, <3>1, <3>2 DEF Reachable, Reach
  <2> QED
    BY <2>1, <2>3, <2>4, <2>5 DEF ConvInv, Reachable
<1>8. CASE OrderTradeUpdate
  <2>1. UNCHANGED <<book, missed, up, snap, current>>
    BY <1>8 DEF OrderTradeUpdate
  <2>2. \A o \in Orders : Reachable(o) => Now(o)
    BY <1>8, ReachableTaken
  <2> QED
    BY <1>2, <2>1, <2>2 DEF ConvInv, Reachable
<1>9. CASE OpenOrdersTaken
  <2> DEFINE W == {x \in Orders : book[x].status = "WORKING"}
             t == [fresh |-> up, now |-> [o \in W |-> book[o]]]
  <2>1. snap' = {t} /\ UNCHANGED <<book, missed, up, feed, current>>
    BY <1>9 DEF OpenOrdersTaken
  <2>2. ASSUME NEW o \in Orders \ missed
        PROVE  Reachable(o) \/ Listed(o, t, book[o])
    <3>1. book[o].status \in {"ABSENT", "WORKING", "CLOSED"}
      BY <1>1 DEF State
    <3>2. CASE book[o].status = "WORKING"
      BY <3>2 DEF Listed
    <3>3. CASE book[o].status = "ABSENT"
      BY <3>3, AbsentReachable DEF KnownInv
    <3>4. CASE book[o].status = "CLOSED"
      BY <1>2, <3>4
    <3> QED
      BY <3>1, <3>2, <3>3, <3>4
  <2>3. t.fresh = up
    OBVIOUS
  <2> HIDE DEF t
  <2> QED
    BY <1>2, <1>3, <2>1, <2>2, <2>3 DEF ConvInv, Reachable
<1>10. CASE OpenOrdersAck
  <2>1. PICK s \in snap :
          /\ view' = [o \in Orders |-> IF o \in DOMAIN s.now THEN Later(view[o], s.now[o]) ELSE view[o]]
          /\ current' = IF s.fresh THEN current \cup {"OPEN_ORDERS"} ELSE current
    BY <1>10 DEF OpenOrdersAck
  <2>2. snap' = {} /\ UNCHANGED <<book, missed, up, feed>>
    BY <1>10 DEF OpenOrdersAck
  <2>3. ASSUME NEW o \in Orders, Listed(o, s, book[o])
        PROVE  Now(o)
    <3>1. /\ view[o] \in State /\ book[o] \in State
          /\ Older(book[o], book[o]) /\ Older(view[o], book[o])
      BY OlderSelf DEF KnownInv, ViewInv, BookInv
    <3>2. view'[o] = Later(view[o], book[o])
      BY <2>1, <2>3 DEF Listed
    <3>3. view'[o] = book[o]
      BY <3>1, <3>2, LaterKnown
    <3> QED
      BY <2>2, <3>3 DEF Reach
  <2> QED
    BY <1>2, <1>3, <2>1, <2>2, <2>3 DEF ConvInv, Reachable
<1>11. CASE OpenOrdersError
  <2>1. snap' = {} /\ UNCHANGED <<book, missed, up, feed, current>>
    BY <1>11 DEF OpenOrdersError
  <2> QED
    BY <1>2, <1>3, <2>1 DEF ConvInv, Reachable
<1>12. CASE UserTradesAck
  <2>1. current' = current \cup {"USER_TRADES"} /\ UNCHANGED <<book, missed, up, feed, snap>>
    BY <1>12 DEF UserTradesAck
  <2> QED
    BY <1>2, <1>3, <2>1 DEF ConvInv, Reachable
<1> QED
  BY <1>4, <1>5, <1>6, <1>7, <1>8, <1>9, <1>10, <1>11, <1>12, ConvSources

\* When nothing is on its way on a stream whose snapshot was taken, a client
\* that keeps the latest update has every order right, but those that closed
\* while there was no stream.
THEOREM LatestIsRight == Spec => []ViewConverges
<1>1. KnownInv /\ ConvInv => ViewConverges
  <2> SUFFICES ASSUME KnownInv, ConvInv, "OPEN_ORDERS" \in current, feed = <<>>,
                      NEW o \in Orders \ missed
               PROVE  view[o] = book[o]
    BY DEF ViewConverges
  <2>1. Reachable(o) /\ DOMAIN feed = {}
    BY DEF ConvInv
  <2> QED
    BY <2>1 DEF Reachable, Reach
<1>2. KnownInv /\ AskedInv /\ ConvInv /\ [Next]_vars => ConvInv'
  BY ConvStep
<1> QED
  BY <1>1, <1>2, KnownInit, KnownStep, ConvInit, PTL DEF Spec

----------------------------------------------------------------------------
(* Clients that wait *)

Outstanding(r) == \E c \in Connections : \E j \in DOMAIN wire[c] : wire[c][j].req = r

WaitInv ==
  /\ open \subseteq Requests /\ refused \subseteq Requests
  /\ \A r \in open : Outstanding(r) \/ r \in refused

LEMMA InFlightMeans ==
  ASSUME NEW r
  PROVE  r \in InFlight <=> Outstanding(r)
<1>1. ASSUME r \in InFlight PROVE Outstanding(r)
  BY <1>1 DEF InFlight, Outstanding
<1>2. ASSUME NEW c \in Connections, NEW j \in DOMAIN wire[c], wire[c][j].req = r
      PROVE  r \in InFlight
  <2>1. wire[c][j] \in {wire[c][i] : i \in DOMAIN wire[c]}
    OBVIOUS
  <2>2. wire[c][j] \in UNION {{wire[d][i] : i \in DOMAIN wire[d]} : d \in Connections}
    BY <2>1
  <2> QED
    BY <1>2, <2>2 DEF InFlight
<1> QED
  BY <1>1, <1>2 DEF Outstanding

\* Requests that are sent are outstanding, and so are those that were.
LEMMA SentOutstanding ==
  ASSUME WireInv, NEW c \in Connections, NEW requests \in Seq(Requests \cup CancelAlls),
         Send(c, requests)
  PROVE  /\ \A r : Outstanding(r) => \E d \in Connections : \E h \in DOMAIN wire'[d] : wire'[d][h].req = r
         /\ \A j \in DOMAIN requests :
              \E d \in Connections : \E h \in DOMAIN wire'[d] : wire'[d][h].req = requests[j]
<1> DEFINE f == [j \in DOMAIN requests |->
                   [req |-> requests[j], ans |-> "PENDING", seen |-> Absent]]
<1>1. wire' = [wire EXCEPT ![c] = @ \o f] /\ wire \in [Connections -> Seq(Entries)]
  BY DEF Send, WireInv
<1>2. \A j \in DOMAIN requests : f[j] \in Entries /\ f[j].req = requests[j]
  BY AbsentState DEF Entries, Answers
<1>3. f \in [DOMAIN requests -> Entries] /\ DOMAIN f = DOMAIN requests
  BY <1>2
<1> HIDE DEF f
<1>4. f \in Seq(Entries) /\ wire[c] \in Seq(Entries)
  BY <1>1, <1>3, MappedElements
<1>5. /\ \A j \in DOMAIN wire[c] : j \in DOMAIN (wire[c] \o f) /\ (wire[c] \o f)[j] = wire[c][j]
      /\ \A j \in DOMAIN f : /\ Len(wire[c]) + j \in DOMAIN (wire[c] \o f)
                             /\ (wire[c] \o f)[Len(wire[c]) + j] = f[j]
  <2> HIDE DEF Entries
  <2> QED
    BY <1>4
<1>6. ASSUME NEW d \in Connections, NEW j \in DOMAIN wire[d]
      PROVE  j \in DOMAIN wire'[d] /\ wire'[d][j] = wire[d][j]
  BY <1>1, <1>5
<1>7. ASSUME NEW j \in DOMAIN requests
      PROVE  \E h \in DOMAIN wire'[c] : wire'[c][h].req = requests[j]
  <2>1. Len(wire[c]) + j \in DOMAIN wire'[c] /\ wire'[c][Len(wire[c]) + j] = f[j]
    BY <1>1, <1>3, <1>5
  <2> QED
    BY <1>2, <2>1
<1>8. ASSUME NEW r, Outstanding(r)
      PROVE  \E d \in Connections : \E j \in DOMAIN wire'[d] : wire'[d][j].req = r
  <2>1. PICK d \in Connections : \E j \in DOMAIN wire[d] : wire[d][j].req = r
    BY <1>8 DEF Outstanding
  <2>2. PICK j \in DOMAIN wire[d] : wire[d][j].req = r
    BY <2>1
  <2> QED
    BY <1>6, <2>2
<1> QED
  BY <1>7, <1>8 DEF Outstanding

\* An answer leaves its request outstanding.
LEMMA AnsweredOutstanding ==
  ASSUME WireInv, NEW c \in Connections, NEW i \in DOMAIN wire[c], NEW ans, Answer(c, i, ans),
         NEW r, Outstanding(r)
  PROVE  \E d \in Connections : \E j \in DOMAIN wire'[d] : wire'[d][j].req = r
<1>1. PICK d \in Connections : \E j \in DOMAIN wire[d] : wire[d][j].req = r
  BY DEF Outstanding
<1>2. PICK j \in DOMAIN wire[d] : wire[d][j].req = r
  BY <1>1
<1> DEFINE n == [req |-> wire[c][i].req, ans |-> ans,
                 seen |-> IF ans = "OK" /\ wire[c][i].req.kind # "CANCEL_ALL"
                          THEN book'[wire[c][i].req.order] ELSE Absent]
<1>3. wire' = [wire EXCEPT ![c] = [wire[c] EXCEPT ![i] = n]] /\ wire \in [Connections -> Seq(Entries)]
  BY DEF Answer, WireInv
<1>4. n.req = wire[c][i].req
  OBVIOUS
<1> HIDE DEF n
<1>5. DOMAIN wire'[d] = DOMAIN wire[d]
      /\ (wire'[d][j] = wire[d][j] \/ (d = c /\ j = i /\ wire'[d][j] = n))
  BY <1>2, <1>3
<1> QED
  BY <1>2, <1>4, <1>5

\* What is answered on a pipeline leaves it, and nothing else does.
LEMMA OthersOutstanding ==
  ASSUME WireInv, NEW c \in Connections, wire[c] # <<>>,
         wire' = [wire EXCEPT ![c] = Tail(wire[c])],
         NEW r, Outstanding(r), r # wire[c][1].req
  PROVE  \E d \in Connections : \E j \in DOMAIN wire'[d] : wire'[d][j].req = r
<1>1. PICK d \in Connections : \E j \in DOMAIN wire[d] : wire[d][j].req = r
  BY DEF Outstanding
<1>2. PICK j \in DOMAIN wire[d] : wire[d][j].req = r
  BY <1>1
<1>3. wire \in [Connections -> Seq(Entries)] /\ wire[c] \in Seq(Entries)
  BY DEF WireInv
<1>4. CASE d # c
  BY <1>2, <1>3, <1>4
<1>5. CASE d = c
  <2>1. j # 1
    BY <1>2, <1>5
  <2>2. j - 1 \in DOMAIN Tail(wire[c]) /\ Tail(wire[c])[j - 1] = wire[c][j]
    <3> HIDE DEF Entries
    <3> QED
      BY <1>2, <1>3, <1>5, <2>1
  <2> QED
    BY <1>2, <1>3, <1>5, <2>2
<1> QED
  BY <1>4, <1>5

LEMMA WaitStep ==
  ASSUME KnownInv, AskedInv, WaitInv, [Next]_vars
  PROVE  WaitInv'
<1> DEFINE Out(r) == \E d \in Connections : \E j \in DOMAIN wire'[d] : wire'[d][j].req = r
<1>1. /\ WireInv /\ open \subseteq Requests /\ refused \subseteq Requests
      /\ \A r \in open : Outstanding(r) \/ r \in refused
  BY DEF KnownInv, WaitInv
<1>2. CASE UNCHANGED <<wire, open, refused>>
  BY <1>1, <1>2 DEF WaitInv, Outstanding
<1>3. ASSUME NEW o \in Orders, NEW kind \in {"CREATE", "MODIFY", "CANCEL"}, NEW named \in BOOLEAN,
             Ask(kind, o, named)
      PROVE  WaitInv'
  <2> DEFINE r == [kind |-> kind, order |-> o, version |-> asked[o] + 1, named |-> named]
  <2>1. PICK c \in Connections : Send(c, <<r>>)
    BY <1>3 DEF Ask
  <2>2. open' = open \cup {r} /\ UNCHANGED refused /\ asked[o] + 1 \in Nat
    BY <1>3 DEF Ask, AskedInv
  <2>3. r \in Requests
    BY <2>2 DEF Requests
  <2> HIDE DEF r
  <2>4. <<r>> \in Seq(Requests \cup CancelAlls) /\ 1 \in DOMAIN <<r>> /\ <<r>>[1] = r
    BY <2>3
  <2>5. Out(r) /\ \A q : Outstanding(q) => Out(q)
    BY <1>1, <2>1, <2>4, SentOutstanding
  <2> QED
    BY <1>1, <2>2, <2>3, <2>5 DEF WaitInv, Outstanding
<1>4. ASSUME NEW o \in Orders, CreateOrder(o) \/ ModifyOrder(o) \/ CancelOrder(o)
      PROVE  WaitInv'
  <2>1. Named(o) \in BOOLEAN
    BY DEF Named
  <2> QED
    BY <1>3, <1>4, <2>1 DEF CreateOrder, ModifyOrder, CancelOrder
<1>5. ASSUME NEW selected, CancelAllOrders(selected)
      PROVE  WaitInv'
  <2> DEFINE known == {SymbolOf[o] : o \in {x \in Orders : asked[x] > 0}}
  <2>1. PICK symbols \in {known \cap selected}, c \in Connections :
          \E q \in [1 .. Cardinality(symbols) -> [kind : {"CANCEL_ALL"}, symbol : symbols]] :
            Send(c, q)
    BY <1>5 DEF CancelAllOrders
  <2>2. PICK q \in [1 .. Cardinality(symbols) -> [kind : {"CANCEL_ALL"}, symbol : symbols]] :
          Send(c, q)
    BY <2>1
  <2>3. known \subseteq Symbols
    BY OrdersAssumption
  <2>4. symbols \subseteq Symbols
    BY <2>3
  <2>5. Cardinality(symbols) \in Nat
    BY <2>4, OrdersAssumption, FS_Subset, FS_CardinalityType
  <2>6. q \in [1 .. Cardinality(symbols) -> Requests \cup CancelAlls]
    BY <2>4 DEF CancelAlls
  <2> HIDE DEF known
  <2>7. q \in Seq(Requests \cup CancelAlls)
    BY <2>5, <2>6
  <2>8. \A r : Outstanding(r) => Out(r)
    BY <1>1, <2>2, <2>7, SentOutstanding
  <2>9. UNCHANGED <<open, refused>>
    BY <1>5 DEF CancelAllOrders, client
  <2> QED
    BY <1>1, <2>8, <2>9 DEF WaitInv, Outstanding
<1>6. ASSUME NEW c \in Connections, CarryOut(c) \/ Refuse(c)
      PROVE  WaitInv'
  <2>1. PICK i \in 1 .. Len(wire[c]), ans \in Answers : Unanswered(c, i) /\ Answer(c, i, ans)
    BY <1>6 DEF CarryOut, Refuse, Answers
  <2>2. i \in DOMAIN wire[c] /\ UNCHANGED <<open, refused>>
    BY <1>6, <2>1 DEF Unanswered, CarryOut, Refuse, client
  <2>3. \A r : Outstanding(r) => Out(r)
    BY <1>1, <2>1, <2>2, AnsweredOutstanding
  <2> QED
    BY <1>1, <2>2, <2>3 DEF WaitInv, Outstanding
<1>7. ASSUME NEW c \in Connections, NEW kind \in {"CREATE", "MODIFY", "CANCEL"}, OrderAckOf(c, kind)
      PROVE  WaitInv'
  <2> DEFINE e == wire[c][1]
  <2>1. /\ wire[c] # <<>> /\ wire' = [wire EXCEPT ![c] = Tail(wire[c])]
        /\ e.ans # "PENDING" /\ e.req.kind = kind
        /\ open' = IF Outcome(e.ans) = "SILENCE" THEN open ELSE open \ {e.req}
        /\ refused' = IF e.ans = "REFUSED" THEN refused \cup {e.req} ELSE refused
    BY <1>7 DEF OrderAckOf, Answered
  <2>2. wire[c] \in Seq(Entries) /\ 1 \in DOMAIN wire[c]
    BY <1>1, <2>1, WireParts
  <2>3. e \in Entries
    BY <1>1, <2>2, WireParts
  <2>4. e.req \in Requests /\ e.ans \in Answers
    BY <2>1, <2>3, EntryParts
  <2>5. Outcome(e.ans) = "SILENCE" => e.ans = "REFUSED"
    BY <2>1, <2>4 DEF Outcome, Answers
  <2>6. \A r : Outstanding(r) /\ r # e.req => Out(r)
    BY <1>1, <2>1, OthersOutstanding
  <2> HIDE DEF e
  <2> QED
    BY <1>1, <2>1, <2>4, <2>5, <2>6 DEF WaitInv, Outstanding
<1>8. ASSUME NEW c \in Connections, CancelAllOrdersAck(c)
      PROVE  WaitInv'
  <2>1. /\ wire[c] # <<>> /\ wire' = [wire EXCEPT ![c] = Tail(wire[c])]
        /\ wire[c][1].req.kind = "CANCEL_ALL" /\ UNCHANGED <<open, refused>>
    BY <1>8 DEF CancelAllOrdersAck, Answered
  <2>2. \A r : Outstanding(r) /\ r # wire[c][1].req => Out(r)
    BY <1>1, <2>1, OthersOutstanding
  <2>3. \A r \in open : r # wire[c][1].req
    BY <1>1, <2>1 DEF Requests
  <2> QED
    BY <1>1, <2>1, <2>2, <2>3 DEF WaitInv, Outstanding
<1>9. ASSUME NEW c \in Connections, Disconnected(c)
      PROVE  WaitInv'
  <2>1. /\ wire' = [wire EXCEPT ![c] = <<>>] /\ UNCHANGED refused
        /\ open' = open \ {wire[c][j].req : j \in DOMAIN wire[c]}
        /\ wire \in [Connections -> Seq(Entries)]
    BY <1>1, <1>9 DEF Disconnected, WireInv
  <2>2. ASSUME NEW r \in open', Outstanding(r)
        PROVE  Out(r)
    <3>1. PICK d \in Connections : \E j \in DOMAIN wire[d] : wire[d][j].req = r
      BY <2>2 DEF Outstanding
    <3>2. PICK j \in DOMAIN wire[d] : wire[d][j].req = r
      BY <3>1
    <3>3. d # c
      BY <2>1, <3>2
    <3> QED
      BY <2>1, <3>2, <3>3
  <2> QED
    BY <1>1, <2>1, <2>2 DEF WaitInv, Outstanding
<1>10. ASSUME NEW c \in Connections, OrderAck(c)
       PROVE  WaitInv'
  BY <1>7, <1>8, <1>10 DEF OrderAck, PlaceOrderAck, ModifyOrderAck, CancelOrderAck
<1>11. ASSUME NEW o \in Orders, Fill(o) \/ Expire(o)
       PROVE  WaitInv'
  BY <1>2, <1>11 DEF Fill, Expire, client
<1>12. ASSUME NEW c \in Connections, Connected(c)
       PROVE  WaitInv'
  BY <1>2, <1>12 DEF Connected, client
<1>13. CASE \/ StreamUp \/ StreamDown \/ OrderTradeUpdate
            \/ OpenOrdersTaken \/ OpenOrdersAck \/ OpenOrdersError \/ UserTradesAck
  BY <1>2, <1>13 DEF StreamUp, StreamDown, OrderTradeUpdate, OpenOrdersTaken,
                     OpenOrdersAck, OpenOrdersError, UserTradesAck, client
<1>14. CASE UNCHANGED vars
  BY <1>2, <1>14 DEF vars, client
<1> QED
  BY <1>4, <1>5, <1>6, <1>9, <1>10, <1>11, <1>12, <1>13, <1>14 DEF Next

\* A client waits only for requests that are on a connection, or that were
\* refused with a 4xx the gateway swallows: nothing else is forgotten, whatever
\* connections are lost with however many requests on them.
THEOREM OnlyRefusedWait == Spec => []OnlyRefusedForgotten
<1>1. Init => WaitInv
  BY DEF Init, WaitInv
<1>2. WaitInv => OnlyRefusedForgotten
  BY InFlightMeans DEF WaitInv, OnlyRefusedForgotten
<1>3. KnownInv /\ AskedInv /\ WaitInv /\ [Next]_vars => WaitInv'
  BY WaitStep
<1> QED
  BY <1>1, <1>2, <1>3, KnownInit, KnownStep, PTL DEF Spec

----------------------------------------------------------------------------
(* Types *)

RestInv ==
  /\ downs \in Nat
  /\ current \subseteq {"OPEN_ORDERS", "USER_TRADES"}
  /\ missed \subseteq Orders
  /\ \A v \in verdicts : v.told \in {"REJECTED", "NOTHING"}

LEMMA RestStep ==
  ASSUME KnownInv, RestInv, [Next]_vars
  PROVE  RestInv'
<1>1. CASE UNCHANGED <<downs, current, missed, verdicts>>
  BY <1>1 DEF RestInv
<1>2. ASSUME NEW changes, Sane(changes), Update(changes), UNCHANGED verdicts
      PROVE  RestInv'
  BY <1>2 DEF Update, Sane, RestInv
<1>3. ASSUME NEW o \in Orders, CreateOrder(o) \/ ModifyOrder(o) \/ CancelOrder(o)
      PROVE  UNCHANGED <<downs, current, missed, verdicts>>
  BY <1>3 DEF CreateOrder, ModifyOrder, CancelOrder, Ask, stream
<1>4. ASSUME NEW selected, CancelAllOrders(selected)
      PROVE  UNCHANGED <<downs, current, missed, verdicts>>
  BY <1>4 DEF CancelAllOrders, stream, client
<1>5. ASSUME NEW c \in Connections, CarryOut(c)
      PROVE  RestInv'
  BY <1>2, <1>5, UpdateSane DEF KnownInv, client
<1>6. ASSUME NEW o \in Orders, Fill(o) \/ Expire(o)
      PROVE  RestInv'
  BY <1>2, <1>6, UpdateSane DEF KnownInv, client
<1>7. ASSUME NEW c \in Connections, NEW kind, Refuse(c) \/ OrderAckOf(c, kind) \/ Connected(c)
      PROVE  UNCHANGED <<downs, current, missed, verdicts>>
  BY <1>7 DEF Refuse, OrderAckOf, Connected, stream, client
<1>8. ASSUME NEW c \in Connections, CancelAllOrdersAck(c) \/ Disconnected(c)
      PROVE  RestInv'
  <2>1. CancelAllReported("ERROR") = "REJECTED"
    BY DEF CancelAllReported
  <2>2. \A x : CancelAllReported(x) \in {"REJECTED", "NOTHING"}
    BY DEF CancelAllReported
  <2>3. UNCHANGED <<downs, current, missed>>
    BY <1>8 DEF CancelAllOrdersAck, Disconnected, stream
  <2>4. \A v \in verdicts' : v.told \in {"REJECTED", "NOTHING"}
    BY <1>8, <2>1, <2>2 DEF CancelAllOrdersAck, Disconnected, RestInv
  <2> QED
    BY <2>3, <2>4 DEF RestInv
<1>9. ASSUME NEW c \in Connections, OrderAck(c)
      PROVE  RestInv'
  BY <1>1, <1>7, <1>8, <1>9 DEF OrderAck, PlaceOrderAck, ModifyOrderAck, CancelOrderAck
<1>10. CASE StreamDown
  <2>1. ASSUME NEW j \in DOMAIN feed PROVE feed[j].order \in Orders
    <3>1. feed[j] \in Events
      BY DEF KnownInv, FeedInv
    <3> QED
      BY <3>1 DEF Events
  <2> QED
    BY <1>10, <2>1 DEF StreamDown, RestInv, client
<1>11. CASE StreamUp \/ OrderTradeUpdate \/ OpenOrdersTaken \/ OpenOrdersError
  BY <1>11 DEF StreamUp, OrderTradeUpdate, OpenOrdersTaken, OpenOrdersError, RestInv, client
<1>12. CASE OpenOrdersAck \/ UserTradesAck
  BY <1>12 DEF OpenOrdersAck, UserTradesAck, RestInv, client
<1>13. CASE UNCHANGED vars
  BY <1>1, <1>13 DEF vars, stream, client
<1> QED
  BY <1>1, <1>3, <1>4, <1>5, <1>6, <1>7, <1>8, <1>9, <1>10, <1>11, <1>12, <1>13 DEF Next

\* An order is never published as filled for more than was traded.
LEMMA ReportedRange ==
  ASSUME KnownInv, FillInv
  PROVE  reported \in [Orders -> 0 .. Lots]
<1>1. ASSUME NEW o \in Orders PROVE reported[o] \in 0 .. Lots
  <2>1. /\ reported[o] \in Nat /\ reported[o] <= book[o].executed
        /\ book[o].executed \in 0 .. Lots
    BY DEF KnownInv, BookInv, FillInv, Fills, State
  <2> QED
    BY <2>1, LotsAssumption
<1> QED
  BY <1>1 DEF FillInv, Fills

\* Every variable stays in its domain.
THEOREM TypeCorrect == Spec => []TypeOK
<1>1. Init => RoutingInv /\ FillInv /\ WaitInv /\ RestInv
  <2> SUFFICES ASSUME Init PROVE RoutingInv /\ FillInv /\ WaitInv /\ RestInv
    OBVIOUS
  <2>1. RoutingInv
    BY ConnectionsAssumption DEF Init, RoutingInv, Connections
  <2>2. WaitInv /\ RestInv
    BY DEF Init, WaitInv, RestInv
  <2>3. FillInv
    BY DEF Init, FillInv, Fills, Absent
  <2> QED
    BY <2>1, <2>2, <2>3
<1>2. KnownInv /\ AskedInv /\ RoutingInv /\ FillInv /\ WaitInv /\ RestInv /\ [Next]_vars
        => RoutingInv' /\ FillInv' /\ WaitInv' /\ RestInv'
  BY RoutingStep, FillStep, WaitStep, RestStep
<1>3. KnownInv /\ AskedInv /\ RoutingInv /\ FillInv /\ WaitInv /\ RestInv => TypeOK
  <2> SUFFICES ASSUME KnownInv, AskedInv, RoutingInv, FillInv, WaitInv, RestInv
               PROVE  TypeOK
    OBVIOUS
  <2>1. wire \in [Connections -> Seq(Entries)] /\ book \in [Orders -> State] /\ view \in [Orders -> State]
    BY DEF KnownInv, WireInv, BookInv, ViewInv
  <2>2. up \in BOOLEAN /\ feed \in Seq([order : Orders, now : State, trade : BOOLEAN])
    BY DEF KnownInv, FeedInv, Events
  <2>3. \A s \in snap : /\ s.fresh \in BOOLEAN /\ DOMAIN s.now \subseteq Orders
                        /\ \A o \in DOMAIN s.now : s.now[o] \in State
    BY DEF KnownInv, SnapInv, Snapshots
  <2> QED
    BY <2>1, <2>2, <2>3, ReportedRange DEF TypeOK, AskedInv, RoutingInv, WaitInv, RestInv
<1> QED
  BY <1>1, <1>2, <1>3, KnownInit, KnownStep, PTL DEF Spec
----------------------------------------------------------------------------
(* What a client sees of an order *)

\* What may happen to the pipelines.
LEMMA WireSources ==
  ASSUME KnownInv, AskedInv, [Next]_vars
  PROVE  \/ UNCHANGED wire
         \/ \E c \in Connections, requests \in Seq(Requests \cup CancelAlls) : Send(c, requests)
         \/ \E c \in Connections, ans \in Answers : \E i \in DOMAIN wire[c] : Answer(c, i, ans)
         \/ \E c \in Connections : wire[c] # <<>> /\ wire' = [wire EXCEPT ![c] = Tail(wire[c])]
         \/ \E c \in Connections : wire' = [wire EXCEPT ![c] = <<>>]
<1> DEFINE Sent == \E c \in Connections, requests \in Seq(Requests \cup CancelAlls) : Send(c, requests)
<1>1. ASSUME NEW o \in Orders, CreateOrder(o) \/ ModifyOrder(o) \/ CancelOrder(o)
      PROVE  Sent
  <2>1. PICK kind \in {"CREATE", "MODIFY", "CANCEL"}, named \in BOOLEAN : Ask(kind, o, named)
    BY <1>1 DEF CreateOrder, ModifyOrder, CancelOrder, Named
  <2> DEFINE r == [kind |-> kind, order |-> o, version |-> asked[o] + 1, named |-> named]
  <2>2. PICK c \in Connections : Send(c, <<r>>)
    BY <2>1 DEF Ask
  <2>3. r \in Requests
    BY DEF Requests, AskedInv
  <2> HIDE DEF r
  <2>4. <<r>> \in Seq(Requests \cup CancelAlls)
    BY <2>3
  <2> QED
    BY <2>2, <2>4
<1>2. ASSUME NEW selected, CancelAllOrders(selected)
      PROVE  Sent
  <2> DEFINE known == {SymbolOf[o] : o \in {x \in Orders : asked[x] > 0}}
  <2>1. PICK symbols \in {known \cap selected}, c \in Connections :
          \E q \in [1 .. Cardinality(symbols) -> [kind : {"CANCEL_ALL"}, symbol : symbols]] :
            Send(c, q)
    BY <1>2 DEF CancelAllOrders
  <2>2. PICK q \in [1 .. Cardinality(symbols) -> [kind : {"CANCEL_ALL"}, symbol : symbols]] :
          Send(c, q)
    BY <2>1
  <2>3. known \subseteq Symbols
    BY OrdersAssumption
  <2>4. symbols \subseteq Symbols
    BY <2>3
  <2>5. Cardinality(symbols) \in Nat
    BY <2>4, OrdersAssumption, FS_Subset, FS_CardinalityType
  <2>6. q \in [1 .. Cardinality(symbols) -> Requests \cup CancelAlls]
    BY <2>4 DEF CancelAlls
  <2> HIDE DEF known
  <2>7. q \in Seq(Requests \cup CancelAlls)
    BY <2>5, <2>6
  <2> QED
    BY <2>2, <2>7
<1>3. ASSUME NEW c \in Connections, CarryOut(c) \/ Refuse(c)
      PROVE  \E ans \in Answers : \E i \in DOMAIN wire[c] : Answer(c, i, ans)
  <2>1. PICK i \in 1 .. Len(wire[c]), ans \in Answers : Unanswered(c, i) /\ Answer(c, i, ans)
    BY <1>3 DEF CarryOut, Refuse, Answers
  <2> QED
    BY <2>1 DEF Unanswered
<1>4. ASSUME NEW c \in Connections, OrderAck(c)
      PROVE  wire[c] # <<>> /\ wire' = [wire EXCEPT ![c] = Tail(wire[c])]
  BY <1>4 DEF OrderAck, PlaceOrderAck, ModifyOrderAck, CancelOrderAck, OrderAckOf,
              CancelAllOrdersAck, Answered
<1>5. ASSUME NEW c \in Connections, Disconnected(c)
      PROVE  wire' = [wire EXCEPT ![c] = <<>>]
  BY <1>5 DEF Disconnected
<1>6. ASSUME NEW o \in Orders, Fill(o) \/ Expire(o)
      PROVE  UNCHANGED wire
  BY <1>6 DEF Fill, Expire
<1>7. ASSUME NEW c \in Connections, Connected(c)
      PROVE  UNCHANGED wire
  BY <1>7 DEF Connected
<1>8. CASE \/ StreamUp \/ StreamDown \/ OrderTradeUpdate
           \/ OpenOrdersTaken \/ OpenOrdersAck \/ OpenOrdersError \/ UserTradesAck
  BY <1>8 DEF StreamUp, StreamDown, OrderTradeUpdate, OpenOrdersTaken,
              OpenOrdersAck, OpenOrdersError, UserTradesAck
<1>9. CASE UNCHANGED vars
  BY <1>9 DEF vars
<1> QED
  BY <1>1, <1>2, <1>3, <1>4, <1>5, <1>6, <1>7, <1>8, <1>9 DEF Next

\* An answer on a pipeline was there before the step, or tells of the order as
\* it is now.
LEMMA WireNews ==
  ASSUME KnownInv, AskedInv, [Next]_vars, NEW o \in Orders, NEW s, WireTells(wire', o, s)
  PROVE  WireTells(wire, o, s) \/ s = book'[o]
<1> DEFINE Goal    == WireTells(wire, o, s) \/ s = book'[o]
           Says(e) == /\ e.ans = "OK" /\ e.req.kind # "CANCEL_ALL"
                      /\ e.req.order = o /\ e.seen = s
<1>1. PICK d \in Connections : \E j \in DOMAIN wire'[d] : Says(wire'[d][j])
  BY DEF WireTells
<1>2. PICK j \in DOMAIN wire'[d] : Says(wire'[d][j])
  BY <1>1
<1>3. wire \in [Connections -> Seq(Entries)] /\ wire[d] \in Seq(Entries)
  BY DEF KnownInv, WireInv
<1>4. ASSUME NEW h \in DOMAIN wire[d], wire'[d][j] = wire[d][h]
      PROVE  Goal
  BY <1>2, <1>4 DEF WireTells
<1>5. ASSUME wire'[d] = wire[d]
      PROVE  Goal
  BY <1>2, <1>4, <1>5
<1>6. ASSUME NEW c \in Connections, NEW requests \in Seq(Requests \cup CancelAlls), Send(c, requests)
      PROVE  Goal
  <2> DEFINE f == [i \in DOMAIN requests |->
                     [req |-> requests[i], ans |-> "PENDING", seen |-> Absent]]
  <2>1. wire' = [wire EXCEPT ![c] = @ \o f]
    BY <1>6 DEF Send
  <2>2. \A i \in DOMAIN requests : f[i] \in Entries /\ f[i].ans = "PENDING"
    BY AbsentState DEF Entries, Answers
  <2>3. f \in [DOMAIN requests -> Entries] /\ DOMAIN f = DOMAIN requests
    BY <2>2
  <2> HIDE DEF f
  <2>4. f \in Seq(Entries)
    BY <2>3, MappedElements
  <2>5. CASE d = c
    <3>1. wire'[d] = wire[d] \o f
      BY <1>3, <2>1, <2>5
    <3>2. \/ j \in DOMAIN wire[d] /\ wire'[d][j] = wire[d][j]
          \/ j - Len(wire[d]) \in DOMAIN f /\ wire'[d][j] = f[j - Len(wire[d])]
      BY <1>2, <1>3, <2>4, <3>1, JoinedElements
    <3> QED
      BY <1>2, <1>4, <2>2, <2>3, <3>2
  <2>6. CASE d # c
    BY <1>3, <1>5, <2>1, <2>6
  <2> QED
    BY <2>5, <2>6
<1>7. ASSUME NEW c \in Connections, NEW ans \in Answers, NEW i \in DOMAIN wire[c], Answer(c, i, ans)
      PROVE  Goal
  <2> DEFINE r == wire[c][i].req
             n == [req |-> r, ans |-> ans,
                   seen |-> IF ans = "OK" /\ r.kind # "CANCEL_ALL" THEN book'[r.order] ELSE Absent]
  <2>1. wire' = [wire EXCEPT ![c] = [wire[c] EXCEPT ![i] = n]]
    BY <1>3, <1>7 DEF Answer
  <2>2. Says(n) => s = book'[o]
    OBVIOUS
  <2> HIDE DEF n, Says
  <2>3. CASE d = c /\ j = i
    BY <1>2, <1>3, <2>1, <2>2, <2>3
  <2>4. CASE ~(d = c /\ j = i)
    BY <1>2, <1>3, <1>4, <2>1, <2>4
  <2> QED
    BY <2>3, <2>4
<1>8. ASSUME NEW c \in Connections, wire[c] # <<>>, wire' = [wire EXCEPT ![c] = Tail(wire[c])]
      PROVE  Goal
  <2>1. CASE d = c
    <3>1. wire'[d] = Tail(wire[d])
      BY <1>3, <1>8, <2>1
    <3>2. j + 1 \in DOMAIN wire[d] /\ wire'[d][j] = wire[d][j + 1]
      BY <1>2, <1>3, <1>8, <2>1, <3>1, TailElements
    <3> QED
      BY <1>4, <3>2
  <2>2. CASE d # c
    BY <1>3, <1>5, <1>8, <2>2
  <2> QED
    BY <2>1, <2>2
<1>9. ASSUME NEW c \in Connections, wire' = [wire EXCEPT ![c] = <<>>]
      PROVE  Goal
  BY <1>2, <1>3, <1>5, <1>9
<1> QED
  BY <1>5, <1>6, <1>7, <1>8, <1>9, WireSources

\* So does an event, and a snapshot.
LEMMA FeedNews ==
  ASSUME KnownInv, [Next]_vars, NEW o \in Orders, NEW s, FeedTells(feed', o, s)
  PROVE  FeedTells(feed, o, s) \/ s = book'[o]
<1>1. PICK j \in DOMAIN feed' : feed'[j].order = o /\ feed'[j].now = s
  BY DEF FeedTells
<1>2. book \in [Orders -> State] /\ feed \in Seq(Events) /\ up \in BOOLEAN
  BY DEF KnownInv, BookInv, FeedInv
<1>3. CASE UNCHANGED feed
  BY <1>1, <1>3 DEF FeedTells
<1>4. ASSUME NEW changes, Sane(changes), Update(changes)
      PROVE  FeedTells(feed, o, s) \/ s = book'[o]
  <2>1. \/ j \in DOMAIN feed /\ feed'[j] = feed[j]
        \/ feed'[j].order \in DOMAIN changes /\ feed'[j].now = changes[feed'[j].order]
    BY <1>2, <1>4, UpdateFeed
  <2>2. o \in DOMAIN changes => book'[o] = changes[o]
    BY <1>4, UpdateBook DEF KnownInv, BookInv
  <2> QED
    BY <1>1, <2>1, <2>2 DEF FeedTells
<1>5. CASE StreamDown
  BY <1>1, <1>5 DEF StreamDown
<1>6. CASE OrderTradeUpdate
  <2>1. feed # <<>> /\ feed' = Tail(feed)
    BY <1>6 DEF OrderTradeUpdate
  <2> HIDE DEF Events
  <2>2. j + 1 \in DOMAIN feed /\ feed'[j] = feed[j + 1]
    BY <1>1, <1>2, <2>1, TailElements
  <2> QED
    BY <1>1, <2>2 DEF FeedTells
<1> QED
  BY <1>3, <1>4, <1>5, <1>6, FeedSources

LEMMA SnapNews ==
  ASSUME KnownInv, [Next]_vars, NEW o \in Orders, NEW s, SnapTells(snap', o, s)
  PROVE  SnapTells(snap, o, s) \/ s = book'[o]
<1>1. PICK t \in snap' : o \in DOMAIN t.now /\ t.now[o] = s
  BY DEF SnapTells
<1>2. CASE UNCHANGED snap
  BY <1>1, <1>2 DEF SnapTells
<1>3. CASE StreamDown
  <2>1. PICK u \in snap : t = [u EXCEPT !.fresh = FALSE]
    BY <1>1, <1>3 DEF StreamDown
  <2>2. t.now = u.now
    BY <2>1 DEF KnownInv, SnapInv, Snapshots
  <2> QED
    BY <1>1, <2>2 DEF SnapTells
<1>4. CASE OpenOrdersTaken
  BY <1>1, <1>4 DEF OpenOrdersTaken
<1>5. CASE OpenOrdersAck \/ OpenOrdersError
  BY <1>1, <1>5 DEF OpenOrdersAck, OpenOrdersError
<1>6. ASSUME NEW changes, Update(changes)
      PROVE  UNCHANGED snap
  BY <1>6 DEF Update
<1>7. CASE StreamUp \/ OrderTradeUpdate \/ UserTradesAck
  BY <1>2, <1>7 DEF StreamUp, OrderTradeUpdate, UserTradesAck
<1> QED
  BY <1>2, <1>3, <1>4, <1>5, <1>6, <1>7, ConvSources DEF Aside

\* The history of an order ends with its state, and all that is or was told of
\* it is in there.
PastInv ==
  /\ past \in [Orders -> SUBSET State]
  /\ \A o \in Orders :
       /\ book[o] \in past[o] /\ view[o] \in past[o]
       /\ \A s \in past[o] : Older(s, book[o])
       /\ \A s : Told(o, s) => s \in past[o]

\* Every step of the history is one of the gateway's.
LEMMA HistoryStep ==
  ASSUME KnownInv, PastInv, [Next /\ Remember]_historyVars
  PROVE  [Next]_vars /\ past' = [o \in Orders |-> past[o] \cup {book'[o]}]
<1>1. CASE Next /\ Remember
  BY <1>1 DEF Remember
<1>2. CASE UNCHANGED historyVars
  <2>1. UNCHANGED <<vars, past>> /\ book' = book
    BY <1>2 DEF historyVars, vars
  <2>2. past = [o \in Orders |-> past[o]] /\ \A o \in Orders : past[o] \cup {book[o]} = past[o]
    BY DEF PastInv
  <2> QED
    BY <2>1, <2>2
<1> QED
  BY <1>1, <1>2

LEMMA PastStep ==
  ASSUME KnownInv, AskedInv, PastInv, [Next /\ Remember]_historyVars
  PROVE  PastInv'
<1>1. [Next]_vars /\ past' = [o \in Orders |-> past[o] \cup {book'[o]}]
  BY HistoryStep
<1>2. /\ book \in [Orders -> State] /\ book' \in [Orders -> State]
      /\ past \in [Orders -> SUBSET State]
      /\ \A o \in Orders : Follows(book'[o], book[o])
  BY <1>1, BookStep DEF KnownInv, BookInv, PastInv
<1>3. ASSUME NEW o \in Orders, NEW s \in past'[o]
      PROVE  Older(s, book'[o])
  <2>1. CASE s = book'[o]
    BY <1>2, <2>1, OlderSelf
  <2>2. CASE s \in past[o]
    <3>1. s \in State /\ Older(s, book[o])
      BY <2>2 DEF PastInv
    <3> QED
      BY <1>2, <3>1, OlderStays
  <2> QED
    BY <1>1, <1>3, <2>1, <2>2
<1>4. ASSUME NEW o \in Orders
      PROVE  view'[o] \in past'[o]
  <2>1. view[o] \in past[o] /\ \A s : Told(o, s) => s \in past[o]
    BY DEF PastInv
  <2>2. view'[o] = view[o] \/ \E s : Told(o, s) /\ view'[o] = Later(view[o], s)
    BY <1>1, ViewSources
  <2> QED
    BY <1>1, <2>1, <2>2 DEF Later
<1>5. ASSUME NEW o \in Orders, NEW s, Tells(wire', feed', snap', o, s)
      PROVE  s \in past'[o]
  <2>1. Told(o, s) \/ s = book'[o]
    BY <1>1, <1>5, WireNews, FeedNews, SnapNews DEF Tells, Told
  <2> QED
    BY <1>1, <2>1 DEF PastInv
<1>6. past' \in [Orders -> SUBSET State] /\ \A o \in Orders : book'[o] \in past'[o]
  BY <1>1, <1>2
<1> QED
  BY <1>3, <1>4, <1>5, <1>6 DEF PastInv, Told

LEMMA PastInit == HistoryInit => PastInv
<1> SUFFICES ASSUME HistoryInit PROVE PastInv
  OBVIOUS
<1>1. /\ book = [o \in Orders |-> Absent] /\ view = [o \in Orders |-> Absent]
      /\ past = [o \in Orders |-> {Absent}] /\ snap = {} /\ feed = <<>>
      /\ wire = [c \in Connections |-> <<>>]
  BY DEF HistoryInit, Init
<1>2. ~ \E o, s : Told(o, s)
  BY <1>1 DEF Told, Tells, WireTells, FeedTells, SnapTells
<1> QED
  BY <1>1, <1>2, AbsentState, OlderSelf DEF PastInv

\* A step of the gateway moves orders on at the exchange, publishes states that
\* the orders had, or neither.
LEMMA OrderViewStep ==
  ASSUME KnownInv, PastInv, [Next /\ Remember]_historyVars
  PROVE  [View!Next]_(View!vars)
<1>1. [Next]_vars /\ past' = [o \in Orders |-> past[o] \cup {book'[o]}]
  BY HistoryStep
<1>2. CASE UNCHANGED book
  <2>1. UNCHANGED past
    BY <1>1, <1>2 DEF PastInv
  <2>2. CASE UNCHANGED view
    BY <2>1, <2>2 DEF View!vars
  <2>3. CASE ~UNCHANGED view
    <3>1. /\ view' = [o \in Orders |-> view'[o]]
          /\ \A o \in Orders : \/ view'[o] = view[o]
                               \/ \E s \in State : Told(o, s) /\ view'[o] = Later(view[o], s)
      BY <1>1, <2>3, ViewSources
    <3>2. ASSUME NEW o \in Orders
          PROVE  view'[o] = view[o] \/ (view'[o] \in past[o] /\ view[o].time < view'[o].time)
      <4>1. ASSUME NEW s \in State, Told(o, s), view'[o] = Later(view[o], s)
            PROVE  view'[o] = view[o] \/ (view'[o] \in past[o] /\ view[o].time < view'[o].time)
        <5>1. s \in past[o] /\ s.time \in Nat /\ view[o].time \in Nat
          BY <4>1 DEF PastInv, KnownInv, ViewInv, State
        <5> QED
          BY <4>1, <5>1 DEF Later
      <4> QED
        BY <3>1, <4>1
    <3>3. View!Publish
      BY <2>1, <3>1, <3>2 DEF View!Publish
    <3> QED
      BY <3>3 DEF View!Next
  <2> QED
    BY <2>2, <2>3
<1>3. CASE ~UNCHANGED book
  <2>1. UNCHANGED view /\ \A o \in Orders : Follows(book'[o], book[o])
    BY <1>1, <1>3, UpdateOrNot, BookStep DEF KnownInv, client
  <2>2. ASSUME NEW o \in Orders
        PROVE  \/ past'[o] = past[o]
               \/ \E s \in past'[o] : View!After(s, past[o]) /\ past'[o] = past[o] \cup {s}
    <3>1. past'[o] = past[o] \cup {book'[o]} /\ book[o] \in past[o]
      BY <1>1 DEF PastInv
    <3>2. CASE book'[o] = book[o]
      BY <3>1, <3>2
    <3>3. CASE book'[o] # book[o]
      <4>1. /\ book'[o].time = book[o].time + 1 /\ book[o].executed <= book'[o].executed
            /\ book[o].status # "CLOSED"
        BY <2>1, <3>3 DEF Follows
      <4>2. ASSUME NEW t \in past[o]
            PROVE  t.time < book'[o].time /\ t.executed <= book'[o].executed /\ t.status # "CLOSED"
        <5>1. Older(t, book[o]) /\ t \in State /\ book[o] \in State /\ book'[o] \in State
          BY <1>1, BookStep DEF PastInv, KnownInv, BookInv
        <5>2. /\ t.time \in Nat /\ book[o].time \in Nat /\ t.executed \in Nat
              /\ book[o].executed \in Nat /\ book'[o].executed \in Nat
          BY <5>1, LotsAssumption DEF State
        <5> QED
          BY <4>1, <5>1, <5>2 DEF Older
      <4> QED
        BY <3>1, <4>2 DEF View!After
    <3> QED
      BY <3>2, <3>3
  <2>3. View!Progress
    BY <1>1, <2>1, <2>2 DEF View!Progress
  <2> QED
    BY <2>3 DEF View!Next
<1> QED
  BY <1>2, <1>3

\* The gateway implements the abstract view of orders: whichever of the three
\* sources a client hears of an order from, it sees states the order had, in
\* their order.
THEOREM OrderViewImplemented == HistorySpec => ImplementsOrderView
<1>1. HistoryInit => KnownInv /\ AskedInv /\ PastInv
  BY KnownInit, PastInit DEF HistoryInit
<1>2. KnownInv /\ AskedInv /\ PastInv /\ [Next /\ Remember]_historyVars
        => KnownInv' /\ AskedInv' /\ PastInv'
  BY HistoryStep, KnownStep, PastStep
<1>3. HistoryInit => View!Init
  BY DEF HistoryInit, Init, View!Init
<1> QED
  BY <1>1, <1>2, <1>3, OrderViewStep, PTL DEF HistorySpec, ImplementsOrderView, View!Spec
----------------------------------------------------------------------------
(* Every fill is reported once *)

\* The trades of an order that stream q tells of, by what they make it filled.
Trades(q, o) == {q[j].now.executed : j \in {i \in DOMAIN q : q[i].order = o /\ q[i].trade}}

\* From r lots reported and b lots that traded before the session, the trades on
\* stream q lead without a gap to the e lots executed.
NoGap(q, o, r, b, e) ==
  /\ r + b <= e
  /\ Trades(q, o) = (r + b + 1) .. e

BehindInv ==
  /\ behind \in [Orders -> Nat]
  /\ ~up => feed = <<>>
  /\ up => \A o \in Orders : NoGap(feed, o, reported[o], behind[o], book[o].executed)

\* The stream comes up or goes down, or it stays as it is.
LEMMA UpSources ==
  ASSUME KnownInv, [Next]_vars
  PROVE  StreamUp \/ StreamDown \/ UNCHANGED up
<1>1. ASSUME NEW changes, Update(changes) PROVE UNCHANGED up
  BY <1>1 DEF Update
<1> QED
  BY <1>1, ConvSources DEF Aside, OrderTradeUpdate, OpenOrdersTaken, OpenOrdersAck,
                           OpenOrdersError, UserTradesAck

\* A change of orders puts a trade on the stream for every lot executed.
LEMMA UpdateNoGap ==
  ASSUME KnownInv, FillInv, BehindInv, up, NEW changes, Sane(changes), Update(changes),
         UNCHANGED <<reported, behind>>, NEW o \in Orders
  PROVE  NoGap(feed', o, reported'[o], behind'[o], book'[o].executed)
<1>1. /\ book \in [Orders -> State] /\ book' \in [Orders -> State]
      /\ feed \in Seq(Events) /\ up \in BOOLEAN
  BY UpdateBook DEF KnownInv, BookInv, FeedInv
<1>2. /\ \A j \in DOMAIN feed : j \in DOMAIN feed' /\ feed'[j] = feed[j]
      /\ \A x \in DOMAIN changes :
           \E j \in DOMAIN feed' :
             /\ feed'[j].order = x /\ feed'[j].now = changes[x]
             /\ feed'[j].trade <=> book[x].executed < changes[x].executed
      /\ \A j \in DOMAIN feed' :
           \/ j \in DOMAIN feed /\ feed'[j] = feed[j]
           \/ /\ feed'[j].order \in DOMAIN changes
              /\ feed'[j].now = changes[feed'[j].order]
              /\ feed'[j].trade => book[feed'[j].order].executed < feed'[j].now.executed
  BY <1>1, UpdateFeed
<1> DEFINE r == reported[o]
           b == behind[o]
           e == book[o].executed
<1>3. /\ r \in Nat /\ b \in Nat /\ e \in Nat /\ r + b <= e
      /\ Trades(feed, o) = (r + b + 1) .. e
  BY <1>1 DEF BehindInv, NoGap, FillInv, Fills, State
<1>4. Trades(feed, o) \subseteq Trades(feed', o)
  BY <1>2 DEF Trades
<1>5. ASSUME NEW x \in Trades(feed', o)
      PROVE  \/ x \in Trades(feed, o)
             \/ o \in DOMAIN changes /\ x = changes[o].executed /\ e < x
  <2>1. PICK j \in DOMAIN feed' : feed'[j].order = o /\ feed'[j].trade /\ x = feed'[j].now.executed
    BY DEF Trades
  <2> QED
    BY <1>2, <2>1 DEF Trades
<1>6. CASE o \notin DOMAIN changes \/ changes[o].executed <= e
  <2>1. book'[o].executed = e
    <3>1. CASE o \notin DOMAIN changes
      BY <3>1, UpdateBook DEF KnownInv, BookInv
    <3>2. CASE o \in DOMAIN changes /\ changes[o].executed <= e
      <4>1. changes[o] \in State /\ Follows(changes[o], book[o]) /\ book'[o] = changes[o]
        BY <3>2, UpdateBook DEF KnownInv, BookInv, Sane, Sensible
      <4>2. changes[o].executed \in Nat
        BY <4>1 DEF State
      <4> QED
        BY <1>3, <3>2, <4>1, <4>2 DEF Follows
    <3> QED
      BY <1>6, <3>1, <3>2
  <2>2. o \in DOMAIN changes => changes[o].executed \in Nat
    BY DEF Sane, Sensible, State
  <2>3. Trades(feed', o) = Trades(feed, o)
    <3>1. ~(o \in DOMAIN changes /\ e < changes[o].executed)
      <4> HIDE DEF e
      <4> QED
        BY <1>3, <1>6, <2>2
    <3> QED
      BY <1>4, <1>5, <3>1
  <2> QED
    BY <1>3, <2>1, <2>3 DEF NoGap
<1>7. CASE o \in DOMAIN changes /\ ~(changes[o].executed <= e)
  <2>1. /\ changes[o].executed \in Nat /\ changes[o].executed <= e + 1
        /\ book'[o].executed = changes[o].executed
    BY <1>7, UpdateBook DEF KnownInv, BookInv, Sane, Sensible, State
  <2>2. changes[o].executed = e + 1 /\ e < changes[o].executed
    <3> HIDE DEF e
    <3> QED
      BY <1>3, <1>7, <2>1
  <2>3. e + 1 \in Trades(feed', o)
    BY <1>2, <1>7, <2>2 DEF Trades
  <2>4. Trades(feed', o) = Trades(feed, o) \cup {e + 1}
    <3> HIDE DEF e
    <3> QED
      BY <1>4, <1>5, <2>2, <2>3
  <2>5. r + b <= e + 1 /\ ((r + b + 1) .. e) \cup {e + 1} = (r + b + 1) .. (e + 1)
    <3> HIDE DEF r, b, e
    <3> QED
      BY <1>3
  <2> QED
    BY <1>3, <2>1, <2>2, <2>4, <2>5 DEF NoGap
<1> QED
  BY <1>6, <1>7

\* The next trade taken from the stream is the next lot of its order.
LEMMA TakeNoGap ==
  ASSUME KnownInv, FillInv, BehindInv, up, OrderTradeUpdate, UNCHANGED behind, NEW o \in Orders
  PROVE  NoGap(feed', o, reported'[o], behind'[o], book'[o].executed)
<1> DEFINE m == Head(feed)
           r == reported[o]
           b == behind[o]
           e == book[o].executed
<1>1. /\ feed # <<>> /\ feed' = Tail(feed) /\ UNCHANGED book
      /\ reported' = [reported EXCEPT ![m.order] = @ + TradesOf(m)]
  BY DEF OrderTradeUpdate
<1>2. feed \in Seq(Events) /\ m = feed[1] /\ 1 \in DOMAIN feed
  BY <1>1 DEF KnownInv, FeedInv
<1>3. m.order \in Orders /\ m.trade \in BOOLEAN /\ m.now.executed \in Nat
  <2>1. m \in Events
    BY <1>2
  <2> QED
    BY <2>1 DEF Events, State
<1>4. /\ r \in Nat /\ b \in Nat /\ e \in Nat /\ r + b <= e
      /\ Trades(feed, o) = (r + b + 1) .. e
      /\ reported \in [Orders -> Nat]
  BY DEF BehindInv, NoGap, FillInv, Fills, KnownInv, BookInv, State
<1>5. ASSUME NEW j \in DOMAIN feed'
      PROVE  j \in Nat /\ j # 0 /\ j + 1 \in DOMAIN feed /\ feed'[j] = feed[j + 1]
  <2> HIDE DEF Events
  <2> QED
    BY <1>1, <1>2, TailElements
<1>6. ASSUME NEW j \in DOMAIN feed, j # 1
      PROVE  j - 1 \in DOMAIN feed' /\ feed'[j - 1] = feed[j]
  <2> HIDE DEF Events
  <2> QED
    BY <1>1, <1>2, <1>6
<1>7. Trades(feed', o) \subseteq Trades(feed, o)
  BY <1>5 DEF Trades
<1>8. ASSUME NEW x \in Trades(feed, o)
      PROVE  x \in Trades(feed', o) \/ (m.order = o /\ m.trade /\ x = m.now.executed)
  <2>1. PICK j \in DOMAIN feed : feed[j].order = o /\ feed[j].trade /\ x = feed[j].now.executed
    BY <1>8 DEF Trades
  <2>2. CASE j = 1
    BY <1>2, <2>1, <2>2
  <2>3. CASE j # 1
    BY <1>6, <2>1, <2>3 DEF Trades
  <2> QED
    BY <2>2, <2>3
<1>9. CASE ~(m.order = o /\ m.trade)
  <2>1. Trades(feed', o) = Trades(feed, o)
    BY <1>7, <1>8, <1>9
  <2>2. reported'[o] = r
    BY <1>1, <1>3, <1>4, <1>9 DEF TradesOf
  <2> QED
    BY <1>1, <1>4, <2>1, <2>2 DEF NoGap
<1>10. CASE m.order = o /\ m.trade
  <2> DEFINE x == m.now.executed
  <2>1. x \in Trades(feed, o)
    BY <1>2, <1>10 DEF Trades
  <2>2. ASSUME NEW y \in Trades(feed', o)
        PROVE  x < y
    <3>1. PICK j \in DOMAIN feed' : feed'[j].order = o /\ feed'[j].trade /\ y = feed'[j].now.executed
      BY <2>2 DEF Trades
    <3>2. 1 < j + 1 /\ j + 1 \in DOMAIN feed /\ feed'[j] = feed[j + 1]
      BY <1>5
    <3> QED
      BY <1>2, <1>10, <3>1, <3>2 DEF FillInv, Fills
  <2>3. x = r + b + 1 /\ Trades(feed', o) = (r + b + 2) .. e /\ r + b + 1 <= e
    <3> HIDE DEF x, r, b, e
    <3>1. x >= r + b + 1 /\ x <= e /\ x \in Nat
      BY <1>4, <2>1
    <3>2. r + b + 1 \in Trades(feed', o) \/ r + b + 1 = x
      BY <1>4, <1>8, <3>1 DEF x
    <3>3. x = r + b + 1
      BY <1>4, <2>2, <3>1, <3>2
    <3>4. ASSUME NEW y \in (r + b + 2) .. e
          PROVE  y \in Trades(feed', o)
      <4>1. y \in Trades(feed, o) /\ y # x
        BY <1>4, <3>3, <3>4
      <4> QED
        BY <1>8, <4>1 DEF x
    <3>5. ASSUME NEW y \in Trades(feed', o)
          PROVE  y \in (r + b + 2) .. e
      <4>1. y \in (r + b + 1) .. e /\ x < y
        BY <1>4, <1>7, <2>2, <3>5
      <4> QED
        BY <1>4, <3>3, <4>1
    <3> QED
      BY <1>4, <3>1, <3>3, <3>4, <3>5
  <2>4. reported'[o] = r + 1
    BY <1>1, <1>4, <1>10 DEF TradesOf
  <2>5. /\ (r + 1) + b <= e
        /\ Trades(feed', o) = ((r + 1) + b + 1) .. e
    <3> HIDE DEF r, b, e
    <3> QED
      BY <1>4, <2>3
  <2> QED
    BY <1>1, <2>4, <2>5 DEF NoGap
<1> QED
  BY <1>9, <1>10

LEMMA BehindStep ==
  ASSUME KnownInv, PastInv, FillInv, BehindInv, [Next /\ Remember]_historyVars
  PROVE  BehindInv'
<1>1. [Next]_vars
  BY HistoryStep
<1>2. /\ \A o \in Orders : reported[o] \in Nat /\ book[o].executed \in Nat
                           /\ reported[o] <= book[o].executed
      /\ behind \in [Orders -> Nat] /\ up \in BOOLEAN /\ feed \in Seq(Events)
  BY DEF KnownInv, BookInv, FeedInv, FillInv, Fills, BehindInv, State
<1>3. CASE StreamUp
  <2>1. ~up /\ up' = TRUE /\ UNCHANGED <<book, feed, reported>>
    BY <1>3 DEF StreamUp, client
  <2>2. behind' = [o \in Orders |-> book[o].executed - reported[o]]
    BY <2>1 DEF Remember, historyVars, vars, stream
  <2>3. feed' = <<>>
    BY <2>1 DEF BehindInv
  <2>4. ASSUME NEW o \in Orders
        PROVE  behind'[o] \in Nat /\ NoGap(feed', o, reported'[o], behind'[o], book'[o].executed)
    <3>1. Trades(feed', o) = {}
      BY <2>3 DEF Trades
    <3>2. /\ behind'[o] \in Nat
          /\ reported[o] + behind'[o] = book[o].executed
          /\ (reported[o] + behind'[o] + 1) .. book[o].executed = {}
      BY <1>2, <2>2
    <3> QED
      BY <1>2, <2>1, <3>1, <3>2 DEF NoGap
  <2>5. behind' \in [Orders -> Nat]
    BY <2>2, <2>4
  <2> QED
    BY <2>1, <2>4, <2>5 DEF BehindInv
<1>4. CASE StreamDown
  <2>1. up /\ up' = FALSE /\ feed' = <<>>
    BY <1>4 DEF StreamDown
  <2>2. behind' = behind
    BY <2>1 DEF Remember, historyVars
  <2> QED
    BY <1>2, <2>1, <2>2 DEF BehindInv
<1>5. CASE UNCHANGED up
  <2>1. behind' = behind
    BY <1>5 DEF Remember, historyVars
  <2>2. CASE UNCHANGED <<book, feed, reported>>
    BY <1>5, <2>1, <2>2 DEF BehindInv
  <2>3. ASSUME NEW changes, Sane(changes), Update(changes), UNCHANGED <<reported, view>>
        PROVE  BehindInv'
    <3>1. up => \A o \in Orders : NoGap(feed', o, reported'[o], behind'[o], book'[o].executed)
      BY <2>1, <2>3, UpdateNoGap
    <3>2. ~up => feed' = <<>>
      BY <2>3 DEF Update, BehindInv
    <3> QED
      BY <1>2, <1>5, <2>1, <3>1, <3>2 DEF BehindInv
  <2>4. CASE OrderTradeUpdate
    <3>1. feed # <<>>
      BY <2>4 DEF OrderTradeUpdate
    <3>2. up /\ \A o \in Orders : NoGap(feed', o, reported'[o], behind'[o], book'[o].executed)
      BY <2>1, <2>4, <3>1, TakeNoGap DEF BehindInv
    <3> QED
      BY <1>2, <1>5, <2>1, <3>2 DEF BehindInv
  <2> QED
    BY <1>1, <1>4, <2>2, <2>3, <2>4, FeedSources
<1> QED
  BY <1>1, <1>3, <1>4, <1>5, UpSources

\* While the stream is up every lot that trades is published as a fill once, in
\* turn, and no answer or snapshot publishes it again: what is missing when no
\* trade is on its way is what traded before the session began.
THEOREM EveryFillOnce == HistorySpec => []FillsOnce
<1>1. HistoryInit => KnownInv /\ AskedInv /\ PastInv /\ FillInv /\ BehindInv
  <2> SUFFICES ASSUME HistoryInit PROVE KnownInv /\ AskedInv /\ PastInv /\ FillInv /\ BehindInv
    OBVIOUS
  <2>1. KnownInv /\ AskedInv /\ PastInv
    BY KnownInit, PastInit DEF HistoryInit
  <2>2. FillInv /\ BehindInv
    BY DEF HistoryInit, Init, FillInv, Fills, BehindInv, Absent
  <2> QED
    BY <2>1, <2>2
<1>2. KnownInv /\ AskedInv /\ PastInv /\ FillInv /\ BehindInv /\ [Next /\ Remember]_historyVars
        => KnownInv' /\ AskedInv' /\ PastInv' /\ FillInv' /\ BehindInv'
  BY HistoryStep, KnownStep, PastStep, FillStep, BehindStep
<1>3. KnownInv /\ FillInv /\ BehindInv => FillsOnce
  <2> SUFFICES ASSUME KnownInv, FillInv, BehindInv, NEW o \in Orders, up, ~Pending(o)
               PROVE  reported[o] + behind[o] = book[o].executed
    BY DEF FillsOnce
  <2> DEFINE a == reported[o] + behind[o]
             e == book[o].executed
  <2>1. a \in Nat /\ e \in Nat /\ a <= e /\ Trades(feed, o) = (a + 1) .. e
    BY DEF BehindInv, NoGap, FillInv, Fills, KnownInv, BookInv, State
  <2>2. Trades(feed, o) = {}
    BY DEF Trades, Pending
  <2> HIDE DEF a, e
  <2>3. a = e
    <3>1. ASSUME a < e PROVE FALSE
      <4>1. e \in (a + 1) .. e
        BY <2>1, <3>1
      <4> QED
        BY <2>1, <2>2, <4>1
    <3> QED
      BY <2>1, <3>1
  <2> QED
    BY <2>3 DEF a, e
<1> QED
  BY <1>1, <1>2, <1>3, PTL DEF HistorySpec
=============================================================================
