------------------------------ MODULE OrderFlow ------------------------------
(***************************************************************************)
(* Orders of one account.  A client's request is routed by OrderEntryRR to *)
(* one of several REST connections (OrderEntry), encoded, and sent on a    *)
(* pipelined connection.  The gateway hears of the outcome on three ways   *)
(* that race with each other: the answer to the request, the user stream   *)
(* (DropCopy), and the snapshot of open orders that every session of the   *)
(* stream downloads.  All three publish the whole state of an order with   *)
(* the exchange's time, so a client may keep the latest one.               *)
(*                                                                         *)
(* The exchange, the REST client and the order cache of the server (oms)   *)
(* are outside the repository and modelled by what the code relies on: a   *)
(* connection answers in the order of its requests; a connection that is   *)
(* lost, or a request that times out, fails every request outstanding on   *)
(* it; an order has an external id once an update of it was published.     *)
(***************************************************************************)
EXTENDS Naturals, Sequences, FiniteSets

CONSTANTS
  Orders,      \* orders a client may create
  Symbols,     \* instruments
  SymbolOf,    \* the instrument of an order
  N,           \* misc.number_of_order_entry_connections
  Lots,        \* quantity of an order
  MaxVersion,  \* bound: requests per order, the create included
  MaxDown      \* bound: times the user stream is lost

ASSUME ConnectionsAssumption == N \in Nat \ {0}
ASSUME OrdersAssumption      ==
  IsFiniteSet(Orders) /\ IsFiniteSet(Symbols) /\ SymbolOf \in [Orders -> Symbols]
ASSUME LotsAssumption        == Lots \in Nat \ {0} /\ MaxVersion \in Nat /\ MaxDown \in Nat

VARIABLES
  ready,     \* ready() of every OrderEntry
  index,     \* OrderEntryRR::index_
  lag,       \* history: requests routed past a ready connection
  wire,      \* requests outstanding on a connection, oldest first
  book,      \* the exchange's orders
  up,        \* is the user stream up?
  feed,      \* updates on the user stream, oldest first
  downs,     \* how often the user stream was lost
  snap,      \* the answer to an open-orders request on its way, if any
  current,   \* downloads answered with success, and taken in this session
  view,      \* the latest state of an order that was published
  reported,  \* lots published as fills (TradeUpdate)
  missed,    \* history: orders that closed while the stream was down
  asked,     \* version of the latest request for an order, 0 before the create
  open,      \* requests whose client waits for a reply
  refused,   \* history: requests answered by a 4xx other than 403 and 429
  verdicts   \* history: outcomes of cancel-all and what was published of them

routing == <<ready, index, lag>>
stream  == <<up, feed, downs, snap, current>>
client  == <<view, reported, asked, open, refused, verdicts>>
vars    == <<routing, wire, book, missed, stream, client>>

----------------------------------------------------------------------------
(* Data *)

Connections == 0 .. N - 1

\* An order as the exchange reports it: cumulative, with its update time.
State  == [status : {"ABSENT", "WORKING", "CLOSED"}, executed : 0 .. Lots, time : Nat]
Absent == [status |-> "ABSENT", executed |-> 0, time |-> 0]

\* The client_order_id and external_order_id of a request are either both
\* absent from the query, or name the order.
Requests   == [kind : {"CREATE", "MODIFY", "CANCEL"}, order : Orders,
               version : Nat, named : BOOLEAN]
CancelAlls == [kind : {"CANCEL_ALL"}, symbol : Symbols]

\* What the exchange does with a request: status categories of the answer.  A
\* redirection is left out: process_response ends the process (log::fatal).
Answers == {"PENDING", "OK", "UNREADABLE", "REFUSED", "LIMITED", "SERVER_ERROR"}

Entries == [req : Requests \cup CancelAlls, ans : Answers, seen : State]

InFlight == {e.req : e \in UNION {{wire[c][i] : i \in DOMAIN wire[c]} : c \in Connections}}

----------------------------------------------------------------------------
(* Routing *)

\* Steps from i to c, going round.
Distance(i, c) == IF c >= i THEN c - i ELSE c + N - i

Following_Same(c) == c  \* mutant: the index is left where it was

Following_NoWrap(c) == c + 1  \* mutant: no modulo

Following(c) == IF c + 1 = N THEN 0 ELSE c + 1

\* OrderEntryRR::get_next: the first ready connection from index_ on; there
\* is none if the request is rejected with NotReady.
Chosen(c) ==
  /\ ready[c]
  /\ \A d \in Connections : ready[d] => Distance(index, c) <= Distance(index, d)

Route(c) ==
  /\ Chosen(c)
  /\ index' = Following(c)
  /\ lag' = [d \in Connections |-> IF d = c \/ ~ready[d] THEN 0 ELSE lag[d] + 1]
  /\ UNCHANGED ready

Send(c, requests) ==
  wire' = [wire EXCEPT ![c] =
             @ \o [i \in DOMAIN requests |->
                     [req |-> requests[i], ans |-> "PENDING", seen |-> Absent]]]

----------------------------------------------------------------------------
(* Requests of clients *)

Named_ByClient(o) == TRUE  \* mutant: the id the client chose is always sent

\* Encoder: origClientOrderId is sent once the external id is known; before,
\* the query holds an empty orderId.
Named(o) == view[o].status # "ABSENT"

Ask(kind, o, named) ==
  /\ asked[o] < MaxVersion
  /\ asked' = [asked EXCEPT ![o] = @ + 1]
  /\ LET r == [kind |-> kind, order |-> o, version |-> asked[o] + 1, named |-> named] IN
       /\ open' = open \cup {r}
       /\ \E c \in Connections : Route(c) /\ Send(c, <<r>>)
  /\ UNCHANGED <<book, missed, stream, view, reported, refused, verdicts>>

CreateOrder(o) == asked[o] = 0 /\ Ask("CREATE", o, TRUE)

ModifyOrder(o) ==
  asked[o] > 0 /\ view[o].status # "CLOSED" /\ Ask("MODIFY", o, Named(o))

CancelOrder(o) ==
  asked[o] > 0 /\ view[o].status # "CLOSED" /\ Ask("CANCEL", o, Named(o))

\* One request per instrument with orders, all on the same connection; the
\* client's instrument, if any, selects one of them.  Bound: a single one.
CancelAllOrders(selected) ==
  /\ InFlight \cap CancelAlls = {} /\ verdicts = {}
  /\ \E symbols \in {{SymbolOf[o] : o \in {x \in Orders : asked[x] > 0}} \cap selected},
        c \in Connections :
       /\ Route(c)
       /\ \E q \in [1 .. Cardinality(symbols) -> [kind : {"CANCEL_ALL"}, symbol : symbols]] :
            /\ {q[i].symbol : i \in DOMAIN q} = symbols
            /\ Send(c, q)
  /\ UNCHANGED <<book, missed, stream, client>>

----------------------------------------------------------------------------
(* The exchange *)

Changed(b, status, executed) ==
  [status |-> status, executed |-> executed, time |-> b.time + 1]

\* Orders of `changes` get a new state; each change is told on the stream.
Update(changes) ==
  /\ book' = [o \in Orders |-> IF o \in DOMAIN changes THEN changes[o] ELSE book[o]]
  /\ \E order \in [1 .. Cardinality(DOMAIN changes) -> DOMAIN changes] :
       /\ {order[i] : i \in DOMAIN order} = DOMAIN changes
       /\ feed' = IF up THEN feed \o [i \in DOMAIN order |->
                                        [order |-> order[i], now |-> changes[order[i]],
                                         trade |-> changes[order[i]].executed
                                                     > book[order[i]].executed]]
                        ELSE feed
  /\ missed' = IF up THEN missed
               ELSE missed \cup {o \in DOMAIN changes : changes[o].status = "CLOSED"}
  /\ UNCHANGED <<up, downs, snap, current>>

\* The orders a request changes, and how, if the exchange carries it out.
Effect(r) ==
  CASE r.kind = "CREATE" -> [o \in {r.order} |-> Changed(book[o], "WORKING", 0)]
    [] r.kind = "MODIFY" -> [o \in {r.order} |-> Changed(book[o], "WORKING", book[o].executed)]
    [] r.kind = "CANCEL" -> [o \in {r.order} |-> Changed(book[o], "CLOSED", book[o].executed)]
    [] r.kind = "CANCEL_ALL" ->
         [o \in {x \in Orders : SymbolOf[x] = r.symbol /\ book[x].status = "WORKING"} |->
            Changed(book[o], "CLOSED", book[o].executed)]

CanDo(r) ==
  CASE r.kind = "CREATE"     -> book[r.order].status = "ABSENT"
    [] r.kind = "CANCEL_ALL" -> TRUE
    [] OTHER                 -> r.named /\ book[r.order].status = "WORKING"

\* The first request of a connection that is not answered yet.
Unanswered(c, i) ==
  /\ i \in DOMAIN wire[c]
  /\ wire[c][i].ans = "PENDING"
  /\ \A j \in DOMAIN wire[c] : j < i => wire[c][j].ans # "PENDING"

\* The body of a success is the state of the order.
Answer(c, i, ans) ==
  LET r == wire[c][i].req
      s == IF ans = "OK" /\ r.kind # "CANCEL_ALL" THEN book'[r.order] ELSE Absent IN
  wire' = [wire EXCEPT ![c][i] = [req |-> r, ans |-> ans, seen |-> s]]

CarryOut(c) ==
  \E i \in 1 .. Len(wire[c]), ans \in {"OK", "UNREADABLE", "SERVER_ERROR"} :
    /\ Unanswered(c, i)
    /\ CanDo(wire[c][i].req)
    /\ Update(Effect(wire[c][i].req))
    /\ Answer(c, i, ans)
    /\ UNCHANGED <<routing, client>>

Refuse(c) ==
  \E i \in 1 .. Len(wire[c]), ans \in {"REFUSED", "LIMITED", "SERVER_ERROR"} :
    /\ Unanswered(c, i)
    /\ UNCHANGED book
    /\ Answer(c, i, ans)
    /\ UNCHANGED <<routing, missed, stream, client>>

Fill(o) ==
  /\ book[o].status = "WORKING"
  /\ LET e == book[o].executed + 1 IN
       Update([x \in {o} |-> Changed(book[o], IF e = Lots THEN "CLOSED" ELSE "WORKING", e)])
  /\ UNCHANGED <<routing, wire, client>>

\* "GTX orders will initially report that the order is working" (index.rst).
Expire(o) ==
  /\ book[o].status = "WORKING"
  /\ Update([x \in {o} |-> Changed(book[o], "CLOSED", book[o].executed)])
  /\ UNCHANGED <<routing, wire, client>>

----------------------------------------------------------------------------
(* Publishing *)

AckState_NoTime(e) ==  \* mutant: the update time is not passed on
  [e.seen EXCEPT !.time = view[e.req.order].time + 1]

\* The OrderUpdate made from the body of an answer.
AckState(e) == e.seen

\* Clients keep the latest state of an order.
Later(old, new) == IF new.time > old.time THEN new ELSE old

Outcome_Silent(ans) ==  \* mutant: a rate limit is swallowed as well
  CASE ans = "OK"                           -> "SUCCESS"
    [] ans \in {"REFUSED", "LIMITED"}       -> "SILENCE"
    [] ans \in {"SERVER_ERROR", "UNREADABLE"} -> "ERROR"

\* process_response: which handler runs.  403 and 429 are reported, every
\* other 4xx falls through the default case, whose error_handler call is
\* commented out; an exception from the body's parser is an error.
Outcome(ans) ==
  CASE ans = "OK"      -> "SUCCESS"
    [] ans = "REFUSED" -> "SILENCE"
    [] ans \in {"LIMITED", "SERVER_ERROR", "UNREADABLE"} -> "ERROR"

\* cancel_all_orders_ack: the exchange's code for success is 200, see
\* test/json_cancel_all_orders_ack.cpp.
CancelAllCode == 200

CancelAllReported(outcome) ==
  CASE outcome = "SUCCESS" -> IF CancelAllCode = 0 THEN "NOTHING" ELSE "REJECTED"
    [] outcome = "ERROR"   -> "REJECTED"
    [] OTHER               -> "NOTHING"

\* The oldest request of a connection is of this kind, and answered.
Answered(c, kind) ==
  /\ wire[c] # <<>>
  /\ wire[c][1].ans # "PENDING"
  /\ wire[c][1].req.kind = kind

\* On success the state of the order is published; a success or an error also
\* replies to the client.
OrderAckOf(c, kind) ==
  /\ Answered(c, kind)
  /\ wire' = [wire EXCEPT ![c] = Tail(@)]
  /\ LET e == wire[c][1]
         r == e.req IN
       /\ view' = IF Outcome(e.ans) = "SUCCESS"
                  THEN [view EXCEPT ![r.order] = Later(@, AckState(e))] ELSE view
       /\ open' = IF Outcome(e.ans) = "SILENCE" THEN open ELSE open \ {r}
       /\ refused' = IF e.ans = "REFUSED" THEN refused \cup {r} ELSE refused
  /\ UNCHANGED <<routing, book, missed, stream, reported, asked, verdicts>>

PlaceOrderAck(c)  == OrderAckOf(c, "CREATE")
ModifyOrderAck(c) == OrderAckOf(c, "MODIFY")
CancelOrderAck(c) == OrderAckOf(c, "CANCEL")

CancelAllOrdersAck(c) ==
  /\ Answered(c, "CANCEL_ALL")
  /\ wire' = [wire EXCEPT ![c] = Tail(@)]
  /\ LET ans == wire[c][1].ans IN
       verdicts' = verdicts \cup {[ans |-> ans, told |-> CancelAllReported(Outcome(ans))]}
  /\ UNCHANGED <<routing, book, missed, stream, view, reported, asked, open, refused>>

OrderAck(c) == \/ PlaceOrderAck(c) \/ ModifyOrderAck(c)
               \/ CancelOrderAck(c) \/ CancelAllOrdersAck(c)

Connected(c) ==
  /\ ~ready[c]
  /\ ready' = [ready EXCEPT ![c] = TRUE]
  /\ UNCHANGED <<index, lag, wire, book, missed, stream, client>>

\* Every request outstanding fails with a NetworkError, which is reported.
Disconnected(c) ==
  /\ ready[c]
  /\ ready' = [ready EXCEPT ![c] = FALSE]
  /\ lag'   = [lag EXCEPT ![c] = 0]
  /\ wire'  = [wire EXCEPT ![c] = <<>>]
  /\ open'  = open \ {wire[c][i].req : i \in DOMAIN wire[c]}
  /\ verdicts' = verdicts \cup
       {[ans |-> "NETWORK", told |-> CancelAllReported("ERROR")] :
          i \in {j \in DOMAIN wire[c] : wire[c][j].req.kind = "CANCEL_ALL"}}
  /\ UNCHANGED <<index, book, missed, stream, view, reported, asked, refused>>

----------------------------------------------------------------------------
(* The user stream *)

StreamUp ==
  /\ ~up
  /\ up' = TRUE
  /\ current' = {}
  /\ UNCHANGED <<routing, wire, book, missed, feed, downs, snap, client>>

\* What the exchange had not delivered is lost; an answer on its way belongs
\* to the session that is over.
StreamDown ==
  /\ up /\ downs < MaxDown
  /\ up' = FALSE
  /\ feed' = <<>>
  /\ downs' = downs + 1
  /\ current' = {}
  /\ snap' = {[s EXCEPT !.fresh = FALSE] : s \in snap}
  /\ missed' = missed \cup {feed[i].order : i \in {j \in DOMAIN feed : feed[j].now.status = "CLOSED"}}
  /\ UNCHANGED <<routing, wire, book, client>>

FeedState_NoTime(m) ==  \* mutant: the update time is not passed on
  [m.now EXCEPT !.time = 0]

\* The OrderUpdate made from an OrderTradeUpdate.
FeedState(m) == m.now

TradesOf_Any(m) == 1  \* mutant: the execution type is not looked at

\* The TradeUpdates made from an OrderTradeUpdate.
TradesOf(m) == IF m.trade THEN 1 ELSE 0

\* OrderTradeUpdate: an OrderUpdate, and a TradeUpdate if it is a trade.
OrderTradeUpdate ==
  /\ feed # <<>>
  /\ feed' = Tail(feed)
  /\ LET m == Head(feed) IN
       /\ view' = [view EXCEPT ![m.order] = Later(@, FeedState(m))]
       /\ reported' = [reported EXCEPT ![m.order] = @ + TradesOf(m)]
  /\ UNCHANGED <<routing, wire, book, missed, up, downs, snap, current,
                 asked, open, refused, verdicts>>

\* The exchange answers an open-orders request with the orders that work.
OpenOrdersTaken ==
  /\ snap = {}
  /\ snap' = {[fresh |-> up, now |-> [o \in {x \in Orders : book[x].status = "WORKING"} |-> book[o]]]}
  /\ UNCHANGED <<routing, wire, book, missed, up, feed, downs, current, client>>

\* The OrderUpdate made from an item of the answer, for orders that have one.
OpenOrdersAck ==
  /\ \E s \in snap :
       /\ view' = [o \in Orders |-> IF o \in DOMAIN s.now THEN Later(view[o], s.now[o])
                                             ELSE view[o]]
       /\ current' = IF s.fresh THEN current \cup {"OPEN_ORDERS"} ELSE current
  /\ snap' = {}
  /\ UNCHANGED <<routing, wire, book, missed, up, feed, downs,
                 reported, asked, open, refused, verdicts>>

\* An answer that is an error: logged, nothing is published.
OpenOrdersError ==
  /\ snap # {}
  /\ snap' = {}
  /\ UNCHANGED <<routing, wire, book, missed, up, feed, downs, current, client>>

\* UserTradesAck: the trades are logged.
UserTradesAck ==
  /\ up /\ "USER_TRADES" \notin current
  /\ current' = current \cup {"USER_TRADES"}
  /\ UNCHANGED <<routing, wire, book, missed, up, feed, downs, snap, client>>

----------------------------------------------------------------------------
Init ==
  /\ ready = [c \in Connections |-> FALSE]
  /\ index = 0
  /\ lag = [c \in Connections |-> 0]
  /\ wire = [c \in Connections |-> <<>>]
  /\ book = [o \in Orders |-> Absent]
  /\ up = FALSE /\ feed = <<>> /\ downs = 0 /\ snap = {} /\ current = {}
  /\ view = [o \in Orders |-> Absent]
  /\ reported = [o \in Orders |-> 0]
  /\ missed = {}
  /\ asked = [o \in Orders |-> 0]
  /\ open = {} /\ refused = {} /\ verdicts = {}

Next ==
  \/ \E o \in Orders : CreateOrder(o) \/ ModifyOrder(o) \/ CancelOrder(o)
                       \/ Fill(o) \/ Expire(o)
  \/ \E selected \in {Symbols} \cup {{s} : s \in Symbols} : CancelAllOrders(selected)
  \/ \E c \in Connections : CarryOut(c) \/ Refuse(c) \/ OrderAck(c)
                            \/ Connected(c) \/ Disconnected(c)
  \/ StreamUp \/ StreamDown \/ OrderTradeUpdate
  \/ OpenOrdersTaken \/ OpenOrdersAck \/ OpenOrdersError \/ UserTradesAck

Spec == Init /\ [][Next]_vars

----------------------------------------------------------------------------
(* What the design promises *)

\* Every variable stays in its domain.
TypeOK ==
  /\ ready \in [Connections -> BOOLEAN]
  /\ index \in Connections
  /\ lag \in [Connections -> Nat]
  /\ wire \in [Connections -> Seq(Entries)]
  /\ book \in [Orders -> State]
  /\ up \in BOOLEAN /\ downs \in Nat
  /\ feed \in Seq([order : Orders, now : State, trade : BOOLEAN])
  /\ \A s \in snap : /\ s.fresh \in BOOLEAN /\ DOMAIN s.now \subseteq Orders
                      /\ \A o \in DOMAIN s.now : s.now[o] \in State
  /\ current \subseteq {"OPEN_ORDERS", "USER_TRADES"}
  /\ view \in [Orders -> State]
  /\ reported \in [Orders -> 0 .. Lots]
  /\ missed \subseteq Orders
  /\ asked \in [Orders -> Nat]
  /\ open \subseteq Requests /\ refused \subseteq Requests
  /\ \A v \in verdicts : v.told \in {"REJECTED", "NOTHING"}

\* get_next spreads requests: a connection that is ready is passed over at
\* most N - 1 times in a row, whatever connects and disconnects meanwhile.
NoStarvation == \A c \in Connections : ready[c] => lag[c] < N

\* A request that names an order reaches an exchange that knows it, although
\* connections do not preserve the order of requests between them.
NamedExists ==
  \A r \in InFlight : r.kind \in {"MODIFY", "CANCEL"} /\ r.named
                        => book[r.order].status # "ABSENT"

\* Three sources race, but a client that keeps the latest update is right as
\* soon as nothing is on its way on a stream whose snapshot was taken in this
\* session: about every order but those that closed while there was no stream.
ViewConverges ==
  up /\ "OPEN_ORDERS" \in current /\ feed = <<>>
    => \A o \in Orders \ missed : view[o] = book[o]

\* An order that was published as closed is never published as working again:
\* a late answer or snapshot does not reopen what a fill has closed.
ClosedStaysClosed ==
  [][\A o \in Orders : view[o].status = "CLOSED" => view'[o].status = "CLOSED"]_vars

\* A client waits only for requests that are on a connection, or that the
\* exchange refused with a 4xx the gateway swallows.
OnlyRefusedForgotten == open \subseteq InFlight \cup refused

\* ORDER_ACK is among the supported features (order_entry.cpp:30): a client
\* waits only for requests that are on a connection.
NoRequestForgotten == open \subseteq InFlight

\* {"code":200,"msg":"The operation of cancel all open order is done."} is
\* success (test/json_cancel_all_orders_ack.cpp): a cancel-all the exchange
\* says is done is not published as rejected.
CancelAllTruthful == \A v \in verdicts : v.ans = "OK" => v.told # "REJECTED"

\* "Download fills since (now - begin)" (flags/rest.json): when the downloads
\* of a session are in and nothing is on its way, every fill was published.
FillsReachClients ==
  up /\ current = {"OPEN_ORDERS", "USER_TRADES"} /\ feed = <<>>
    => \A o \in Orders : reported[o] = book[o].executed

----------------------------------------------------------------------------
(* Progress *)

\* The REST client delivers an answer, or gives up on the connection when the
\* oldest request times out.
Fairness == \A c \in Connections : WF_vars(OrderAck(c) \/ (wire[c] # <<>> /\ Disconnected(c)))

FairSpec == Spec /\ Fairness

\* Every request is replied to in the end, unless the exchange refused it.
AnsweredOrRefused ==
  \A o \in Orders, v \in 1 .. MaxVersion :
    (\E r \in open : r.order = o /\ r.version = v)
      ~> \/ ~ \E r \in open : r.order = o /\ r.version = v
         \/ \E r \in refused : r.order = o /\ r.version = v
=============================================================================
