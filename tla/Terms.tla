-------------------------------- MODULE Terms --------------------------------
(***************************************************************************)
(* The terms of an order on their way to the exchange and back.  A         *)
(* client's CreateOrder is encoded with the tables roq => json of Map; what *)
(* the exchange reports of the order (answer, user stream or snapshot) is   *)
(* published with the tables json => roq.  The two sets of tables are       *)
(* written independently of each other; here they meet.                     *)
(*                                                                         *)
(* Numbers and texts (quantity, price, ids) are not part of the terms.     *)
(***************************************************************************)
EXTENDS TLAPS

\* UNDEFINED_INTERNAL and UNKNOWN_INTERNAL of the generated enums: no text,
\* and a text that is not one of the enum's.
NoText == "UNDEFINED_INTERNAL"
Alien  == "UNKNOWN_INTERNAL"

----------------------------------------------------------------------------
(* roq *)

Sides      == {"UNDEFINED", "BUY", "SELL"}
OrderTypes == {"UNDEFINED", "MARKET", "LIMIT"}
Effects    == {"UNDEFINED", "OPEN", "CLOSE"}
TimesInForce ==
  {"UNDEFINED", "GFD", "GTC", "OPG", "IOC", "FOK", "GTX", "GTD", "AT_THE_CLOSE",
   "GOOD_THROUGH_CROSSING", "AT_CROSSING", "GOOD_FOR_TIME", "GFA", "GFM"}

\* CreateOrder; postOnly is the instruction PARTICIPATE_DO_NOT_INITIATE.
Orders == [side : Sides, type : OrderTypes, tif : TimesInForce, effect : Effects,
           postOnly : BOOLEAN]

----------------------------------------------------------------------------
(* roq => json *)

SideText(side)    == IF side = "UNDEFINED" THEN NoText ELSE side
TypeText(type)    == IF type = "UNDEFINED" THEN NoText ELSE type
TimeInForceText(tif) == IF tif \in {"GTC", "IOC", "GTX"} THEN tif ELSE NoText

PositionSideText(effect, side) ==
  CASE effect = "UNDEFINED" \/ side = "UNDEFINED"       -> "BOTH"
    [] <<effect, side>> \in {<<"OPEN", "BUY">>, <<"CLOSE", "SELL">>} -> "LONG"
    [] <<effect, side>> \in {<<"OPEN", "SELL">>, <<"CLOSE", "BUY">>} -> "SHORT"

Absent == "ABSENT"  \* the query has no such field

\* Encoder::place_order
Query(o) ==
  [side         |-> SideText(o.side),
   type         |-> TypeText(o.type),
   timeInForce  |-> IF o.type # "LIMIT" THEN Absent
                    ELSE IF o.postOnly THEN "GTX" ELSE TimeInForceText(o.tif),
   positionSide |-> IF o.effect = "UNDEFINED" THEN Absent
                    ELSE PositionSideText(o.effect, o.side)]

----------------------------------------------------------------------------
(* The exchange *)

\* A query is refused unless its fields have texts; what is absent gets a
\* default.
Accepts(q) == NoText \notin {q.side, q.type, q.timeInForce}

Report(q) ==
  [q EXCEPT !.timeInForce  = IF @ = Absent THEN "GTC" ELSE @,
            !.positionSide = IF @ = Absent THEN "BOTH" ELSE @]

Reports ==
  [side : {NoText, Alien, "BUY", "SELL"},
   type : {NoText, Alien, "LIMIT", "MARKET", "STOP", "STOP_MARKET", "TAKE_PROFIT",
           "TAKE_PROFIT_MARKET", "TRAILING_STOP_MARKET"},
   timeInForce : {NoText, Alien, "GTC", "IOC", "GTX", "HIDDEN"},
   positionSide : {NoText, Alien, "BOTH", "LONG", "SHORT"}]

----------------------------------------------------------------------------
(* json => roq *)

SideOf(text) == IF text \in {"BUY", "SELL"} THEN text ELSE "UNDEFINED"

TypeOf(text) ==
  CASE text \in {"LIMIT", "STOP"}         -> "LIMIT"
    [] text \in {"MARKET", "STOP_MARKET"} -> "MARKET"
    [] OTHER                              -> "UNDEFINED"

TimeInForceOf(text) ==
  CASE text \in {"GTC", "HIDDEN"} -> "GTC"
    [] text \in {"IOC", "GTX"}    -> text
    [] OTHER                      -> "UNDEFINED"

EffectOf(positionSide, side) ==
  CASE <<positionSide, side>> \in {<<"LONG", "BUY">>, <<"SHORT", "SELL">>} -> "OPEN"
    [] <<positionSide, side>> \in {<<"LONG", "SELL">>, <<"SHORT", "BUY">>} -> "CLOSE"
    [] OTHER                                                            -> "UNDEFINED"

\* The terms in the OrderUpdate made from a report: place, modify and cancel
\* answers, OrderTradeUpdate and the items of the open orders alike.
Published(r) ==
  [side |-> SideOf(r.side), type |-> TypeOf(r.type), tif |-> TimeInForceOf(r.timeInForce),
   effect |-> EffectOf(r.positionSide, r.side)]

----------------------------------------------------------------------------
(* What the client sees is what the client asked for *)

\* The update p has the terms of order o; a market order has no time in force,
\* and post-only takes the place of the client's.
Kept(o, p) ==
  /\ p.side = o.side /\ p.type = o.type /\ p.effect = o.effect
  /\ o.type = "LIMIT" => p.tif = IF o.postOnly THEN "GTX" ELSE o.tif

\* The encoder's tables and the tables of the updates are inverse to each other
\* on every order the exchange takes: no client sees its order come back with
\* another side, type, time in force or position effect.
THEOREM TermsSurvive ==
  \A o \in Orders : Accepts(Query(o)) => Kept(o, Published(Report(Query(o))))
<1> SUFFICES ASSUME NEW o \in Orders, Accepts(Query(o))
             PROVE  Kept(o, Published(Report(Query(o))))
  OBVIOUS
<1> DEFINE r == Report(Query(o))
           p == Published(r)
<1>1. /\ o.side \in Sides /\ o.type \in OrderTypes /\ o.tif \in TimesInForce
      /\ o.effect \in Effects /\ o.postOnly \in BOOLEAN
  BY DEF Orders
<1>2. /\ r.side = SideText(o.side) /\ r.type = TypeText(o.type)
      /\ o.type = "LIMIT" => r.timeInForce = IF o.postOnly THEN "GTX" ELSE TimeInForceText(o.tif)
      /\ r.positionSide = IF o.effect = "UNDEFINED" THEN "BOTH" ELSE PositionSideText(o.effect, o.side)
  BY <1>1 DEF Report, Query, Absent, PositionSideText, TimeInForceText, NoText, Sides, Effects
<1>3. /\ o.side # "UNDEFINED" /\ o.type # "UNDEFINED"
      /\ o.type = "LIMIT" /\ ~o.postOnly => o.tif \in {"GTC", "IOC", "GTX"}
  BY <1>1 DEF Accepts, Query, SideText, TypeText, TimeInForceText, NoText
<1>4. p.side = o.side /\ p.type = o.type
  BY <1>1, <1>2, <1>3 DEF Published, SideOf, TypeOf, SideText, TypeText, Sides, OrderTypes
<1>5. o.type = "LIMIT" => p.tif = IF o.postOnly THEN "GTX" ELSE o.tif
  BY <1>2, <1>3 DEF Published, TimeInForceOf, TimeInForceText
<1>6. p.effect = o.effect
  <2>1. p.effect = EffectOf(r.positionSide, o.side)
    BY <1>2, <1>3 DEF Published, SideText
  <2> QED
    BY <1>1, <1>2, <1>3, <2>1 DEF EffectOf, PositionSideText, Sides, Effects
<1> QED
  BY <1>4, <1>5, <1>6 DEF Kept

\* Orders of other kinds, placed elsewhere, may be published with less than the
\* exchange says, but never as something else: a defined term is published only
\* of a report that has it, up to the trigger of a stop and the hidden flag.
THEOREM NothingInvented ==
  \A r \in Reports :
    LET p == Published(r) IN
      /\ p.side # "UNDEFINED" => r.side = p.side
      /\ p.type # "UNDEFINED" => r.type \in IF p.type = "LIMIT" THEN {"LIMIT", "STOP"}
                                            ELSE {"MARKET", "STOP_MARKET"}
      /\ p.tif # "UNDEFINED" => r.timeInForce \in {p.tif} \cup IF p.tif = "GTC" THEN {"HIDDEN"} ELSE {}
      /\ p.effect # "UNDEFINED" => PositionSideText(p.effect, p.side) = r.positionSide
<1> SUFFICES ASSUME NEW r \in Reports
             PROVE  LET p == Published(r) IN
      /\ p.side # "UNDEFINED" => r.side = p.side
      /\ p.type # "UNDEFINED" => r.type \in IF p.type = "LIMIT" THEN {"LIMIT", "STOP"}
                                            ELSE {"MARKET", "STOP_MARKET"}
      /\ p.tif # "UNDEFINED" => r.timeInForce \in {p.tif} \cup IF p.tif = "GTC" THEN {"HIDDEN"} ELSE {}
      /\ p.effect # "UNDEFINED" => PositionSideText(p.effect, p.side) = r.positionSide
  OBVIOUS
<1> DEFINE p == Published(r)
<1>1. p.side # "UNDEFINED" => r.side = p.side
  BY DEF Published, SideOf
<1>2. p.type # "UNDEFINED" => r.type \in IF p.type = "LIMIT" THEN {"LIMIT", "STOP"}
                                         ELSE {"MARKET", "STOP_MARKET"}
  BY DEF Published, TypeOf
<1>3. p.tif # "UNDEFINED" => r.timeInForce \in {p.tif} \cup IF p.tif = "GTC" THEN {"HIDDEN"} ELSE {}
  BY DEF Published, TimeInForceOf
<1>4. p.effect # "UNDEFINED" => PositionSideText(p.effect, p.side) = r.positionSide
  BY DEF Published, EffectOf, SideOf, PositionSideText
<1> QED
  BY <1>1, <1>2, <1>3, <1>4
=============================================================================
