----------------------------- MODULE Brokerage ------------------------------
(***************************************************************************)
(* EXTERNAL: the Alpaca account behind execution/alpaca_orders.py, as far  *)
(* as the client's calls can tell.  It is not code of the repository; it   *)
(* is modelled from what the client sends and how it reads the answers.    *)
(*                                                                         *)
(* An order is an entry (a limit order with exit legs, time in force       *)
(* "day") together with the lot it becomes once filled:                    *)
(*   resting   accepted, not filled: GET /v2/positions does not show it    *)
(*   open      filled: part of the ticker's position                       *)
(*   closing   a liquidation order works on it; still part of the position *)
(*   exited, cancelled                                                     *)
(* and its exit legs (stop loss, with or without take profit) are          *)
(*   live       held at the broker, holding the lot's shares               *)
(*   releasing  cancelled, the shares not yet released (held_for_orders)   *)
(*   none                                                                  *)
(***************************************************************************)
EXTENDS Risk

CONSTANTS
  MaxOrders,  \* bound: entries ever accepted
  MaxQty,     \* largest order quantity
  NONE        \* "no ticker"

ASSUME BrokerageAssumption ==
  /\ MaxOrders \in Nat
  /\ MaxQty \in Nat \ {0}
  /\ NONE \notin Ticker

VARIABLES
  orders,  \* the account's orders and lots, by id
  sent,    \* number of entries accepted so far: the ids in use are 1..sent
  market   \* is the exchange in its regular session

broker == <<orders, sent, market>>

OrderId == 1..MaxOrders
Status  == {"unsent", "resting", "open", "closing", "exited", "cancelled"}
Legs    == {"none", "live", "releasing"}
Order   == [ticker : Ticker \cup {NONE}, side : Side, qty : 0..MaxQty,
            st : Status, legs : Legs]

Unsent == [ticker |-> NONE, side |-> "buy", qty |-> 0,
           st |-> "unsent", legs |-> "none"]

BrokerageTypeOK ==
  /\ orders \in [OrderId -> Order]
  /\ sent \in 0..MaxOrders
  /\ market \in BOOLEAN
  /\ \A i \in OrderId : orders[i].st # "unsent" <=> i <= sent
  /\ \A i \in OrderId : orders[i].st # "unsent" => orders[i].ticker \in Ticker

BrokerageInit ==
  /\ orders = [i \in OrderId |-> Unsent]
  /\ sent = 0
  /\ market = TRUE

Moved(o, st, legs) == [o EXCEPT !.st = st, !.legs = legs]

-----------------------------------------------------------------------------
InPosition(i) == orders[i].st \in {"open", "closing"}
Working(i)    == orders[i].st \in {"resting", "open", "closing"}

HeldIds     == {i \in OrderId : InPosition(i)}
RestingIds  == {i \in OrderId : orders[i].st = "resting"}
LotsOf(t)   == {i \in HeldIds : orders[i].ticker = t}
TickersOf(S) == {orders[i].ticker : i \in S}

\* GET /v2/positions answered when the lots in S were held: the signed shares
\* per ticker, every share worth one price unit.
Signed(o) == IF o.side = "buy" THEN o.qty ELSE -o.qty
PositionsOf(S) ==
  [t \in Ticker |->
     [quantity |-> SumFunctionOnSet([i \in OrderId |-> Signed(orders[i])],
                                    {i \in S : orders[i].ticker = t}),
      current_price |-> 1]]

\* qty_available < qty: a leg or a liquidation order holds the shares.
SharesHeld(t) ==
  \E i \in LotsOf(t) : orders[i].legs # "none" \/ orders[i].st = "closing"

\* The broker refuses an entry against a working order or position of the
\* same symbol (shares held for the exit legs, wash-trade protection).
Acceptable(t, side) ==
  \A i \in OrderId : Working(i) /\ orders[i].ticker = t => orders[i].side = side

-----------------------------------------------------------------------------
(* Requests; each is one conjunct of the client's action that sends it.    *)

Accept(t, side, qty) ==
  /\ Acceptable(t, side)
  /\ sent' = sent + 1
  /\ orders' = [orders EXCEPT ![sent + 1] =
                  [ticker |-> t, side |-> side, qty |-> qty,
                   st |-> "resting", legs |-> "none"]]
  /\ UNCHANGED market

\* DELETE /v2/orders took effect for the orders in S: entries, exit legs and
\* liquidation orders alike.
Cancelled(o) ==
  Moved(o, IF o.st = "resting" THEN "cancelled"
           ELSE IF o.st = "closing" THEN "open" ELSE o.st,
           IF o.legs = "live" THEN "releasing" ELSE o.legs)

HasOrder(i) == orders[i].st \in {"resting", "closing"} \/ orders[i].legs = "live"
CancelOrders(S) ==
  /\ orders' = [i \in OrderId |-> IF i \in S THEN Cancelled(orders[i]) ELSE orders[i]]
  /\ UNCHANGED <<sent, market>>

\* DELETE /v2/positions/{symbol} accepted: the whole position is liquidated.
Liquidate(t) ==
  /\ orders' = [i \in OrderId |-> IF i \in LotsOf(t)
                                  THEN Moved(orders[i], "closing", orders[i].legs)
                                  ELSE orders[i]]
  /\ UNCHANGED <<sent, market>>

-----------------------------------------------------------------------------
(* What the broker does on its own.                                        *)

FillEntry(i) ==
  /\ market
  /\ orders[i].st = "resting"
  /\ orders' = [orders EXCEPT ![i] = Moved(@, "open", "live")]
  /\ UNCHANGED <<sent, market>>

\* The stop or the take profit fires.
ExitLegFires(i) ==
  /\ market
  /\ orders[i].st = "open"
  /\ orders[i].legs = "live"
  /\ orders' = [orders EXCEPT ![i] = Moved(@, "exited", "none")]
  /\ UNCHANGED <<sent, market>>

ReleaseShares(i) ==
  /\ orders[i].legs = "releasing"
  /\ orders' = [orders EXCEPT ![i] = Moved(@, @.st, "none")]
  /\ UNCHANGED <<sent, market>>

FillLiquidation(i) ==
  /\ market
  /\ orders[i].st = "closing"
  /\ orders' = [orders EXCEPT ![i] = Moved(@, "exited", @.legs)]
  /\ UNCHANGED <<sent, market>>

\* Day orders expire at the close: unfilled entries and exit legs.
ExpireDayOrders ==
  orders' = [i \in OrderId |->
               Moved(orders[i],
                     IF orders[i].st = "resting" THEN "cancelled" ELSE orders[i].st,
                     "none")]

BrokerStep ==
  \E i \in OrderId : \/ FillEntry(i)
                     \/ ExitLegFires(i)
                     \/ ReleaseShares(i)
                     \/ FillLiquidation(i)
=============================================================================
