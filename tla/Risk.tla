-------------------------------- MODULE Risk --------------------------------
(***************************************************************************)
(* The pure pre-trade risk functions of strategy/risk.py.                  *)
(*                                                                         *)
(* Money is counted in integer price units and percentages are compared    *)
(* multiplied out (100 * notional <= equity * pct), which is the exact     *)
(* order of the code's comparisons without its floating point.             *)
(*                                                                         *)
(* A book is [Ticker -> [quantity : Int, current_price : Nat]]; quantity   *)
(* is negative for a short and 0 where the account holds no position,      *)
(* which stands for the ticker's absence from the list of positions.       *)
(***************************************************************************)
EXTENDS Integers, FiniteSetsExt

CONSTANTS
  Ticker,               \* symbols that may be traded
  MaxPositionPct,       \* risk.max_position_pct
  MaxTotalExposurePct   \* risk.max_total_exposure_pct

ASSUME RiskAssumption ==
  /\ IsFiniteSet(Ticker)
  /\ MaxPositionPct \in Nat \ {0}
  /\ MaxTotalExposurePct \in Nat \ {0}

Side == {"buy", "sell"}

Magnitude(n) == IF n < 0 THEN -n ELSE n
Lesser(a, b) == IF a <= b THEN a ELSE b
Greater(a, b) == IF a <= b THEN b ELSE a

-----------------------------------------------------------------------------
market_value(p) == Magnitude(p.quantity) * p.current_price

TotalExposure(book) == SumFunction([t \in Ticker |-> market_value(book[t])])

\* Check 1 scales an oversized request down to the largest whole number of
\* shares under the position cap; 0 when not even one share fits.
CappedQuantity(qty, price, equity) ==
  IF 100 * qty * price > equity * MaxPositionPct
  THEN (equity * MaxPositionPct) \div (100 * price)
  ELSE qty

OwnExposure(t, side, notional, book) ==  \* mutant: other positions are ignored
  market_value(book[t]) + notional

\* Check 2: the exposure the code expects once the order has filled. An order
\* against the position offsets it up to its value; what is left over after
\* a flip through zero adds exposure on the other side.
ProjectedExposure(t, side, notional, book) ==
  LET held     == book[t]
      total    == TotalExposure(book)
      isAdding == \/ side = "buy" /\ held.quantity > 0
                  \/ side = "sell" /\ held.quantity < 0
      offset   == Lesser(notional, market_value(held))
  IN  IF held.quantity = 0 \/ isAdding
      THEN total + notional
      ELSE (total - offset) + (notional - offset)

\* The first check that fails, or "ok".
Verdict(t, side, requested, price, equity, book) ==
  LET qty == CappedQuantity(requested, price, equity)
  IN  IF requested <= 0 THEN "invalid_quantity"
      ELSE IF price <= 0 THEN "invalid_price"
      ELSE IF equity <= 0 THEN "invalid_equity"
      ELSE IF qty <= 0 THEN "position_cap_below_one_share"
      ELSE IF 100 * ProjectedExposure(t, side, qty * price, book)
                > equity * MaxTotalExposurePct
           THEN "total_exposure_cap_exceeded"
      ELSE "ok"

validate_order(t, side, requested, price, equity, book) ==
  LET reason == Verdict(t, side, requested, price, equity, book)
  IN  [approved |-> reason = "ok",
       quantity |-> IF reason = "ok" THEN CappedQuantity(requested, price, equity)
                                     ELSE 0,
       reason   |-> reason]

\* Shares such that the loss at the stop is risk_pct of equity, at least one.
size_from_risk(equity, price, stop_pct, risk_pct) ==
  IF price <= 0 \/ stop_pct <= 0 \/ equity <= 0 THEN 0
  ELSE Greater(1, (equity * risk_pct) \div (price * stop_pct))
=============================================================================
