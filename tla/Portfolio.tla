------------------------------ MODULE Portfolio ------------------------------
(***************************************************************************)
(* The simulated portfolio of a replay (sim/portfolio.py, sim/fills.py):   *)
(* pure operators from a portfolio to the portfolio after the call.        *)
(*                                                                         *)
(* A portfolio is a record: cash, positions (NONE where the ticker is not  *)
(* held), closed_positions (a set: a position is told from the others by   *)
(* its day and decision) and realized_pl_total.  Money is in integer price *)
(* units, chosen so that slippage and stop distance are exact.             *)
(***************************************************************************)
EXTENDS Risk

CONSTANTS
  NONE,          \* Python's None
  StartingCash,  \* config.starting_cash
  SlippageBps    \* config.slippage_bps

\* A position, with the tick it was filled at and the decision that asked for it.
PositionRecord == [side : Side, qty : Nat, entry_price : Nat, entry_day : Nat,
                   entry_tick : Nat, stop_price : Int, decision_id : Nat]

ASSUME PortfolioAssumption ==
  /\ StartingCash \in Nat \ {0}
  /\ SlippageBps \in 0..10000
  /\ NONE \notin PositionRecord

apply_slippage(reference, side) ==
  LET delta == (reference * SlippageBps) \div 10000
  IN  IF side = "buy" THEN reference + delta ELSE reference - delta

Opposite(side) == IF side = "buy" THEN "sell" ELSE "buy"
signed_qty(pos) == IF pos.side = "buy" THEN pos.qty ELSE -pos.qty

EmptyPortfolio ==
  [cash |-> StartingCash, positions |-> [t \in Ticker |-> NONE],
   closed_positions |-> {}, realized_pl_total |-> 0]

Held(p) == {t \in Ticker : p.positions[t] # NONE}

\* What the open positions cost, a short counting negative.
CostOfPositions(p) ==
  SumFunction([t \in Held(p) |-> signed_qty(p.positions[t]) * p.positions[t].entry_price])

\* equity({}): every position at its entry price.
equity(p) == p.cash + CostOfPositions(p)

\* mutant: the quantity of a short is negative
SignedPosition(fill) ==
  [fill EXCEPT !.qty = IF fill.side = "buy" THEN fill.qty ELSE -fill.qty]
PositionOf(fill) == fill

record_entry(p, t, fill) ==
  [cash |-> p.cash - signed_qty(fill) * fill.entry_price,
   positions |-> [s \in Ticker |-> IF s = t THEN PositionOf(fill) ELSE p.positions[s]],
   closed_positions |-> p.closed_positions,
   realized_pl_total |-> p.realized_pl_total]

Realized(pos, exit_price) == (exit_price - pos.entry_price) * signed_qty(pos)

\* mutant: buying a short back credits the cash
CreditedExit(pos, exit_price) == pos.qty * exit_price
CashFromExit(pos, exit_price) == signed_qty(pos) * exit_price

\* record_exit of each of the tickers, at the price of the ticker.
record_exit(p, tickers, exit_price, exit_tick, reason) ==
  [cash |-> p.cash +
     SumFunction([t \in tickers |-> CashFromExit(p.positions[t], exit_price[t])]),
   positions |-> [s \in Ticker |-> IF s \in tickers THEN NONE ELSE p.positions[s]],
   closed_positions |-> p.closed_positions \cup
     {[ticker |-> t, position |-> p.positions[t], exit_price |-> exit_price[t],
       exit_tick |-> exit_tick, exit_reason |-> reason] : t \in tickers},
   realized_pl_total |-> p.realized_pl_total +
     SumFunction([t \in tickers |-> Realized(p.positions[t], exit_price[t])])]

\* check_stops of one position: the bar reached the stop; no bar, no stop.
StopTouched(pos, bar) ==
  /\ bar # NONE
  /\ IF pos.side = "buy" THEN bar.low <= pos.stop_price
                         ELSE bar.high >= pos.stop_price
=============================================================================
