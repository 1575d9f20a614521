------------------------------- MODULE Replay -------------------------------
(***************************************************************************)
(* A backtest: run_replay (data/replay/driver.py) takes the trading days   *)
(* one by one.  A day is prepared, its ticks are evaluated, the decisions  *)
(* and the bars are walked over the simulated portfolio, what is left open *)
(* is flattened, and the day is written to the results database in one     *)
(* transaction.  A day whose preparation or evaluation raises is skipped;  *)
(* any other error, and a kill, ends the run where it stands.              *)
(*                                                                         *)
(* The evaluation of a context is external: any action. The base strategy, *)
(* the labels of tier 3 and the equity curve are part of ReplayReport.     *)
(***************************************************************************)
EXTENDS Portfolio, Sequences

CONSTANTS
  Days,            \* trading days of the run
  Ticks,           \* five-minute ticks of a day (78 in the code)
  TickerOrder,     \* insertion order of day_state.tickers
  SeriesOf,        \* per ticker, the series of bars a day may have
  FillModes,       \* the values of config.fill_at that are considered
  StopPct,         \* the outcome of compute_atr_stop_pct
  RiskPct,         \* config.risk_per_trade_pct
  MaxCandidates,   \* config.max_candidates_per_tick
  MaxEvaluations   \* bound: evaluations of the whole run

ASSUME ReplayAssumption ==
  /\ {Days, Ticks, StopPct, RiskPct, MaxCandidates} \subseteq Nat \ {0}
  /\ MaxEvaluations \in Nat
  /\ TickerOrder \in Seq(Ticker)
  /\ \A t \in Ticker : \E i \in DOMAIN TickerOrder : TickerOrder[i] = t
  /\ Len(TickerOrder) = Cardinality(Ticker)
  /\ FillModes \subseteq {"next_bar_open", "current_close"}
  /\ \A t \in Ticker : \A series \in SeriesOf[t] : \A k \in 1..Ticks :
       series[k] # NONE => /\ {series[k].low, series[k].high} \subseteq Nat \ {0}
                           /\ series[k].open \in series[k].low..series[k].high
                           /\ series[k].close \in series[k].low..series[k].high

VARIABLES
  fill_at,         \* config.fill_at
  pc,              \* where run_replay is
  day,             \* trading_date
  tick,            \* the tick evaluated next, then the last bar walked
  bars,            \* day_state: per ticker and tick, the bar or NONE
  decisions,       \* the day's decisions in order; the index is decision_id
  applied,         \* decisions already applied to the portfolio
  portfolio,
  rejections,      \* the day's RejectedEntry rows
  evaluations,     \* evaluations since the start of the run
  skipped,         \* days skipped
  db               \* replay_results.db: the rows of this run

vars == <<fill_at, pc, day, tick, bars, decisions, applied, portfolio,
          rejections, evaluations, skipped, db>>

Action == {"Buy", "Sell", "Hold"}
_entry_side(action) == IF action = "Buy" THEN "buy" ELSE "sell"

EmptyDb == [decisions |-> <<>>, fills |-> {}, rejections |-> {}, completed |-> FALSE]

Init ==
  /\ fill_at \in FillModes
  /\ pc = "prepare" /\ day = 1 /\ tick = 0
  /\ bars = NONE /\ decisions = <<>> /\ applied = 0 /\ rejections = {}
  /\ portfolio = EmptyPortfolio
  /\ evaluations = 0 /\ skipped = {}
  /\ db = EmptyDb

-----------------------------------------------------------------------------
(* Preparing and evaluating a day.                                         *)

\* The next iteration of the loop over the days: its locals start afresh.
NextDay ==
  /\ day' = day + 1
  /\ pc' = IF day = Days THEN "complete" ELSE "prepare"
  /\ tick' = 0 /\ bars' = NONE /\ decisions' = <<>> /\ applied' = 0 /\ rejections' = {}

\* build_day_state
PrepareDay ==
  /\ pc = "prepare"
  /\ \E chosen \in [Ticker -> UNION {SeriesOf[t] : t \in Ticker}] :
       /\ \A t \in Ticker : chosen[t] \in SeriesOf[t]
       /\ bars' = chosen
  /\ pc' = "evaluate" /\ tick' = 1
  /\ UNCHANGED <<fill_at, day, decisions, applied, portfolio, rejections,
                 evaluations, skipped, db>>

\* build_day_state or run_day_ticks raises.
SkipDay ==
  /\ pc \in {"prepare", "evaluate"}
  /\ skipped' = skipped \cup {day}
  /\ NextDay
  /\ UNCHANGED <<fill_at, portfolio, evaluations, db>>

\* The names among the tickers, in insertion order.
InOrder(names) ==
  LET upto[n \in 0..Len(TickerOrder)] ==
        IF n = 0 THEN <<>>
        ELSE IF TickerOrder[n] \in names THEN Append(upto[n - 1], TickerOrder[n])
        ELSE upto[n - 1]
  IN  upto[Len(TickerOrder)]

\* pre_filter_candidates: a catalyst, or a position held.
pre_filter_candidates(catalysts, holding) ==
  LET passing == InOrder(catalysts \cup holding)
  IN  SubSeq(passing, 1, Lesser(Len(passing), MaxCandidates))

\* One tick of run_day_ticks.
EvaluateTick(catalysts) ==
  LET candidates == pre_filter_candidates(catalysts, Held(portfolio))
  IN  /\ pc = "evaluate"
      /\ evaluations' = evaluations + Len(candidates)
      /\ evaluations' <= MaxEvaluations
      /\ \E chosen \in [DOMAIN candidates -> Action] :
           decisions' = decisions \o [i \in DOMAIN candidates |->
             [tick |-> tick, ticker |-> candidates[i], action |-> chosen[i]]]
      /\ IF tick = Ticks THEN pc' = "walk" /\ tick' = 0
                         ELSE pc' = pc /\ tick' = tick + 1
      /\ UNCHANGED <<fill_at, day, bars, applied, portfolio, rejections, skipped, db>>

-----------------------------------------------------------------------------
(* apply_day_to_portfolio: per tick the bar, then the decisions of it.     *)

\* mutant: the decisions of a tick are applied before its bar
PendingAhead ==
  applied < Len(decisions) /\ decisions[applied + 1].tick <= tick + 1
Pending ==
  applied < Len(decisions) /\ decisions[applied + 1].tick = tick

\* apply_bar_to_portfolio
ApplyBar ==
  LET bar_et  == tick + 1
      stopped == {t \in Held(portfolio) :
                    StopTouched(portfolio.positions[t], bars[t][bar_et])}
  IN  /\ pc = "walk" /\ tick < Ticks /\ ~Pending
      /\ tick' = bar_et
      /\ portfolio' = record_exit(portfolio, stopped,
           [t \in stopped |-> portfolio.positions[t].stop_price], bar_et, "stop_hit")
      /\ UNCHANGED <<fill_at, pc, day, bars, decisions, applied, rejections,
                     evaluations, skipped, db>>

\* _lookup_bars_at and _fill_reference
FillTick(k) == IF fill_at = "next_bar_open" THEN k + 1 ELSE k
HasBar(t, k) == k <= Ticks /\ bars[t][k] # NONE
FillReference(t, k) ==
  IF fill_at = "next_bar_open" THEN bars[t][k + 1].open ELSE bars[t][k].close

_open_positions_for_risk(p) ==
  [t \in Ticker |-> IF t \in Held(p)
     THEN [quantity |-> signed_qty(p.positions[t]), current_price |-> p.positions[t].entry_price]
     ELSE [quantity |-> 0, current_price |-> 0]]

StopPrice(side, reference) ==
  LET delta == (reference * StopPct) \div 100
  IN  IF side = "buy" THEN reference - delta ELSE reference + delta

Rejection(id, reason) == [decision_id |-> id, reason |-> reason]

\* _attempt_entry on a portfolio that does not hold the ticker.
_attempt_entry(p, id, t, k, side) ==
  LET reference == FillReference(t, k)
      requested == size_from_risk(equity(p), reference, StopPct, RiskPct)
      check == validate_order(t, side, requested, reference, equity(p),
                              _open_positions_for_risk(p))
      fill == [side |-> side, qty |-> check.quantity,
               entry_price |-> apply_slippage(reference, side),
               entry_day |-> day, entry_tick |-> FillTick(k),
               stop_price |-> StopPrice(side, reference), decision_id |-> id]
  IN  IF equity(p) <= 0
        THEN /\ portfolio' = p
             /\ rejections' = rejections \cup {Rejection(id, "invalid_equity")}
      ELSE IF ~check.approved
        THEN /\ portfolio' = p
             /\ rejections' = rejections \cup {Rejection(id, check.reason)}
      ELSE /\ portfolio' = record_entry(p, t, fill)
           /\ UNCHANGED rejections

\* A position on the other side is closed at the price of the fill first.
AfterFlip(t, k) ==
  LET exit_side == Opposite(portfolio.positions[t].side)
  IN  IF t \in Held(portfolio)
      THEN record_exit(portfolio, {t},
             [s \in {t} |-> apply_slippage(FillReference(t, k), exit_side)], FillTick(k), "flip")
      ELSE portfolio

\* _apply_one_decision
ApplyOneDecision ==
  LET id   == applied + 1
      d    == decisions[id]
      side == _entry_side(d.action)
      heldOnSide == d.ticker \in Held(portfolio) /\ portfolio.positions[d.ticker].side = side
      tradable == /\ d.action # "Hold"
                  /\ HasBar(d.ticker, d.tick) /\ HasBar(d.ticker, FillTick(d.tick))
      Reject(reason) == /\ rejections' = rejections \cup {Rejection(id, reason)}
                        /\ UNCHANGED portfolio
  IN  /\ pc = "walk" /\ Pending
      /\ applied' = id
      /\ \/ d.action = "Hold" /\ UNCHANGED <<portfolio, rejections>>
         \/ /\ d.action # "Hold" /\ ~HasBar(d.ticker, d.tick)
            /\ Reject("no_5min_bar_at_tick")
         \/ /\ d.action # "Hold" /\ HasBar(d.ticker, d.tick) /\ ~HasBar(d.ticker, FillTick(d.tick))
            /\ Reject("no_next_bar_for_fill")
         \/ tradable /\ heldOnSide /\ UNCHANGED <<portfolio, rejections>>
         \/ tradable /\ ~heldOnSide /\
              _attempt_entry(AfterFlip(d.ticker, d.tick), id, d.ticker, d.tick, side)
      /\ UNCHANGED <<fill_at, pc, day, tick, bars, decisions, evaluations, skipped, db>>

\* mutant: a ticker without a bar at the close is left open
HeldWithBar == {t \in Held(portfolio) : bars[t][Ticks] # NONE}
OpenTickers == Held(portfolio)

\* flatten_at_eod: at the close of the last bar, or at the entry price.
FlattenPrice(t) ==
  IF bars[t][Ticks] # NONE THEN bars[t][Ticks].close ELSE portfolio.positions[t].entry_price

flatten_at_eod ==
  /\ pc = "walk" /\ tick = Ticks /\ ~Pending
  /\ portfolio' = record_exit(portfolio, OpenTickers,
       [t \in OpenTickers |-> FlattenPrice(t)], Ticks, "eod_flatten")
  /\ pc' = "persist"
  /\ UNCHANGED <<fill_at, day, tick, bars, decisions, applied, rejections,
                 evaluations, skipped, db>>
-----------------------------------------------------------------------------
(* The results database.                                                   *)

\* mutant: closed positions of every day are written again
AllClosed == portfolio.closed_positions
ClosedToday == {c \in portfolio.closed_positions : c.position.entry_day = day}
OpenToday == {t \in Held(portfolio) : portfolio.positions[t].entry_day = day}

\* per_day_to_global: the row ids of a day follow those already there.
GlobalId(id) == Len(db.decisions) + id
Linked(id) == id \in DOMAIN decisions

FillRow(t, pos, realized) ==
  [decision_id |-> GlobalId(pos.decision_id), ticker |-> t, side |-> pos.side,
   realized_pl |-> realized]

FillRows ==
  {FillRow(c.ticker, c.position, Realized(c.position, c.exit_price)) :
     c \in {x \in ClosedToday : Linked(x.position.decision_id)}}
  \cup {FillRow(t, portfolio.positions[t], NONE) :
     t \in {x \in OpenToday : Linked(portfolio.positions[x].decision_id)}}

DecisionRows ==
  [i \in DOMAIN decisions |->
     [trading_date |-> day, ticker |-> decisions[i].ticker, action |-> decisions[i].action]]

\* write_day_results of a day that was not skipped: one transaction.
PersistDay ==
  /\ pc = "persist"
  /\ db' = [db EXCEPT
       !.decisions = @ \o DecisionRows,
       !.fills = @ \cup FillRows,
       !.rejections = @ \cup {[decision_id |-> GlobalId(r.decision_id), reason |-> r.reason] :
                                r \in {x \in rejections : Linked(x.decision_id)}}]
  /\ NextDay
  /\ UNCHANGED <<fill_at, portfolio, evaluations, skipped>>

complete_run ==
  /\ pc = "complete"
  /\ db' = [db EXCEPT !.completed = TRUE]
  /\ pc' = "returned"
  /\ UNCHANGED <<fill_at, day, tick, bars, decisions, applied, portfolio,
                 rejections, evaluations, skipped>>

\* A kill, or an error outside the two guarded calls.  A transaction that
\* fails is rolled back; the portfolio dies with the process.
Abort ==
  /\ pc \notin {"returned", "dead"}
  /\ pc' = "dead"
  /\ UNCHANGED <<fill_at, day, tick, bars, decisions, applied, portfolio,
                 rejections, evaluations, skipped, db>>

Finished == pc \in {"returned", "dead"} /\ UNCHANGED vars

Next ==
  \/ PrepareDay \/ SkipDay
  \/ \E catalysts \in SUBSET Ticker : EvaluateTick(catalysts)
  \/ ApplyBar \/ ApplyOneDecision \/ flatten_at_eod
  \/ PersistDay \/ complete_run
  \/ Abort \/ Finished

Spec == Init /\ [][Next]_vars
-----------------------------------------------------------------------------
(* What a replay promises.                                                 *)

Position == [side : Side, qty : Nat \ {0}, entry_price : Nat, entry_day : 1..Days,
             entry_tick : 1..Ticks, stop_price : Nat, decision_id : Nat \ {0}]
ClosedPosition == [ticker : Ticker, position : Position, exit_price : Nat, exit_tick : 1..Ticks,
                   exit_reason : {"stop_hit", "flip", "eod_flatten"}]
DayBars == [Ticker -> UNION {SeriesOf[t] : t \in Ticker}]

TypeOK ==
  /\ fill_at \in FillModes
  /\ pc \in {"prepare", "evaluate", "walk", "persist", "complete", "returned", "dead"}
  /\ day \in 1..(Days + 1) /\ tick \in 0..Ticks
  /\ bars \in DayBars \cup {NONE}
  /\ decisions \in Seq([tick : 1..Ticks, ticker : Ticker, action : Action])
  /\ applied \in 0..Len(decisions)
  /\ portfolio.cash \in Int /\ portfolio.realized_pl_total \in Int
  /\ portfolio.positions \in [Ticker -> Position \cup {NONE}]
  /\ portfolio.closed_positions \subseteq ClosedPosition
  /\ rejections \subseteq [decision_id : 1..Len(decisions), reason : STRING]
  /\ evaluations \in 0..MaxEvaluations
  /\ skipped \subseteq 1..Days
  /\ db.decisions \in Seq([trading_date : 1..Days, ticker : Ticker, action : Action])
  /\ db.completed \in BOOLEAN

\* Through entries, stops, flips and flattens, long and short, what the cash
\* and the cost of the open positions add up to is the starting cash and the
\* profit that was realized.
BooksBalance ==
  equity(portfolio) = StartingCash + portfolio.realized_pl_total

\* A short that was bought back at more than twice what it was sold for.
SqueezedShort ==
  \E c \in portfolio.closed_positions :
    c.position.side = "sell" /\ c.exit_price > 2 * c.position.entry_price

\* The caps of validate_order, applied at entry prices, keep the replay from
\* spending cash it does not have, whatever the order of entries, flips,
\* losses and slippage: only a short that more than doubles can cost it more.
SpendsOwnCash == portfolio.cash >= 0 \/ SqueezedShort

\* Both: the cash is all there, and it is the replay's own.
CashAddsUp == BooksBalance /\ SpendsOwnCash

\* A position lives within its day: every day starts flat, also after a day
\* without a last bar, after a skipped day and after an entry at the close.
FlatBetweenDays ==
  \A t \in Held(portfolio) :
    pc \in {"walk", "dead"} /\ portfolio.positions[t].entry_day = day

\* A decision is filled no earlier than it was taken, at the price of a bar
\* that was not over yet (the next one's open, or its own bar's close), and a
\* stop is hit only by a bar that comes after the entry and that reached it.
NoHindsight ==
  pc \in {"walk", "persist"} =>
    \A c \in {x \in portfolio.closed_positions : x.position.entry_day = day} :
      LET pos == c.position
          decided == decisions[pos.decision_id].tick
      IN  /\ pos.entry_tick = IF fill_at = "next_bar_open" THEN decided + 1 ELSE decided
          /\ pos.entry_tick <= c.exit_tick
          /\ c.exit_reason = "stop_hit" =>
               decided < c.exit_tick /\ StopTouched(pos, bars[c.ticker][c.exit_tick])

\* The database tells the story of the book: the fills are one for one the
\* positions of the days that are over, each linked to a decision of the same
\* day and ticker that asked for that side, with the same profit; a decision
\* is not both filled and rejected; and a skipped day leaves no row.  The ids
\* restart at 1 every day, and the closed positions of all days are kept.
LedgerMatchesBook ==
  LET settled == {c \in portfolio.closed_positions : c.position.entry_day < day}
      Tells(f, c) == /\ db.decisions[f.decision_id].trading_date = c.position.entry_day
                     /\ f.ticker = c.ticker /\ f.side = c.position.side
                     /\ f.realized_pl = Realized(c.position, c.exit_price)
  IN  /\ Cardinality(db.fills) = Cardinality(settled)
      /\ \A c \in settled : \E f \in db.fills : Tells(f, c)
      /\ \A f \in db.fills :
           LET d == db.decisions[f.decision_id]
           IN  d.ticker = f.ticker /\ d.action # "Hold" /\ _entry_side(d.action) = f.side
      /\ {f.decision_id : f \in db.fills} \cap {r.decision_id : r \in db.rejections} = {}
      /\ \A i \in DOMAIN db.decisions : db.decisions[i].trading_date \notin skipped
=============================================================================
