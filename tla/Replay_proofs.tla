---------------------------- MODULE Replay_proofs ----------------------------
(***************************************************************************)
(* Theorems about the replay, for every number of days and ticks, every    *)
(* set of tickers and series of bars, every price, cap and slippage.       *)
(*                                                                         *)
(* Of Replay, four invariants, each of which uses those before it:         *)
(*   IInv      where the run is, and where a position of the day was filled*)
(*   DayInv    the bars and the decisions of the day in hand               *)
(*   Money     the cash, the cost of what is held and the profit           *)
(*   LedgerInv the book of the day and the rows of the days before         *)
(* Of its contexts, ContextInv, of its decision cache, CacheInv, and of    *)
(* the results database, ReportInv.                                        *)
(***************************************************************************)
EXTENDS Replay, ReplayContexts, DecisionCache, ReplayReport, Sums

-----------------------------------------------------------------------------
(* What the calls on a portfolio do to its positions.                      *)

\* record_exit takes the tickers out, leaves the other positions as they were
\* and moves exactly the positions taken out to the closed ones.
LEMMA Exits ==
  ASSUME NEW p, NEW S, NEW price, NEW k, NEW reason
  PROVE  LET q == record_exit(p, S, price, k, reason)
         IN  /\ \A t \in Held(q) : t \in Held(p) \ S /\ q.positions[t] = p.positions[t]
             /\ \A c \in q.closed_positions \ p.closed_positions :
                  \E t \in S : c = [ticker |-> t, position |-> p.positions[t],
                                    exit_price |-> price[t], exit_tick |-> k,
                                    exit_reason |-> reason]
BY DEF record_exit, Held

\* record_entry adds the position of the fill and touches nothing else.
LEMMA Enters ==
  ASSUME NEW p, NEW t, NEW fill
  PROVE  LET q == record_entry(p, t, fill)
         IN  /\ \A s \in Held(q) : \/ s = t /\ q.positions[s] = fill
                                   \/ s \in Held(p) /\ q.positions[s] = p.positions[s]
             /\ q.closed_positions = p.closed_positions
BY DEF record_entry, Held, PositionOf

-----------------------------------------------------------------------------
(* The inductive invariant.  A held position says which decision opened    *)
(* it; that decision was taken at a tick already walked.                   *)

Phases == {"prepare", "evaluate", "walk", "persist", "complete", "returned", "dead"}

Control ==
  /\ pc \in Phases /\ day \in Nat /\ tick \in 0..Ticks /\ applied \in Nat

\* A position of the day in hand was filled where its decision says.
Filled(pos) ==
  LET decided == decisions[pos.decision_id].tick
  IN  /\ decided \in 0..tick
      /\ pos.entry_tick = FillTick(decided)
      /\ pos.entry_tick <= Ticks

HeldInv ==
  \A t \in Held(portfolio) :
    /\ pc \in {"walk", "dead"} /\ portfolio.positions[t].entry_day = day
    /\ pc = "walk" => Filled(portfolio.positions[t])

\* What NoHindsight says of one closed position.
Sound(c) ==
  LET pos == c.position
      decided == decisions[pos.decision_id].tick
  IN  /\ pos.entry_tick = IF fill_at = "next_bar_open" THEN decided + 1 ELSE decided
      /\ pos.entry_tick <= c.exit_tick
      /\ c.exit_reason = "stop_hit" =>
           decided < c.exit_tick /\ StopTouched(pos, bars[c.ticker][c.exit_tick])

ClosedInv ==
  \A c \in portfolio.closed_positions :
    /\ c.position.entry_day \in Int
    /\ c.position.entry_day <= day
    /\ pc \in {"prepare", "evaluate", "complete", "returned"} => c.position.entry_day < day
    /\ pc \in {"walk", "persist"} /\ c.position.entry_day = day => Sound(c)

IInv == Control /\ HeldInv /\ ClosedInv

\* What a portfolio may look like in the middle of a day.
WalkOK(p) ==
  /\ \A t \in Held(p) : p.positions[t].entry_day = day /\ Filled(p.positions[t])
  /\ \A c \in p.closed_positions :
       /\ c.position.entry_day \in Int /\ c.position.entry_day <= day
       /\ c.position.entry_day = day => Sound(c)

\* What IInv says of the portfolio while the day is walked.
LEMMA WalkOKNow == ASSUME IInv, pc = "walk" PROVE WalkOK(portfolio)
BY DEF IInv, HeldInv, ClosedInv, WalkOK

\* Closing positions of the day no earlier than they were opened keeps it so.
LEMMA ExitKeepsWalkOK ==
  ASSUME Control, NEW p, WalkOK(p), NEW S, S \subseteq Held(p),
         NEW price, NEW k, NEW reason,
         \A t \in S : /\ p.positions[t].entry_tick <= k
                      /\ reason = "stop_hit" =>
                           /\ tick < k
                           /\ StopTouched(p.positions[t], bars[t][k]),
         k \in Int
  PROVE  WalkOK(record_exit(p, S, price, k, reason))
<1> DEFINE q == record_exit(p, S, price, k, reason)
<1>1. \A t \in Held(q) : q.positions[t].entry_day = day /\ Filled(q.positions[t])
  BY Exits DEF WalkOK
<1>2. ASSUME NEW c \in q.closed_positions
      PROVE  /\ c.position.entry_day \in Int /\ c.position.entry_day <= day
             /\ c.position.entry_day = day => Sound(c)
  <2>1. CASE c \in p.closed_positions
    BY <2>1 DEF WalkOK
  <2>2. CASE c \notin p.closed_positions
    <3>1. PICK t \in S : c = [ticker |-> t, position |-> p.positions[t],
                              exit_price |-> price[t], exit_tick |-> k,
                              exit_reason |-> reason]
      BY <2>2, Exits
    <3>2. /\ p.positions[t].entry_day = day /\ Filled(p.positions[t])
          /\ p.positions[t].entry_tick <= k
      BY <3>1 DEF WalkOK
    <3>3. Sound(c)
      BY <3>1, <3>2 DEF Sound, Filled, FillTick, Control
    <3> QED BY <3>1, <3>2, <3>3 DEF Control
  <2> QED BY <2>1, <2>2
<1> HIDE DEF q
<1> QED BY <1>1, <1>2 DEF WalkOK, q

-----------------------------------------------------------------------------

\* A run starts flat, with no decision and no closed position.
LEMMA InitIInv == Init => IInv
<1> SUFFICES ASSUME Init PROVE IInv
  OBVIOUS
<1>1. Held(portfolio) = {} /\ portfolio.closed_positions = {}
  BY DEF Init, EmptyPortfolio, Held
<1> QED BY <1>1, ReplayAssumption DEF Init, IInv, Control, Phases, HeldInv, ClosedInv

\* The end of a day, skipped or written, that leaves nothing held.
LEMMA NextDayKeeps ==
  ASSUME IInv, NextDay, portfolio' = portfolio, pc \in {"prepare", "evaluate", "persist"}
  PROVE  IInv'
<1>1. Control'
  BY ReplayAssumption DEF IInv, Control, Phases, NextDay
<1>2. Held(portfolio) = {} /\ Held(portfolio)' = {}
  BY DEF IInv, HeldInv, Held
<1>3. HeldInv'
  BY <1>2 DEF HeldInv
<1>4. ClosedInv'
  BY DEF IInv, Control, ClosedInv, NextDay
<1> QED BY <1>1, <1>3, <1>4 DEF IInv

\* A step of the walk over the day whose portfolio is well formed keeps IInv.
LEMMA WalkKeeps ==
  ASSUME IInv, pc = "walk", Control', WalkOK(portfolio'),
         day' = day, fill_at' = fill_at, bars' = bars, decisions' = decisions, tick <= tick',
         \/ pc' = "walk"
         \/ pc' = "persist" /\ Held(portfolio') = {}
  PROVE  IInv'
<1>1. \A pos : Filled(pos) => Filled(pos)'
  BY DEF Filled, FillTick, IInv, Control
<1>2. \A c : Sound(c) => Sound(c)'
  BY DEF Sound, StopTouched
<1>3. HeldInv'
  BY <1>1 DEF HeldInv, WalkOK, Held
<1>4. ClosedInv'
  BY <1>2 DEF ClosedInv, WalkOK
<1> QED BY <1>3, <1>4 DEF IInv

\* Stops hit by a bar: the positions leave at the tick of the bar.
LEMMA BarKeeps == ASSUME IInv, ApplyBar PROVE IInv'
<1> DEFINE bar_et == tick + 1
           stopped == {t \in Held(portfolio) :
                         StopTouched(portfolio.positions[t], bars[t][bar_et])}
           price == [t \in stopped |-> portfolio.positions[t].stop_price]
<1>1. /\ pc = "walk" /\ tick < Ticks /\ tick' = bar_et
      /\ portfolio' = record_exit(portfolio, stopped, price, bar_et, "stop_hit")
      /\ UNCHANGED <<pc, day, fill_at, bars, decisions, applied>>
  BY DEF ApplyBar
<1>2. WalkOK(portfolio)
  BY <1>1, WalkOKNow
<1>3. \A t \in stopped : portfolio.positions[t].entry_tick <= bar_et
  BY <1>2 DEF WalkOK, Filled, FillTick, IInv, Control
<1>4. Control /\ bar_et \in Int /\ tick < bar_et
  BY DEF IInv, Control
<1>5. WalkOK(portfolio')
  <2>1. stopped \subseteq Held(portfolio)
    OBVIOUS
  <2>2. \A t \in stopped : StopTouched(portfolio.positions[t], bars[t][bar_et])
    OBVIOUS
  <2> HIDE DEF stopped, bar_et, price
  <2> QED BY <1>1, <1>2, <1>3, <1>4, <2>1, <2>2, ExitKeepsWalkOK
<1>6. Control'
  BY <1>1, ReplayAssumption DEF IInv, Control
<1>7. tick <= tick'
  BY <1>1 DEF IInv, Control
<1>8. pc = "walk" /\ pc' = "walk" /\ UNCHANGED <<day, fill_at, bars, decisions>>
  BY <1>1
<1> HIDE DEF bar_et, stopped, price
<1> QED BY <1>5, <1>6, <1>7, <1>8, WalkKeeps

\* The flatten leaves nothing held, at the last tick.
LEMMA FlattenKeeps == ASSUME IInv, flatten_at_eod PROVE IInv'
<1> DEFINE price == [t \in OpenTickers |-> FlattenPrice(t)]
<1>1. /\ pc = "walk" /\ pc' = "persist"
      /\ portfolio' = record_exit(portfolio, Held(portfolio), price, Ticks, "eod_flatten")
      /\ UNCHANGED <<tick, day, fill_at, bars, decisions, applied>>
  BY DEF flatten_at_eod, OpenTickers
<1>2. WalkOK(portfolio)
  BY <1>1, WalkOKNow
<1>3. \A t \in Held(portfolio) : portfolio.positions[t].entry_tick <= Ticks
  BY <1>2 DEF WalkOK, Filled
<1>4. WalkOK(portfolio')
  <2> HIDE DEF price
  <2>1. Control /\ Ticks \in Int
    BY ReplayAssumption DEF IInv
  <2> QED BY <1>1, <1>2, <1>3, <2>1, ExitKeepsWalkOK
<1>5. Held(portfolio') = {}
  BY <1>1, Exits
<1>6. Control' /\ tick <= tick'
  BY <1>1, ReplayAssumption DEF IInv, Control, Phases
<1> QED BY <1>1, <1>4, <1>5, <1>6, WalkKeeps DEF Held

\* A decision applied at its tick: the flip and the entry happen at the tick
\* of the fill, which has a bar.
LEMMA DecisionKeeps == ASSUME IInv, ApplyOneDecision PROVE IInv'
<1> DEFINE id == applied + 1
           d == decisions[id]
           k == FillTick(d.tick)
           side == _entry_side(d.action)
           flipped == AfterFlip(d.ticker, d.tick)
<1>1. /\ pc = "walk" /\ d.tick = tick /\ applied' = id
      /\ UNCHANGED <<pc, tick, day, fill_at, bars, decisions>>
  BY DEF ApplyOneDecision, Pending
<1>2. \/ UNCHANGED portfolio
      \/ /\ HasBar(d.ticker, k)
         /\ _attempt_entry(flipped, id, d.ticker, d.tick, side)
  BY DEF ApplyOneDecision
<1>3. WalkOK(portfolio)
  BY <1>1, WalkOKNow
<1>4. Control /\ Control'
  BY <1>1 DEF IInv, Control
<1>5. k \in Int /\ tick <= k /\ Ticks \in Int
  BY <1>1, <1>4, ReplayAssumption DEF FillTick, Control
<1>6. WalkOK(flipped)
  <2> DEFINE S == {d.ticker}
             price == [s \in S |-> apply_slippage(FillReference(d.ticker, d.tick),
                                     Opposite(portfolio.positions[d.ticker].side))]
  <2>1. CASE d.ticker \notin Held(portfolio)
    BY <1>3, <2>1 DEF AfterFlip
  <2>2. CASE d.ticker \in Held(portfolio)
    <3>1. flipped = record_exit(portfolio, S, price, k, "flip")
      BY <2>2 DEF AfterFlip
    <3>2. S \subseteq Held(portfolio)
      BY <2>2
    <3>3. \A t \in S : portfolio.positions[t].entry_tick <= k
      BY <3>2, <1>1, <1>3, <1>4, <1>5 DEF WalkOK, Filled, FillTick, Control
    <3> HIDE DEF S, price, k, flipped
    <3> QED BY <1>3, <1>4, <1>5, <3>1, <3>2, <3>3, ExitKeepsWalkOK
  <2> QED BY <2>1, <2>2
<1>7. ASSUME HasBar(d.ticker, k), _attempt_entry(flipped, id, d.ticker, d.tick, side)
      PROVE  WalkOK(portfolio')
  <2>1. CASE portfolio' = flipped
    BY <1>6, <2>1
  <2>2. CASE portfolio' # flipped
    <3> DEFINE quantity == validate_order(d.ticker, side,
                 size_from_risk(equity(flipped), FillReference(d.ticker, d.tick), StopPct, RiskPct),
                 FillReference(d.ticker, d.tick), equity(flipped),
                 _open_positions_for_risk(flipped)).quantity
               fill == [side |-> side, qty |-> quantity,
                 entry_price |-> apply_slippage(FillReference(d.ticker, d.tick), side),
                 entry_day |-> day, entry_tick |-> k,
                 stop_price |-> StopPrice(side, FillReference(d.ticker, d.tick)),
                 decision_id |-> id]
    <3>1. portfolio' = record_entry(flipped, d.ticker, fill)
      BY <1>7, <2>2 DEF _attempt_entry
    <3>2. Filled(fill)
      BY <3>1, <1>1, <1>4, <1>5, <1>7 DEF Filled, HasBar, Control
    <3>3. fill.entry_day = day
      OBVIOUS
    <3> HIDE DEF fill, flipped
    <3> QED BY <3>1, <3>2, <3>3, <1>6, Enters DEF WalkOK
  <2> QED BY <2>1, <2>2
<1>8. WalkOK(portfolio')
  BY <1>2, <1>3, <1>7
<1>9. tick <= tick'
  BY <1>1, <1>4 DEF Control
<1>10. pc' = "walk" /\ UNCHANGED <<day, fill_at, bars, decisions>>
  BY <1>1
<1> QED BY <1>1, <1>4, <1>8, <1>9, <1>10, WalkKeeps

\* Every step keeps IInv.
LEMMA NextIInv == IInv /\ [Next]_vars => IInv'
<1> SUFFICES ASSUME IInv, [Next]_vars PROVE IInv'
  OBVIOUS
<1>1. CASE PrepareDay
  <2>1. Held(portfolio) = {}
    BY <1>1 DEF PrepareDay, IInv, HeldInv, Held
  <2>2. /\ pc = "prepare" /\ pc' = "evaluate" /\ tick' = 1
        /\ day' = day /\ applied' = applied /\ portfolio' = portfolio
    BY <1>1 DEF PrepareDay
  <2>3. Control'
    BY <2>2, ReplayAssumption DEF IInv, Control, Phases
  <2>4. HeldInv'
    BY <2>1, <2>2 DEF HeldInv, Held
  <2>5. ClosedInv'
    BY <2>2 DEF IInv, ClosedInv
  <2> QED BY <2>3, <2>4, <2>5 DEF IInv
<1>2. CASE SkipDay
  <2>1. NextDay /\ portfolio' = portfolio /\ pc \in {"prepare", "evaluate", "persist"}
    BY <1>2 DEF SkipDay
  <2> QED BY <2>1, NextDayKeeps
<1>3. ASSUME NEW catalysts \in SUBSET Ticker, EvaluateTick(catalysts) PROVE IInv'
  <2>1. /\ pc = "evaluate" /\ pc' \in {"evaluate", "walk"}
        /\ UNCHANGED <<day, applied, portfolio>>
        /\ (tick' = 0 \/ (tick # Ticks /\ tick' = tick + 1))
    BY <1>3 DEF EvaluateTick
  <2>2. Held(portfolio) = {}
    BY <2>1 DEF IInv, HeldInv, Held
  <2>3. Control'
    <3>1. Ticks \in Nat /\ day \in Nat /\ tick \in 0..Ticks /\ applied \in Nat
      BY ReplayAssumption DEF IInv, Control
    <3>2. tick' \in 0..Ticks
      BY <2>1, <3>1
    <3> QED BY <2>1, <3>1, <3>2 DEF Control, Phases
  <2>4. HeldInv'
    BY <2>1, <2>2 DEF HeldInv, Held
  <2>5. ClosedInv'
    BY <2>1 DEF IInv, Control, ClosedInv
  <2> QED BY <2>3, <2>4, <2>5 DEF IInv
<1>4. CASE ApplyBar
  BY <1>4, BarKeeps
<1>5. CASE ApplyOneDecision
  BY <1>5, DecisionKeeps
<1>6. CASE flatten_at_eod
  BY <1>6, FlattenKeeps
<1>7. CASE PersistDay
  BY <1>7, NextDayKeeps DEF PersistDay
<1>8. CASE complete_run
  BY <1>8 DEF complete_run, IInv, Control, Phases, HeldInv, ClosedInv, Held
<1>9. CASE Abort
  BY <1>9 DEF Abort, IInv, Control, Phases, HeldInv, ClosedInv, Held
<1>10. CASE UNCHANGED vars
  BY <1>10 DEF vars, IInv, Control, HeldInv, ClosedInv, Held, Filled, FillTick, Sound, StopTouched
<1> QED
  BY <1>1, <1>2, <1>3, <1>4, <1>5, <1>6, <1>7, <1>8, <1>9, <1>10 DEF Next, Finished

\* IInv holds in every state of every replay: what run_replay and
\* apply_day_to_portfolio keep true between any two of their steps.
THEOREM ReplayInvariant == Spec => []IInv
<1> QED BY InitIInv, NextIInv, PTL DEF Spec

-----------------------------------------------------------------------------

\* A replay never carries a position from one day to another: fill_simulator's
\* flatten_at_eod closes all of them, with or without a last bar.
THEOREM ReplayFlat == Spec => []FlatBetweenDays
<1>1. IInv => FlatBetweenDays
  BY DEF IInv, HeldInv, FlatBetweenDays
<1> QED BY <1>1, ReplayInvariant, PTL

\* No fill precedes its decision and no stop is hit by a bar from before the
\* entry: the order in which apply_day_to_portfolio takes bars and decisions.
THEOREM ReplayNoHindsight == Spec => []NoHindsight
<1>1. IInv => NoHindsight
  BY DEF IInv, ClosedInv, Sound, NoHindsight
<1> QED BY <1>1, ReplayInvariant, PTL

-----------------------------------------------------------------------------
(* The money of a portfolio.                                               *)

\* What the position of each ticker cost, a short counting negative, and what
\* is staked on it, without a sign.
CostFun(p) ==
  [t \in Ticker |-> IF t \in Held(p)
                    THEN signed_qty(p.positions[t]) * p.positions[t].entry_price ELSE 0]
StakeFun(p) ==
  [t \in Ticker |-> IF t \in Held(p)
                    THEN p.positions[t].qty * p.positions[t].entry_price ELSE 0]

Cost(p) == SumFunctionOnSet(CostFun(p), Ticker)
Stake(p) == SumFunctionOnSet(StakeFun(p), Ticker)

\* The stop of a short lies above its price.
IsPosition(pos) == pos \in PositionRecord /\ (pos.side = "sell" => pos.stop_price \in Nat)

Typed(p) ==
  /\ p.cash \in Int /\ p.realized_pl_total \in Int
  /\ \A t \in Held(p) : IsPosition(p.positions[t])

Squeezed(p) ==
  \E c \in p.closed_positions :
    c.position.side = "sell" /\ c.exit_price > 2 * c.position.entry_price

\* What is in a portfolio: nothing comes or goes but the profit realized.
Balanced(p) == Typed(p) /\ p.cash + Cost(p) = StartingCash + p.realized_pl_total

\* What is staked on the open positions is covered by the equity.
Covered(p) == Squeezed(p) \/ Stake(p) <= p.cash + Cost(p)

\* Products of integers: what the solver needs to be told.
LEMMA Products ==
  ASSUME NEW a \in Int, NEW b \in Int, NEW c \in Int
  PROVE  /\ a * b \in Int /\ (a - b) * c = a * c - b * c /\ (-a) * b = -(a * b)
         /\ a * c = c * a
OBVIOUS

\* Multiplying by a natural number keeps the order.
LEMMA ProductGrows ==
  ASSUME NEW a \in Int, NEW b \in Int, NEW c \in Nat, a <= b
  PROVE  a * c <= b * c /\ c * a <= c * b
OBVIOUS

\* A product of natural numbers is one.
LEMMA ProductOfNaturals == ASSUME NEW a \in Nat, NEW b \in Nat PROVE a * b \in Nat
OBVIOUS

\* What one position adds to the sums.
LEMMA OnePosition ==
  ASSUME NEW pos, IsPosition(pos)
  PROVE  LET cost  == signed_qty(pos) * pos.entry_price
             stake == pos.qty * pos.entry_price
         IN  /\ signed_qty(pos) \in Int /\ pos.entry_price \in Nat /\ pos.qty \in Nat
             /\ cost \in Int /\ stake \in Nat /\ cost <= stake /\ -stake <= cost
             /\ cost = IF pos.side = "buy" THEN stake ELSE -stake
<1>1. pos.qty \in Nat /\ pos.entry_price \in Nat /\ pos.side \in {"buy", "sell"}
  BY DEF IsPosition, PositionRecord, Side
<1>2. pos.qty * pos.entry_price \in Nat
  BY <1>1, ProductOfNaturals
<1>3. (-pos.qty) * pos.entry_price = -(pos.qty * pos.entry_price)
  BY <1>1, Products
<1>4. CASE pos.side = "buy"
  <2>1. signed_qty(pos) = pos.qty
    BY <1>4 DEF signed_qty
  <2> QED BY <1>1, <1>2, <1>4, <2>1
<1>5. CASE pos.side # "buy"
  <2>1. signed_qty(pos) = -pos.qty
    BY <1>5 DEF signed_qty
  <2> QED BY <1>1, <1>2, <1>3, <1>5, <2>1
<1> QED BY <1>4, <1>5

\* The sums are numbers, and the cost never exceeds the stake.
LEMMA SumsTyped ==
  ASSUME NEW p, Typed(p)
  PROVE  /\ CostFun(p) \in [Ticker -> Int] /\ StakeFun(p) \in [Ticker -> Int]
         /\ Cost(p) \in Int /\ Stake(p) \in Nat
         /\ Cost(p) <= Stake(p)
<1>1. \A t \in Held(p) :
        LET pos == p.positions[t]
        IN  /\ signed_qty(pos) * pos.entry_price \in Int /\ pos.qty * pos.entry_price \in Nat
            /\ signed_qty(pos) * pos.entry_price <= pos.qty * pos.entry_price
  BY OnePosition DEF Typed
<1>2. CostFun(p) \in [Ticker -> Int] /\ StakeFun(p) \in [Ticker -> Int]
  BY <1>1 DEF CostFun, StakeFun
<1>3. \A t \in Ticker : CostFun(p)[t] <= StakeFun(p)[t]
  BY <1>1 DEF CostFun, StakeFun
<1>4. IsFiniteSet(Ticker) /\ Ticker \in SUBSET Ticker
  BY RiskAssumption
<1>5. Cost(p) \in Int /\ Stake(p) \in Nat
  <2>1. StakeFun(p) \in [Ticker -> Nat]
    BY <1>1 DEF StakeFun
  <2>2. SumFunctionOnSet(StakeFun(p), Ticker) \in Nat
    BY <1>4, <2>1, SumGrows
  <2>3. SumFunctionOnSet(CostFun(p), Ticker) \in Int
    BY <1>2, <1>4, SumStep
  <2> QED BY <2>2, <2>3 DEF Cost, Stake
<1>6. Cost(p) <= Stake(p)
  BY <1>2, <1>3, <1>4, SumAtMost DEF Cost, Stake
<1> QED BY <1>2, <1>5, <1>6

\* equity of portfolio.py, at entry prices, is the cash and the cost.
LEMMA EquityIs == ASSUME NEW p, Typed(p) PROVE equity(p) = p.cash + Cost(p)
<1> DEFINE h == [t \in Held(p) |-> signed_qty(p.positions[t]) * p.positions[t].entry_price]
           f == CostFun(p)
<1>1. Held(p) \in SUBSET Ticker /\ Held(p) \in SUBSET Held(p) /\ IsFiniteSet(Ticker)
      /\ IsFiniteSet(Held(p))
  BY RiskAssumption, FS_Subset DEF Held
<1>2. f \in [Ticker -> Int]
  BY SumsTyped
<1>3. \A t \in Held(p) : h[t] = f[t]
  BY <1>1 DEF CostFun
<1>4. \A t \in Ticker \ Held(p) : f[t] = 0
  BY DEF CostFun
<1>5. h \in [Held(p) -> Int]
  BY <1>1, <1>2, <1>3
<1>6. CostOfPositions(p) = SumFunctionOnSet(h, Held(p))
  BY Zenon DEF CostOfPositions, SumFunction
<1> HIDE DEF h, f
<1>7. SumFunctionOnSet(h, Held(p)) = SumFunctionOnSet(f, Held(p))
  BY <1>1, <1>2, <1>3, <1>5, SumAcross
<1>8. SumFunctionOnSet(f, Ticker) = SumFunctionOnSet(f, Held(p))
  BY <1>1, <1>2, <1>4, SumOfPart
<1>9. Cost(p) = SumFunctionOnSet(f, Ticker)
  BY Zenon DEF Cost, f
<1> QED BY <1>6, <1>7, <1>8, <1>9, Zenon DEF equity

\* The exposure validate_order sees at entry prices is the stake.
LEMMA ExposureIs ==
  ASSUME NEW p, Typed(p)
  PROVE  TotalExposure(_open_positions_for_risk(p)) = Stake(p)
<1> DEFINE book == _open_positions_for_risk(p)
<1>1. ASSUME NEW t \in Ticker PROVE market_value(book[t]) = StakeFun(p)[t]
  <2>1. CASE t \in Held(p)
    <3>1. book[t] = [quantity |-> signed_qty(p.positions[t]),
                     current_price |-> p.positions[t].entry_price]
      BY <2>1 DEF _open_positions_for_risk
    <3>2. IsPosition(p.positions[t])
      BY <2>1 DEF Typed
    <3>3. p.positions[t].qty \in Nat
      BY <3>2, OnePosition
    <3>4. Magnitude(signed_qty(p.positions[t])) = p.positions[t].qty
      BY <3>3 DEF Magnitude, signed_qty
    <3>5. StakeFun(p)[t] = p.positions[t].qty * p.positions[t].entry_price
      BY <2>1 DEF StakeFun
    <3> HIDE DEF book
    <3> QED BY <3>1, <3>4, <3>5 DEF market_value
  <2>2. CASE t \notin Held(p)
    BY <2>2 DEF _open_positions_for_risk, market_value, Magnitude, StakeFun
  <2> QED BY <2>1, <2>2
<1>2. [t \in Ticker |-> market_value(book[t])] = StakeFun(p)
  <2>1. StakeFun(p) = [t \in Ticker |-> StakeFun(p)[t]]
    BY DEF StakeFun
  <2> HIDE DEF book
  <2> QED BY <1>1, <2>1
<1>3. TotalExposure(book) = SumFunctionOnSet([t \in Ticker |-> market_value(book[t])], Ticker)
  BY Zenon DEF TotalExposure, SumFunction
<1> QED BY <1>2, <1>3, Zenon DEF Stake
\* Taking positions out moves what they cost into the cash, with the profit.
\* The loss is no more than what was staked, unless a short more than doubled.
LEMMA ExitMoney ==
  ASSUME NEW p, Typed(p), NEW S, S \subseteq Held(p), NEW price, NEW k, NEW reason,
         \A t \in S : price[t] \in Nat
  PROVE  LET q == record_exit(p, S, price, k, reason)
         IN  /\ Typed(q)
             /\ q.cash + Cost(q) - q.realized_pl_total = p.cash + Cost(p) - p.realized_pl_total
             /\ Squeezed(p) => Squeezed(q)
             /\ Stake(p) <= p.cash + Cost(p) =>
                  Squeezed(q) \/ Stake(q) <= q.cash + Cost(q)
<1> DEFINE q == record_exit(p, S, price, k, reason)
           paid == [t \in S |-> CashFromExit(p.positions[t], price[t])]
           gain == [t \in S |-> Realized(p.positions[t], price[t])]
           cost == [t \in S |-> CostFun(p)[t]]
           stake == [t \in S |-> StakeFun(p)[t]]
           lost == [t \in S |-> -StakeFun(p)[t]]
<1>1. S \in SUBSET S /\ S \in SUBSET Ticker /\ IsFiniteSet(S) /\ IsFiniteSet(Ticker)
  BY RiskAssumption, FS_Subset DEF Held
<1>2. CostFun(p) \in [Ticker -> Int] /\ StakeFun(p) \in [Ticker -> Int]
      /\ Cost(p) \in Int /\ Stake(p) \in Int
  BY SumsTyped
<1>3. ASSUME NEW t \in S
      PROVE  LET pos == p.positions[t]
             IN  /\ CashFromExit(pos, price[t]) \in Int /\ Realized(pos, price[t]) \in Int
                 /\ CashFromExit(pos, price[t]) = Realized(pos, price[t]) + CostFun(p)[t]
                 /\ -StakeFun(p)[t] <= Realized(pos, price[t])
                      \/ (pos.side = "sell" /\ price[t] > 2 * pos.entry_price)
  <2> DEFINE pos == p.positions[t]
  <2>1. IsPosition(pos) /\ t \in Held(p) /\ t \in Ticker /\ price[t] \in Nat
    BY DEF Typed, Held
  <2>2. CostFun(p)[t] = signed_qty(pos) * pos.entry_price
        /\ StakeFun(p)[t] = pos.qty * pos.entry_price
    BY <2>1 DEF CostFun, StakeFun
  <2>3. PICK e, x, n, m : e = pos.entry_price /\ x = price[t] /\ n = signed_qty(pos) /\ m = pos.qty
    OBVIOUS
  <2>4. /\ e \in Nat /\ x \in Nat /\ n \in Int /\ m \in Nat
        /\ pos.side \in {"buy", "sell"} /\ n = IF pos.side = "buy" THEN m ELSE -m
    BY <2>1, <2>3, OnePosition DEF IsPosition, PositionRecord, Side, signed_qty
  <2>5. CashFromExit(pos, price[t]) = n * x /\ Realized(pos, price[t]) = (x - e) * n
    BY <2>3 DEF CashFromExit, Realized
  <2>6. (x - e) * n = n * x - n * e /\ n * x \in Int /\ n * e \in Int
    <3>1. e \in Int /\ x \in Int /\ n \in Int
      BY <2>4
    <3> HIDE DEF pos
    <3>2. (x - e) * n = x * n - e * n
      BY <3>1, Products
    <3>3. x * n = n * x /\ e * n = n * e
      BY <3>1, Products
    <3>4. n * x \in Int
      BY <3>1, Products
    <3>5. n * e \in Int
      BY <3>1, Products
    <3> QED BY <3>2, <3>3, <3>4, <3>5
  <2>7. -(m * e) <= (x - e) * n \/ (pos.side = "sell" /\ x > 2 * e)
    <3>1. CASE pos.side = "buy"
      <4>1. n * x \in Nat /\ n * e = m * e
        BY <2>4, <3>1, ProductOfNaturals
      <4> QED BY <2>6, <4>1
    <3>2. CASE pos.side = "sell" /\ ~(x > 2 * e)
      <4>1. n = -m /\ x - e \in Int /\ x - e <= e
        BY <2>4, <3>2
      <4>2. (x - e) * m <= e * m
        BY <2>4, <4>1, ProductGrows
      <4>3. (x - e) * n = -((x - e) * m)
        <5>1. (-m) * (x - e) = -(m * (x - e)) /\ m * (x - e) = (x - e) * m
              /\ (-m) * (x - e) = (x - e) * (-m)
          BY <2>4, <4>1, Products
        <5> QED BY <4>1, <5>1
      <4>4. (x - e) * m \in Int /\ e * m \in Int /\ m * e = e * m
        BY <2>4, <4>1, Products
      <4> QED BY <4>2, <4>3, <4>4
    <3> QED BY <2>4, <3>1, <3>2
  <2> HIDE DEF pos
  <2>8. CashFromExit(pos, price[t]) \in Int /\ Realized(pos, price[t]) \in Int
    BY <2>5, <2>6
  <2>9. CashFromExit(pos, price[t]) = Realized(pos, price[t]) + CostFun(p)[t]
    BY <2>2, <2>3, <2>5, <2>6
  <2>10. -StakeFun(p)[t] <= Realized(pos, price[t])
           \/ (pos.side = "sell" /\ price[t] > 2 * pos.entry_price)
    BY <2>2, <2>3, <2>5, <2>7
  <2> QED BY <2>8, <2>9, <2>10 DEF pos
<1>4. /\ paid \in [S -> Int] /\ gain \in [S -> Int] /\ cost \in [S -> Int]
      /\ stake \in [S -> Int] /\ lost \in [S -> Int]
      /\ \A t \in S : paid[t] = gain[t] + cost[t]
      /\ \A t \in S : lost[t] = -stake[t]
  BY <1>1, <1>2, <1>3
<1>5. /\ q.cash = p.cash + SumFunctionOnSet(paid, S)
      /\ q.realized_pl_total = p.realized_pl_total + SumFunctionOnSet(gain, S)
  <2>1. DOMAIN paid = S /\ DOMAIN gain = S
    OBVIOUS
  <2>2. SumFunction(paid) = SumFunctionOnSet(paid, S) /\ SumFunction(gain) = SumFunctionOnSet(gain, S)
    BY <2>1, Zenon DEF SumFunction
  <2>3. q.cash = p.cash + SumFunction(paid)
        /\ q.realized_pl_total = p.realized_pl_total + SumFunction(gain)
    BY DEF record_exit
  <2> QED BY <2>2, <2>3
<1>6. /\ \A t \in Held(q) : t \in Held(p) \ S /\ q.positions[t] = p.positions[t]
      /\ Held(q) = Held(p) \ S
  BY DEF record_exit, Held
<1>8. \A c \in p.closed_positions : c \in q.closed_positions
  BY DEF record_exit
<1>9. Squeezed(p) => Squeezed(q)
  <2> HIDE DEF q
  <2> QED BY <1>8 DEF Squeezed
<1>10. ASSUME NEW t \in S, p.positions[t].side = "sell", price[t] > 2 * p.positions[t].entry_price
       PROVE  Squeezed(q)
  <2> DEFINE c == [ticker |-> t, position |-> p.positions[t], exit_price |-> price[t],
                   exit_tick |-> k, exit_reason |-> reason]
  <2>1. c \in q.closed_positions
    BY DEF record_exit
  <2>2. c.position = p.positions[t] /\ c.exit_price = price[t]
    OBVIOUS
  <2> HIDE DEF c, q
  <2> QED BY <1>10, <2>1, <2>2 DEF Squeezed
<1>11. /\ SumFunctionOnSet(paid, S) \in Int /\ SumFunctionOnSet(gain, S) \in Int
       /\ SumFunctionOnSet(cost, S) \in Int /\ SumFunctionOnSet(stake, S) \in Int
  <2> HIDE DEF paid, gain, cost, stake, lost
  <2> QED BY <1>1, <1>4, SumStep
<1>12. SumFunctionOnSet(paid, S) = SumFunctionOnSet(gain, S) + SumFunctionOnSet(cost, S)
  <2> HIDE DEF paid, gain, cost, stake, lost
  <2> QED BY <1>1, <1>4, SumPlus
<1>13. SumFunctionOnSet(cost, S) = SumFunctionOnSet(CostFun(p), S)
       /\ SumFunctionOnSet(stake, S) = SumFunctionOnSet(StakeFun(p), S)
  <2>1. \A t \in S : cost[t] = CostFun(p)[t] /\ stake[t] = StakeFun(p)[t]
    OBVIOUS
  <2> HIDE DEF cost, stake, paid, gain, lost
  <2>2. SumFunctionOnSet(cost, S) = SumFunctionOnSet(CostFun(p), S)
    BY <1>1, <1>2, <1>4, <2>1, SumAcross
  <2>3. SumFunctionOnSet(stake, S) = SumFunctionOnSet(StakeFun(p), S)
    BY <1>1, <1>2, <1>4, <2>1, SumAcross
  <2> QED BY <2>2, <2>3
<1>14. Typed(q)
  <2>1. q.cash \in Int /\ q.realized_pl_total \in Int
    <3> HIDE DEF q, paid, gain
    <3> QED BY <1>5, <1>11 DEF Typed
  <2> HIDE DEF q
  <2> QED BY <1>6, <2>1 DEF Typed
<1>15. Cost(q) = Cost(p) - SumFunctionOnSet(cost, S)
       /\ Stake(q) = Stake(p) - SumFunctionOnSet(stake, S)
  <2>1. CostFun(q) \in [Ticker -> Int] /\ StakeFun(q) \in [Ticker -> Int]
    BY <1>14, SumsTyped
  <2> HIDE DEF q, cost, stake
  <2>2. /\ \A t \in S : CostFun(q)[t] = 0 /\ StakeFun(q)[t] = 0
        /\ \A t \in Ticker \ S : CostFun(q)[t] = CostFun(p)[t] /\ StakeFun(q)[t] = StakeFun(p)[t]
    BY <1>1, <1>6 DEF CostFun, StakeFun
  <2>3. SumFunctionOnSet(CostFun(q), Ticker)
          = SumFunctionOnSet(CostFun(p), Ticker) - SumFunctionOnSet(CostFun(p), S)
    BY <1>1, <1>2, <2>1, <2>2, SumWithout
  <2>4. SumFunctionOnSet(StakeFun(q), Ticker)
          = SumFunctionOnSet(StakeFun(p), Ticker) - SumFunctionOnSet(StakeFun(p), S)
    BY <1>1, <1>2, <2>1, <2>2, SumWithout
  <2> QED BY <1>13, <2>3, <2>4 DEF Cost, Stake
<1>16. Squeezed(q) \/ -SumFunctionOnSet(stake, S) <= SumFunctionOnSet(gain, S)
  <2> SUFFICES ASSUME ~Squeezed(q)
               PROVE  -SumFunctionOnSet(stake, S) <= SumFunctionOnSet(gain, S)
    OBVIOUS
  <2>1. \A t \in S : lost[t] <= gain[t]
    <3> HIDE DEF q
    <3> QED BY <1>3, <1>10
  <2> HIDE DEF q, paid, gain, cost, stake, lost
  <2>2. SumFunctionOnSet(lost, S) <= SumFunctionOnSet(gain, S)
    BY <1>1, <1>4, <2>1, SumAtMost
  <2>3. SumFunctionOnSet(lost, S) = -SumFunctionOnSet(stake, S)
    BY <1>1, <1>4, SumNegated
  <2> QED BY <2>2, <2>3
<1> HIDE DEF q, paid, gain, cost, stake, lost
<1>17. p.cash \in Int /\ p.realized_pl_total \in Int
  BY DEF Typed
<1>18. q.cash + Cost(q) - q.realized_pl_total = p.cash + Cost(p) - p.realized_pl_total
  BY <1>2, <1>5, <1>11, <1>12, <1>15, <1>17
<1>19. Stake(p) <= p.cash + Cost(p) => Squeezed(q) \/ Stake(q) <= q.cash + Cost(q)
  BY <1>2, <1>5, <1>11, <1>12, <1>15, <1>16, <1>17
<1> QED BY <1>9, <1>14, <1>18, <1>19 DEF q

\* An entry pays what the position costs and stakes its price.
LEMMA EntryMoney ==
  ASSUME NEW p, Typed(p), NEW t \in Ticker, t \notin Held(p), NEW fill, IsPosition(fill)
  PROVE  LET q == record_entry(p, t, fill)
         IN  /\ Typed(q)
             /\ q.cash + Cost(q) = p.cash + Cost(p)
             /\ q.realized_pl_total = p.realized_pl_total
             /\ q.closed_positions = p.closed_positions
             /\ Stake(q) = Stake(p) + fill.qty * fill.entry_price
<1> DEFINE q == record_entry(p, t, fill)
<1>1. Ticker \in SUBSET Ticker /\ IsFiniteSet(Ticker)
  BY RiskAssumption
<1>2. CostFun(p) \in [Ticker -> Int] /\ StakeFun(p) \in [Ticker -> Int]
      /\ Cost(p) \in Int /\ Stake(p) \in Int
  BY SumsTyped
<1>3. /\ signed_qty(fill) * fill.entry_price \in Int /\ fill.qty * fill.entry_price \in Int
  BY OnePosition
<1>4. fill # NONE
  BY PortfolioAssumption DEF IsPosition
<1>5. /\ Held(q) = Held(p) \cup {t}
      /\ q.positions[t] = fill
      /\ \A s \in Held(p) : q.positions[s] = p.positions[s]
      /\ q.cash = p.cash - signed_qty(fill) * fill.entry_price
      /\ q.realized_pl_total = p.realized_pl_total
      /\ q.closed_positions = p.closed_positions
  BY <1>4 DEF record_entry, Held, PositionOf
<1> HIDE DEF q
<1>6. Typed(q)
  BY <1>3, <1>5 DEF Typed
<1>7. CostFun(q) \in [Ticker -> Int] /\ StakeFun(q) \in [Ticker -> Int]
      /\ Cost(q) \in Int /\ Stake(q) \in Int
  BY <1>6, SumsTyped
<1>8. /\ \A s \in Ticker \ {t} : CostFun(q)[s] = CostFun(p)[s] /\ StakeFun(q)[s] = StakeFun(p)[s]
      /\ CostFun(q)[t] = signed_qty(fill) * fill.entry_price
      /\ StakeFun(q)[t] = fill.qty * fill.entry_price
      /\ CostFun(p)[t] = 0 /\ StakeFun(p)[t] = 0
  BY <1>5 DEF CostFun, StakeFun
<1>9. SumFunctionOnSet(CostFun(q), Ticker) - SumFunctionOnSet(CostFun(p), Ticker)
        = CostFun(q)[t] - CostFun(p)[t]
  BY <1>1, <1>2, <1>7, <1>8, SumChange
<1>10. SumFunctionOnSet(StakeFun(q), Ticker) - SumFunctionOnSet(StakeFun(p), Ticker)
        = StakeFun(q)[t] - StakeFun(p)[t]
  BY <1>1, <1>2, <1>7, <1>8, SumChange
<1>11. Cost(q) = Cost(p) + signed_qty(fill) * fill.entry_price
       /\ Stake(q) = Stake(p) + fill.qty * fill.entry_price
  BY <1>2, <1>3, <1>7, <1>8, <1>9, <1>10 DEF Cost, Stake
<1>12. q.cash + Cost(q) = p.cash + Cost(p)
  BY <1>2, <1>3, <1>5, <1>11 DEF Typed
<1> QED BY <1>5, <1>6, <1>11, <1>12 DEF q

-----------------------------------------------------------------------------
(* The day in hand.                                                        *)

\* The tickers of a list of candidates are tickers.
LEMMA CandidatesAreTickers ==
  ASSUME NEW names, NEW holding
  PROVE  pre_filter_candidates(names, holding) \in Seq(Ticker)
<1> DEFINE L == Len(TickerOrder)
           wanted == names \cup holding
           Step(h, n) == IF n = 0 THEN <<>>
                         ELSE IF TickerOrder[n] \in wanted THEN Append(h[n - 1], TickerOrder[n])
                         ELSE h[n - 1]
           IsList(h) == h = [n \in 0..L |-> Step(h, n)]
           Good == {n \in Nat : n <= L =>
                      \E h \in [0..n -> Seq(Ticker)] : \A i \in 0..n : h[i] = Step(h, i)}
<1>1. /\ L \in Nat /\ \A n \in 1..L : TickerOrder[n] \in Ticker
  BY ReplayAssumption
<1> HIDE DEF L, wanted
<1>2. 0 \in Good
  <2> DEFINE h == [i \in 0..0 |-> <<>>]
  <2>1. h \in [0..0 -> Seq(Ticker)] /\ \A i \in 0..0 : h[i] = Step(h, i)
    OBVIOUS
  <2> QED BY <2>1
<1>3. ASSUME NEW n \in Nat, n \in Good PROVE n + 1 \in Good
  <2> SUFFICES ASSUME n + 1 <= L
               PROVE  \E h \in [0..n + 1 -> Seq(Ticker)] : \A i \in 0..n + 1 : h[i] = Step(h, i)
    OBVIOUS
  <2>1. PICK h \in [0..n -> Seq(Ticker)] : \A i \in 0..n : h[i] = Step(h, i)
    BY <1>1, <1>3
  <2> DEFINE g == [i \in 0..n + 1 |-> IF i = n + 1 THEN Step(h, n + 1) ELSE h[i]]
  <2>2. TickerOrder[n + 1] \in Ticker /\ h[n] \in Seq(Ticker) /\ n + 1 - 1 = n /\ n + 1 # 0
    BY <1>1
  <2>3. Step(h, n + 1) \in Seq(Ticker)
    <3>1. Append(h[n], TickerOrder[n + 1]) \in Seq(Ticker)
      BY <2>2
    <3> QED BY <2>2, <3>1
  <2>4. g \in [0..n + 1 -> Seq(Ticker)]
    <3> HIDE DEF Step
    <3> QED BY <2>3
  <2>5. ASSUME NEW i \in 0..n + 1 PROVE g[i] = Step(g, i)
    <3>1. CASE i = n + 1
      <4>1. g[n] = h[n] /\ g[n + 1] = Step(h, n + 1)
        <5> HIDE DEF Step
        <5> QED OBVIOUS
      <4> HIDE DEF g
      <4> QED BY <2>2, <3>1, <4>1
    <3>2. CASE i # n + 1
      <4>1. g[i] = h[i] /\ (i # 0 => g[i - 1] = h[i - 1]) /\ i \in 0..n
        <5> HIDE DEF Step
        <5> QED BY <3>2
      <4>2. h[i] = Step(h, i)
        BY <2>1, <4>1
      <4> HIDE DEF g
      <4> QED BY <4>1, <4>2
    <3> QED BY <3>1, <3>2
  <2> HIDE DEF g
  <2> QED BY <2>4, <2>5
<1>4. \A n \in Nat : n \in Good
  <2> HIDE DEF Good
  <2> QED BY <1>2, <1>3, EveryNatural
<1>5. \E h : IsList(h)
  <2>0. L \in Good
    <3> HIDE DEF Good
    <3> QED BY <1>1, <1>4
  <2>1. PICK h \in [0..L -> Seq(Ticker)] : \A i \in 0..L : h[i] = Step(h, i)
    <3> HIDE DEF Step
    <3>1. L <= L
      BY <1>1
    <3>2. L <= L => \E h \in [0..L -> Seq(Ticker)] : \A i \in 0..L : h[i] = Step(h, i)
      BY <2>0
    <3> QED BY <3>1, <3>2
  <2> HIDE DEF Step
  <2> QED BY <2>1
<1> DEFINE list == CHOOSE h : IsList(h)
<1>6. IsList(list)
  <2> HIDE DEF IsList
  <2> QED BY <1>5
<1>7. \A n \in 0..L : list[n] = Step(list, n)
  <2> HIDE DEF list, Step
  <2> QED BY <1>6
<1>8. list[L] \in Seq(Ticker)
  <2> DEFINE Fine == {n \in Nat : n <= L => list[n] \in Seq(Ticker)}
  <2> HIDE DEF list
  <2>1. 0 \in Fine
    <3>1. list[0] = <<>>
      <4>1. 0 \in 0..L /\ Step(list, 0) = <<>>
        BY <1>1
      <4> HIDE DEF Step
      <4> QED BY <1>7, <4>1
    <3>2. <<>> \in Seq(Ticker) /\ 0 \in Nat
      OBVIOUS
    <3> QED BY <3>1, <3>2, Zenon
  <2>2. ASSUME NEW n \in Nat, n \in Fine PROVE n + 1 \in Fine
    <3> SUFFICES ASSUME n + 1 <= L PROVE list[n + 1] \in Seq(Ticker)
      OBVIOUS
    <3>1. TickerOrder[n + 1] \in Ticker /\ list[n] \in Seq(Ticker) /\ n + 1 - 1 = n
          /\ n + 1 # 0 /\ n + 1 \in 0..L
      BY <1>1, <2>2
    <3>2. list[n + 1] = Step(list, n + 1)
      BY <1>7, <3>1
    <3>3. Append(list[n], TickerOrder[n + 1]) \in Seq(Ticker)
      BY <3>1
    <3> QED BY <3>1, <3>2, <3>3
  <2>3. \A n \in Nat : n \in Fine
    <3> HIDE DEF Fine
    <3> QED BY <2>1, <2>2, EveryNatural
  <2> QED BY <1>1, <2>3
<1>9. InOrder(wanted) = list[L]
  BY Zenon DEF InOrder, L
<1>10. InOrder(wanted) \in Seq(Ticker)
  BY <1>8, <1>9
<1>11. pre_filter_candidates(names, holding)
         = SubSeq(InOrder(wanted), 1, Lesser(Len(InOrder(wanted)), MaxCandidates))
  BY Zenon DEF pre_filter_candidates, wanted
<1>12. Lesser(Len(InOrder(wanted)), MaxCandidates) \in 0..Len(InOrder(wanted))
  BY <1>10, ReplayAssumption DEF Lesser
<1>13. ASSUME NEW s \in Seq(Ticker), NEW n \in 0..Len(s) PROVE SubSeq(s, 1, n) \in Seq(Ticker)
  OBVIOUS
<1> QED BY <1>10, <1>11, <1>12, <1>13

\* What run_day_ticks records of one evaluation.
Decision == [tick : 1..Ticks, ticker : Ticker, action : Action]

\* The day that is evaluated and walked has the bars of its tickers, and its
\* decisions are about them.
DayInv ==
  /\ fill_at \in {"next_bar_open", "current_close"}
  /\ pc \in {"evaluate", "walk"} => \A t \in Ticker : bars[t] \in SeriesOf[t]
  /\ pc = "evaluate" => tick \in 1..Ticks
  /\ decisions \in Seq(Decision)

\* No day is in hand when a run starts.
LEMMA InitDay == Init => DayInv
BY ReplayAssumption DEF Init, DayInv

\* A step that leaves the bars and the decisions of the day alone.
LEMMA DaySame ==
  ASSUME DayInv, UNCHANGED <<fill_at, bars, decisions>>, tick' \in 0..Ticks,
         pc' \in {"walk", "evaluate"} => pc' = pc /\ pc = "walk"
  PROVE  DayInv'
BY DEF DayInv

\* Every step keeps DayInv.
LEMMA DayStep == ASSUME DayInv, Control, Control', [Next]_vars PROVE DayInv'
<1>0. Days \in Nat /\ Ticks \in Nat \ {0}
  BY ReplayAssumption
<1>1. CASE NextDay /\ UNCHANGED fill_at
  <2>1. decisions' \in Seq(Decision) /\ pc' \in {"complete", "prepare"}
    BY <1>1 DEF NextDay
  <2> QED BY <1>1, <2>1 DEF DayInv
<1>2. CASE PrepareDay
  <2>1. \A t \in Ticker : bars'[t] \in SeriesOf[t]
    BY <1>2 DEF PrepareDay
  <2>2. tick' \in 1..Ticks /\ UNCHANGED <<fill_at, decisions>>
    BY <1>0, <1>2 DEF PrepareDay
  <2> QED BY <2>1, <2>2 DEF DayInv
<1>3. ASSUME NEW catalysts \in SUBSET Ticker, EvaluateTick(catalysts) PROVE DayInv'
  <2> DEFINE candidates == pre_filter_candidates(catalysts, Held(portfolio))
  <2>1. candidates \in Seq(Ticker)
    BY CandidatesAreTickers
  <2>2. PICK chosen \in [DOMAIN candidates -> Action] :
          decisions' = decisions \o [i \in DOMAIN candidates |->
             [tick |-> tick, ticker |-> candidates[i], action |-> chosen[i]]]
    BY <1>3 DEF EvaluateTick
  <2>3. pc = "evaluate" /\ tick \in 1..Ticks /\ UNCHANGED <<fill_at, bars>>
        /\ (pc' = "walk" \/ (pc' = pc /\ tick' = tick + 1 /\ tick # Ticks))
    BY <1>3 DEF EvaluateTick, DayInv
  <2> HIDE DEF candidates
  <2>4. [i \in DOMAIN candidates |->
             [tick |-> tick, ticker |-> candidates[i], action |-> chosen[i]]] \in Seq(Decision)
    <3>1. \A i \in DOMAIN candidates :
            [tick |-> tick, ticker |-> candidates[i], action |-> chosen[i]] \in Decision
      BY <2>1, <2>3 DEF Decision
    <3>2. PICK n \in Nat : DOMAIN candidates = 1..n
      BY <2>1
    <3>3. ASSUME NEW f, \A i \in 1..n : f[i] \in Decision, f = [i \in 1..n |-> f[i]]
          PROVE  f \in Seq(Decision)
      BY <3>3
    <3> HIDE DEF Decision
    <3> QED BY <3>1, <3>2, <3>3
  <2>5. decisions' \in Seq(Decision)
    BY <2>2, <2>4 DEF DayInv
  <2>6. pc' \in {"evaluate", "walk"} /\ (pc' = "evaluate" => tick' \in 1..Ticks)
    BY <1>0, <2>3
  <2> QED BY <2>3, <2>5, <2>6 DEF DayInv
<1>4. CASE ApplyBar \/ ApplyOneDecision \/ flatten_at_eod \/ complete_run \/ Abort
  <2>1. tick' \in 0..Ticks
    BY DEF Control
  <2>2. /\ UNCHANGED <<fill_at, bars, decisions>>
        /\ pc' \in {"walk", "evaluate"} => pc' = pc /\ pc = "walk"
    BY <1>4 DEF ApplyBar, ApplyOneDecision, flatten_at_eod, complete_run, Abort
  <2> QED BY <2>1, <2>2, DaySame
<1>5. CASE UNCHANGED vars
  BY <1>5 DEF vars, DayInv
<1> QED
  BY <1>1, <1>2, <1>3, <1>4, <1>5 DEF Next, Finished, SkipDay, PersistDay

\* The prices of a bar.
LEMMA BarPrices ==
  ASSUME DayInv, pc = "walk", NEW t \in Ticker, NEW k \in 1..Ticks, bars[t][k] # NONE
  PROVE  /\ bars[t][k].open \in Nat \ {0} /\ bars[t][k].close \in Nat \ {0}
         /\ bars[t][k].low \in Nat \ {0} /\ bars[t][k].high \in Nat \ {0}
<1>1. PICK series \in SeriesOf[t] : series = bars[t]
  BY DEF DayInv
<1>2. /\ {series[k].low, series[k].high} \subseteq Nat \ {0}
      /\ series[k].open \in series[k].low..series[k].high
      /\ series[k].close \in series[k].low..series[k].high
  BY <1>1, ReplayAssumption
<1> QED BY <1>1, <1>2

\* A fill has a reference price, that of a bar.
LEMMA ReferencePrice ==
  ASSUME DayInv, pc = "walk", NEW t \in Ticker, NEW k \in 1..Ticks, HasBar(t, FillTick(k))
  PROVE  FillReference(t, k) \in Nat \ {0} /\ FillTick(k) \in Nat
<1>0. Ticks \in Nat
  BY ReplayAssumption
<1>1. FillTick(k) \in 1..Ticks /\ bars[t][FillTick(k)] # NONE
  BY <1>0 DEF HasBar, FillTick
<1>2. CASE fill_at = "next_bar_open"
  BY <1>1, <1>2, BarPrices DEF FillTick, FillReference
<1>3. CASE fill_at # "next_bar_open"
  BY <1>1, <1>3, BarPrices DEF FillTick, FillReference
<1> QED BY <1>1, <1>2, <1>3

\* apply_slippage returns a price that exceeds its reference by no more than
\* SlippageBps.
LEMMA SlippageIs ==
  ASSUME NEW reference \in Nat, NEW side \in Side
  PROVE  LET price == apply_slippage(reference, side)
         IN  price \in Nat /\ 10000 * price <= reference * (10000 + SlippageBps)
<1>1. PICK m, s \in Nat : s = SlippageBps /\ m = reference * s /\ s <= 10000
  BY PortfolioAssumption, ProductOfNaturals
<1>2. PICK w \in Nat : w = reference * (10000 + s) /\ w = 10000 * reference + m
                      /\ m <= 10000 * reference
  BY <1>1, ProductGrows
<1>3. PICK delta \in Nat : delta = m \div 10000 /\ 10000 * delta <= m /\ delta <= reference
  BY <1>1, <1>2
<1>4. apply_slippage(reference, side) = IF side = "buy" THEN reference + delta ELSE reference - delta
  BY <1>1, <1>3 DEF apply_slippage
<1>5. CASE side = "buy"
  BY <1>1, <1>2, <1>3, <1>4, <1>5
<1>6. CASE side # "buy"
  BY <1>1, <1>2, <1>3, <1>4, <1>6
<1> QED BY <1>5, <1>6

\* The stop of a short lies at a price; that of a long may not.
LEMMA StopIs ==
  ASSUME NEW reference \in Nat, NEW side \in Side
  PROVE  StopPrice(side, reference) \in Int
         /\ (side = "sell" => StopPrice(side, reference) \in Nat)
<1>1. PICK m \in Nat : m = reference * StopPct
  BY ReplayAssumption, ProductOfNaturals
<1>2. PICK delta \in Nat : delta = m \div 100
  BY <1>1
<1>3. StopPrice(side, reference) = IF side = "buy" THEN reference - delta ELSE reference + delta
  BY <1>1, <1>2 DEF StopPrice
<1> QED BY <1>2, <1>3

\* Integer division returns an integer.
LEMMA DivisionIs == ASSUME NEW a \in Int, NEW b \in Nat \ {0} PROVE a \div b \in Int
OBVIOUS

\* What validate_order has approved is a number of shares whose value, at the
\* reference price, fits under the cap on the total exposure.
LEMMA ApprovedFits ==
  ASSUME NEW t, NEW side, NEW requested \in Int, NEW price \in Nat \ {0}, NEW eq \in Int,
         NEW book, book[t].quantity = 0, TotalExposure(book) \in Int,
         validate_order(t, side, requested, price, eq, book).approved
  PROVE  LET quantity == validate_order(t, side, requested, price, eq, book).quantity
         IN  /\ quantity \in Nat \ {0}
             /\ 100 * (TotalExposure(book) + quantity * price) <= eq * MaxTotalExposurePct
<1> DEFINE quantity == CappedQuantity(requested, price, eq)
<1>1. Verdict(t, side, requested, price, eq, book) = "ok"
  BY DEF validate_order
<1>2. validate_order(t, side, requested, price, eq, book).quantity = quantity
  BY <1>1 DEF validate_order
<1>3. /\ ~(quantity <= 0)
      /\ ~(100 * ProjectedExposure(t, side, quantity * price, book) > eq * MaxTotalExposurePct)
  BY <1>1 DEF Verdict
<1>4. quantity \in Int
  <2>1. eq * MaxPositionPct \in Int /\ 100 * price \in Nat \ {0}
    <3>1. MaxPositionPct \in Int
      BY RiskAssumption
    <3>2. eq * MaxPositionPct \in Int
      BY <3>1, Products
    <3>3. 100 * price \in Nat \ {0}
      OBVIOUS
    <3> QED BY <3>2, <3>3
  <2>2. (eq * MaxPositionPct) \div (100 * price) \in Int
    BY <2>1, DivisionIs
  <2> QED BY <2>2 DEF CappedQuantity
<1>5. ProjectedExposure(t, side, quantity * price, book) = TotalExposure(book) + quantity * price
  BY DEF ProjectedExposure
<1>6. quantity * price \in Int /\ eq * MaxTotalExposurePct \in Int
  BY <1>4, Products, RiskAssumption
<1> HIDE DEF quantity
<1> QED BY <1>2, <1>3, <1>4, <1>5, <1>6

\* size_from_risk returns a number of shares.
LEMMA SizeIs ==
  ASSUME NEW eq \in Int, NEW price \in Nat \ {0}
  PROVE  size_from_risk(eq, price, StopPct, RiskPct) \in Int
<1>1. eq * RiskPct \in Int /\ price * StopPct \in Nat \ {0}
  <2>1. StopPct \in Nat \ {0} /\ RiskPct \in Nat
    BY ReplayAssumption
  <2>2. ASSUME NEW a \in Nat \ {0}, NEW b \in Nat \ {0} PROVE a * b \in Nat \ {0}
    OBVIOUS
  <2> QED BY <2>1, <2>2, Products
<1>2. (eq * RiskPct) \div (price * StopPct) \in Int
  BY <1>1, DivisionIs
<1> QED BY <1>2 DEF size_from_risk, Greater

\* The arithmetic of the cap: a purchase approved at its reference price r fits
\* into the equity E at its fill price e as well, if the cap leaves room for the
\* slippage.
LEMMA Headroom ==
  ASSUME NEW X \in Nat, NEW q \in Nat, NEW r \in Nat, NEW e \in Nat, NEW E \in Nat,
         NEW M \in Nat, NEW B \in Nat, 10000 <= B, 10000 * e <= r * B,
         100 * (X + q * r) <= E * M, M * B <= 1000000
  PROVE  X + q * e <= E
<1>1. PICK n \in Nat, m \in Nat : n = q * r /\ m = q * e
  BY ProductOfNaturals
<1>2. 10000 * m <= n * B
  <2>1. (10000 * e) * q <= (r * B) * q
    <3>1. 10000 * e \in Int /\ r * B \in Int
      BY Products
    <3> QED BY <3>1, ProductGrows
  <2>2. (10000 * e) * q = 10000 * m /\ (r * B) * q = n * B
    BY <1>1
  <2> QED BY <2>1, <2>2
<1>3. 10000 * X <= X * B
  BY ProductGrows
<1>4. (X + n) * B = X * B + n * B /\ X * B \in Nat /\ n * B \in Nat
  BY ProductOfNaturals
<1>5. 10000 * (X + m) <= (X + n) * B
  BY <1>2, <1>3, <1>4
<1>6. (100 * (X + n)) * B <= (E * M) * B
  <2>1. 100 * (X + n) \in Int /\ E * M \in Int
    BY ProductOfNaturals
  <2> QED BY <1>1, <2>1, ProductGrows
<1>7. (E * M) * B = E * (M * B) /\ (100 * (X + n)) * B = 100 * ((X + n) * B)
  OBVIOUS
<1>8. E * (M * B) <= E * 1000000
  <2>1. M * B \in Int
    BY ProductOfNaturals
  <2> QED BY <2>1, ProductGrows
<1>9. PICK w \in Nat : w = (X + n) * B
  BY ProductOfNaturals
<1>10. 100 * w <= E * 1000000
  BY <1>6, <1>7, <1>8, <1>9
<1> QED BY <1>1, <1>5, <1>9, <1>10

-----------------------------------------------------------------------------
(* What a call, and a step, does to the money.                              *)

\* The cap on the exposure leaves room for the slippage.
RoomForSlippage == MaxTotalExposurePct * (10000 + SlippageBps) <= 1000000

\* What no call on a portfolio may do to its money.
Keeps(p, q) ==
  /\ Typed(q)
  /\ q.cash + Cost(q) - q.realized_pl_total = p.cash + Cost(p) - p.realized_pl_total
  /\ Squeezed(p) => Squeezed(q)
  /\ RoomForSlippage /\ Stake(p) <= p.cash + Cost(p) =>
       Squeezed(q) \/ Stake(q) <= q.cash + Cost(q)

\* Doing nothing keeps the money.
LEMMA KeepsSelf == ASSUME NEW p, Typed(p) PROVE Keeps(p, p)
BY DEF Keeps

\* Two calls that keep the money keep it together.
LEMMA KeepsTwice ==
  ASSUME NEW p, NEW q, NEW r, Keeps(p, q), Keeps(q, r)
  PROVE  Keeps(p, r)
BY DEF Keeps

\* record_exit keeps the money, whatever the prices.
LEMMA ExitKeeps ==
  ASSUME NEW p, Typed(p), NEW S, S \subseteq Held(p), NEW price, NEW k, NEW reason,
         \A t \in S : price[t] \in Nat
  PROVE  Keeps(p, record_exit(p, S, price, k, reason))
<1> DEFINE q == record_exit(p, S, price, k, reason)
<1>1. /\ Typed(q)
      /\ q.cash + Cost(q) - q.realized_pl_total = p.cash + Cost(p) - p.realized_pl_total
      /\ Squeezed(p) => Squeezed(q)
      /\ Stake(p) <= p.cash + Cost(p) => Squeezed(q) \/ Stake(q) <= q.cash + Cost(q)
  BY ExitMoney
<1> HIDE DEF q
<1> QED BY <1>1 DEF Keeps, q

\* _attempt_entry keeps the money, whether it enters or rejects.
LEMMA EntryKeeps ==
  ASSUME DayInv, Control, pc = "walk", NEW p, Typed(p), NEW t \in Ticker, t \notin Held(p),
         NEW k \in 1..Ticks, HasBar(t, FillTick(k)), NEW side \in Side, NEW id \in Nat,
         _attempt_entry(p, id, t, k, side)
  PROVE  Keeps(p, portfolio')
<1> DEFINE reference == FillReference(t, k)
           eq == equity(p)
           book == _open_positions_for_risk(p)
           requested == size_from_risk(eq, reference, StopPct, RiskPct)
           check == validate_order(t, side, requested, reference, eq, book)
           fill == [side |-> side, qty |-> check.quantity,
                    entry_price |-> apply_slippage(reference, side),
                    entry_day |-> day, entry_tick |-> FillTick(k),
                    stop_price |-> StopPrice(side, reference), decision_id |-> id]
<1>1. reference \in Nat \ {0} /\ FillTick(k) \in Nat
  BY ReferencePrice
<1>2. Cost(p) \in Int /\ Stake(p) \in Nat /\ eq = p.cash + Cost(p) /\ eq \in Int
  <2>1. Cost(p) \in Int /\ Stake(p) \in Nat
    BY SumsTyped
  <2>2. eq = p.cash + Cost(p)
    BY EquityIs
  <2> HIDE DEF eq
  <2> QED BY <2>1, <2>2 DEF Typed
<1>3. TotalExposure(book) = Stake(p)
  BY ExposureIs
<1>4. book[t].quantity = 0
  BY DEF _open_positions_for_risk
<1>5. requested \in Int
  <2> HIDE DEF reference, eq
  <2> QED BY <1>1, <1>2, SizeIs
<1>6. \/ portfolio' = p
      \/ ~(eq <= 0) /\ check.approved /\ portfolio' = record_entry(p, t, fill)
  BY DEF _attempt_entry
<1>7. CASE portfolio' = p
  BY <1>7, KeepsSelf
<1>8. CASE ~(eq <= 0) /\ check.approved /\ portfolio' = record_entry(p, t, fill)
  <2>1. /\ check.quantity \in Nat \ {0}
        /\ 100 * (Stake(p) + check.quantity * reference) <= eq * MaxTotalExposurePct
    <3> HIDE DEF reference, eq, requested, book
    <3>1. TotalExposure(book) \in Int
      BY <1>2, <1>3
    <3> QED BY <1>1, <1>2, <1>3, <1>4, <1>5, <1>8, <3>1, ApprovedFits
  <2>2. /\ apply_slippage(reference, side) \in Nat
        /\ 10000 * apply_slippage(reference, side) <= reference * (10000 + SlippageBps)
    <3> HIDE DEF reference
    <3> QED BY <1>1, SlippageIs
  <2>3. StopPrice(side, reference) \in Int /\ (side = "sell" => StopPrice(side, reference) \in Nat)
    <3> HIDE DEF reference
    <3> QED BY <1>1, StopIs
  <2>4. IsPosition(fill)
    <3> HIDE DEF reference, check
    <3> QED BY <1>1, <2>1, <2>2, <2>3 DEF IsPosition, PositionRecord, Control
  <2>5. PICK q : q = portfolio'
    OBVIOUS
  <2>6. /\ Typed(q) /\ q.cash + Cost(q) = p.cash + Cost(p)
        /\ q.realized_pl_total = p.realized_pl_total
        /\ q.closed_positions = p.closed_positions
        /\ Stake(q) = Stake(p) + fill.qty * fill.entry_price
    <3> HIDE DEF fill
    <3> QED BY <1>8, <2>4, <2>5, EntryMoney
  <2>7. Squeezed(p) => Squeezed(q)
    BY <2>6 DEF Squeezed
  <2>8. ASSUME RoomForSlippage PROVE Stake(q) <= q.cash + Cost(q)
    <3>1. PICK X, m, r, e, E, M, B :
            /\ X = Stake(p) /\ m = check.quantity /\ r = reference
            /\ e = apply_slippage(reference, side) /\ E = eq /\ M = MaxTotalExposurePct
            /\ B = 10000 + SlippageBps
      OBVIOUS
    <3>2. fill.qty = m /\ fill.entry_price = e
      BY <3>1
    <3> HIDE DEF reference, eq, check, fill
    <3>3. X \in Nat /\ m \in Nat /\ r \in Nat /\ e \in Nat /\ E \in Nat
      BY <1>1, <1>2, <1>8, <2>1, <2>2, <3>1
    <3>4. M \in Nat /\ B \in Nat /\ 10000 <= B
      BY <3>1, PortfolioAssumption, RiskAssumption
    <3>5. 10000 * e <= r * B /\ 100 * (X + m * r) <= E * M /\ M * B <= 1000000
      BY <2>1, <2>2, <2>8, <3>1 DEF RoomForSlippage
    <3>6. X + m * e <= E
      BY <3>3, <3>4, <3>5, Headroom
    <3> QED BY <1>2, <2>6, <3>1, <3>2, <3>6
  <2>9. q.cash + Cost(q) - q.realized_pl_total = p.cash + Cost(p) - p.realized_pl_total
    <3>1. /\ p.cash \in Int /\ q.cash \in Int /\ p.realized_pl_total \in Int
          /\ Cost(p) \in Int /\ Cost(q) \in Int
      BY <2>6, SumsTyped DEF Typed
    <3> QED BY <2>6, <3>1
  <2>10. Keeps(p, q)
    <3> HIDE DEF fill, check, eq, reference, requested, book
    <3> QED BY <2>6, <2>7, <2>8, <2>9 DEF Keeps
  <2> QED BY <2>5, <2>10
<1> QED BY <1>6, <1>7, <1>8

-----------------------------------------------------------------------------

Money == Balanced(portfolio) /\ (RoomForSlippage => Covered(portfolio))

\* A call that keeps the money keeps the portfolio balanced and covered.
LEMMA MoneyKept ==
  ASSUME NEW p, NEW q, Balanced(p), RoomForSlippage => Covered(p), Keeps(p, q)
  PROVE  Balanced(q) /\ (RoomForSlippage => Covered(q))
<1>1. /\ p.cash \in Int /\ q.cash \in Int /\ p.realized_pl_total \in Int
      /\ q.realized_pl_total \in Int /\ Cost(p) \in Int /\ Cost(q) \in Int
      /\ StartingCash \in Int
  BY SumsTyped, PortfolioAssumption DEF Keeps, Balanced, Typed
<1>2. Balanced(q)
  <2>1. /\ q.cash + Cost(q) - q.realized_pl_total = p.cash + Cost(p) - p.realized_pl_total
        /\ p.cash + Cost(p) = StartingCash + p.realized_pl_total
    BY DEF Keeps, Balanced
  <2>2. q.cash + Cost(q) = StartingCash + q.realized_pl_total
    BY <1>1, <2>1
  <2> QED BY <2>2 DEF Keeps, Balanced
<1>3. RoomForSlippage => Covered(q)
  BY DEF Keeps, Covered
<1> QED BY <1>2, <1>3

\* A run starts with the starting cash and no stake.
LEMMA InitMoney == ASSUME Init PROVE Money
<1>1. PICK p : p = portfolio
  OBVIOUS
<1>2. p.cash = StartingCash /\ p.realized_pl_total = 0 /\ Held(p) = {}
  BY <1>1 DEF Init, EmptyPortfolio, Held
<1>3. Typed(p)
  BY <1>2, PortfolioAssumption DEF Typed
<1>4. Ticker \in SUBSET Ticker /\ IsFiniteSet(Ticker)
  BY RiskAssumption
<1>5. \A t \in Ticker : CostFun(p)[t] = 0 /\ StakeFun(p)[t] = 0
  BY <1>2 DEF CostFun, StakeFun
<1>6. CostFun(p) \in [Ticker -> Int] /\ StakeFun(p) \in [Ticker -> Int]
  BY <1>3, SumsTyped
<1>7. Cost(p) = 0 /\ Stake(p) = 0
  BY <1>4, <1>5, <1>6, SumOfZeros DEF Cost, Stake
<1>8. Balanced(p) /\ Covered(p)
  BY <1>2, <1>3, <1>7, PortfolioAssumption DEF Balanced, Covered
<1> QED BY <1>1, <1>8 DEF Money

\* The bars of a day stop positions out at prices there are.
LEMMA BarMoney == ASSUME IInv, DayInv, Typed(portfolio), ApplyBar PROVE Keeps(portfolio, portfolio')
<1> DEFINE S == {t \in Held(portfolio) : StopTouched(portfolio.positions[t], bars[t][tick + 1])}
           price == [t \in S |-> portfolio.positions[t].stop_price]
<1>1. portfolio' = record_exit(portfolio, S, price, tick + 1, "stop_hit") /\ pc = "walk"
      /\ tick < Ticks
  BY DEF ApplyBar
<1>2. tick + 1 \in 1..Ticks
  BY <1>1, ReplayAssumption DEF IInv, Control
<1>3. ASSUME NEW t \in S PROVE price[t] \in Nat
  <2>1. t \in Ticker /\ t \in Held(portfolio) /\ StopTouched(portfolio.positions[t], bars[t][tick + 1])
    BY DEF Held
  <2>2. bars[t][tick + 1] # NONE
    BY <2>1 DEF StopTouched
  <2>3. bars[t][tick + 1].low \in Nat
    BY <1>1, <1>2, <2>1, <2>2, BarPrices
  <2>4. IsPosition(portfolio.positions[t])
    BY <2>1 DEF Typed
  <2>5. PICK pos : pos = portfolio.positions[t]
    OBVIOUS
  <2>6. pos.stop_price \in Nat
    <3>1. pos.side \in {"buy", "sell"} /\ pos.stop_price \in Int
          /\ (pos.side = "sell" => pos.stop_price \in Nat)
      BY <2>4, <2>5 DEF IsPosition, PositionRecord, Side
    <3>2. pos.side = "buy" => bars[t][tick + 1].low <= pos.stop_price
      BY <2>1, <2>5 DEF StopTouched
    <3> QED BY <2>3, <3>1, <3>2
  <2> QED BY <2>5, <2>6
<1>4. S \subseteq Held(portfolio)
  OBVIOUS
<1> HIDE DEF S, price
<1> QED BY <1>1, <1>3, <1>4, ExitKeeps

\* The flatten closes every position at a price there is.
LEMMA FlattenMoney ==
  ASSUME IInv, DayInv, Typed(portfolio), flatten_at_eod
  PROVE  Keeps(portfolio, portfolio')
<1> DEFINE S == OpenTickers
           price == [t \in S |-> FlattenPrice(t)]
<1>1. portfolio' = record_exit(portfolio, S, price, Ticks, "eod_flatten") /\ pc = "walk"
  BY DEF flatten_at_eod
<1>2. Ticks \in 1..Ticks
  BY ReplayAssumption
<1>3. ASSUME NEW t \in S PROVE price[t] \in Nat
  <2>1. t \in Ticker /\ t \in Held(portfolio)
    BY DEF Held, OpenTickers
  <2>2. CASE bars[t][Ticks] # NONE
    <3>1. bars[t][Ticks].close \in Nat
      BY <1>1, <1>2, <2>1, <2>2, BarPrices
    <3> QED BY <2>2, <3>1 DEF FlattenPrice
  <2>3. CASE bars[t][Ticks] = NONE
    <3>1. IsPosition(portfolio.positions[t])
      BY <2>1 DEF Typed
    <3> QED BY <2>3, <3>1, OnePosition DEF FlattenPrice
  <2> QED BY <2>2, <2>3
<1>4. S \subseteq Held(portfolio)
  BY DEF OpenTickers
<1> HIDE DEF S, price
<1> QED BY <1>1, <1>3, <1>4, ExitKeeps

\* A decision flips at a price there is, and enters on what the flip left.
LEMMA DecisionMoney ==
  ASSUME IInv, DayInv, Typed(portfolio), ApplyOneDecision
  PROVE  Keeps(portfolio, portfolio')
<1> DEFINE id == applied + 1
           d == decisions[id]
           k == d.tick
           t == d.ticker
           side == _entry_side(d.action)
           flipped == AfterFlip(t, k)
<1>1. /\ pc = "walk" /\ id \in Nat /\ Control
      /\ k \in 1..Ticks /\ t \in Ticker /\ side \in Side
  <2>1. pc = "walk" /\ applied < Len(decisions) /\ applied \in Nat /\ Control
    BY DEF ApplyOneDecision, Pending, IInv, Control
  <2>2. id \in 1..Len(decisions) /\ decisions \in Seq(Decision)
    BY <2>1 DEF DayInv
  <2>3. d \in Decision
    <3> HIDE DEF id
    <3> QED BY <2>2
  <2>4. side \in Side
    BY DEF _entry_side, Side
  <2> HIDE DEF d, side
  <2> QED BY <2>1, <2>3, <2>4 DEF Decision
<1>2. \/ UNCHANGED portfolio
      \/ HasBar(t, FillTick(k)) /\ _attempt_entry(flipped, id, t, k, side)
  BY DEF ApplyOneDecision
<1>3. CASE UNCHANGED portfolio
  BY <1>3, KeepsSelf
<1>4. CASE HasBar(t, FillTick(k)) /\ _attempt_entry(flipped, id, t, k, side)
  <2> HIDE DEF id, d, side
  <2>1. FillReference(t, k) \in Nat
    <3> HIDE DEF k, t
    <3> QED BY <1>1, <1>4, ReferencePrice
  <2>2. Keeps(portfolio, flipped) /\ t \notin Held(flipped)
    <3>1. CASE t \in Held(portfolio)
      <4> DEFINE exit_side == Opposite(portfolio.positions[t].side)
                 price == [s \in {t} |-> apply_slippage(FillReference(t, k), exit_side)]
      <4>1. flipped = record_exit(portfolio, {t}, price, FillTick(k), "flip")
        BY <3>1 DEF AfterFlip
      <4>2. exit_side \in Side
        BY DEF Opposite, Side
      <4>3. \A s \in {t} : price[s] \in Nat
        <5> HIDE DEF exit_side
        <5>1. apply_slippage(FillReference(t, k), exit_side) \in Nat
          BY <2>1, <4>2, SlippageIs
        <5> QED BY <5>1
      <4>4. {t} \subseteq Held(portfolio)
        BY <3>1
      <4> HIDE DEF price
      <4>5. Keeps(portfolio, record_exit(portfolio, {t}, price, FillTick(k), "flip"))
        BY <4>3, <4>4, ExitKeeps
      <4>6. t \notin Held(record_exit(portfolio, {t}, price, FillTick(k), "flip"))
        BY Exits
      <4> QED BY <4>1, <4>5, <4>6
    <3>2. CASE t \notin Held(portfolio)
      BY <3>2, KeepsSelf DEF AfterFlip
    <3> QED BY <3>1, <3>2
  <2> HIDE DEF flipped, k, t
  <2>3. Keeps(flipped, portfolio')
    <3>1. Typed(flipped)
      BY <2>2 DEF Keeps
    <3> QED BY <1>1, <1>4, <2>2, <3>1, EntryKeeps
  <2> QED BY <2>2, <2>3, KeepsTwice
<1> QED BY <1>2, <1>3, <1>4

\* Every step keeps Money.
LEMMA MoneyStep ==
  ASSUME IInv, DayInv, Money, [Next]_vars
  PROVE  Money'
<1>1. PICK p, q : p = portfolio /\ q = portfolio'
  OBVIOUS
<1>2. Balanced(p) /\ (RoomForSlippage => Covered(p))
  BY <1>1 DEF Money
<1>3. Typed(portfolio)
  BY <1>1, <1>2 DEF Balanced
<1>4. CASE UNCHANGED portfolio
  BY <1>1, <1>2, <1>4 DEF Money
<1>5. CASE ApplyBar \/ flatten_at_eod \/ ApplyOneDecision
  <2>1. Keeps(p, q)
    BY <1>1, <1>3, <1>5, BarMoney, FlattenMoney, DecisionMoney
  <2>2. Balanced(q) /\ (RoomForSlippage => Covered(q))
    BY <1>2, <2>1, MoneyKept
  <2> QED BY <1>1, <2>2 DEF Money
<1> QED BY <1>4, <1>5 DEF Next, PrepareDay, SkipDay, EvaluateTick, PersistDay, complete_run,
                          Abort, Finished, vars

\* The day in hand and the money, at every state of every replay.
THEOREM MoneyInvariant == Spec => [](IInv /\ DayInv /\ Money)
<1>1. Init => DayInv /\ Money
  BY InitDay, InitMoney
<1>2. IInv /\ IInv' /\ DayInv /\ Money /\ [Next]_vars => DayInv' /\ Money'
  BY MoneyStep, DayStep DEF IInv
<1> QED BY <1>1, <1>2, ReplayInvariant, PTL DEF Spec

\* Through entries, stops, flips and flattens, long and short, what the cash and
\* the cost of the open positions add up to is the starting cash and the profit
\* that was realized (record_entry and record_exit of portfolio.py).
THEOREM ReplayBooksBalance == Spec => []BooksBalance
<1>1. Money => BooksBalance
  BY EquityIs DEF Money, Balanced, BooksBalance
<1> QED BY <1>1, MoneyInvariant, PTL

\* The books balance, and if the cap on the exposure leaves room for the slippage,
\* as the defaults do (90 percent in risk.py, 5 basis points in config.py), a replay
\* spends no cash it does not have unless a short more than doubles: for every
\* order of entries, stops, flips, losses and flattens.
THEOREM ReplayCashAddsUp == RoomForSlippage => (Spec => []CashAddsUp)
<1> SUFFICES ASSUME RoomForSlippage PROVE Spec => []CashAddsUp
  OBVIOUS
<1>1. Money => CashAddsUp
  <2> SUFFICES ASSUME Money PROVE CashAddsUp
    OBVIOUS
  <2>1. PICK p : p = portfolio
    OBVIOUS
  <2>2. Balanced(p) /\ Covered(p)
    BY <2>1 DEF Money
  <2>3. BooksBalance
    BY <2>1, <2>2, EquityIs DEF Balanced, BooksBalance
  <2>4. Squeezed(p) \/ p.cash >= 0
    <3>1. p.cash \in Int /\ Cost(p) \in Int /\ Stake(p) \in Nat /\ Cost(p) <= Stake(p)
      BY <2>2, SumsTyped DEF Balanced, Typed
    <3> QED BY <2>2, <3>1 DEF Covered
  <2> QED BY <2>1, <2>3, <2>4 DEF CashAddsUp, SpendsOwnCash, SqueezedShort, Squeezed
<1> QED BY <1>1, MoneyInvariant, PTL

-----------------------------------------------------------------------------
(* The ledger.  During the walk, every position of the day in hand is      *)
(* booked on a decision of its own, already applied, and no rejection is   *)
(* about that decision.                                                    *)

Booked(t, pos, n) ==
  LET d == decisions[pos.decision_id]
  IN  /\ pos.decision_id \in 1..n
      /\ d.ticker = t /\ d.action # "Hold" /\ _entry_side(d.action) = pos.side

ClosedOn(p, d) == {c \in p.closed_positions : c.position.entry_day = d}
Settled(p, d) == {c \in p.closed_positions : c.position.entry_day < d}

Today(p, n, R) ==
  /\ IsFiniteSet(p.closed_positions)
  /\ n \in 0..Len(decisions)
  /\ \A t \in Held(p) : p.positions[t].entry_day = day /\ Booked(t, p.positions[t], n)
  /\ \A c \in ClosedOn(p, day) : Booked(c.ticker, c.position, n)
  /\ \A c, e \in ClosedOn(p, day) : c.position.decision_id = e.position.decision_id => c = e
  /\ \A t \in Held(p) : \A c \in ClosedOn(p, day) :
       p.positions[t].decision_id # c.position.decision_id
  /\ \A r \in R :
       /\ r.decision_id \in 1..n
       /\ \A t \in Held(p) : p.positions[t].decision_id # r.decision_id
       /\ \A c \in ClosedOn(p, day) : c.position.decision_id # r.decision_id

TodayInv ==
  /\ pc \in {"prepare", "evaluate"} => applied = 0 /\ rejections = {}
  /\ pc \in {"walk", "persist"} => Today(portfolio, applied, rejections)

\* Closing positions of the day books them as they were.
LEMMA ExitToday ==
  ASSUME Control, NEW p, NEW n, NEW R, Today(p, n, R), NEW S, S \subseteq Held(p),
         NEW price, NEW k, NEW reason
  PROVE  LET q == record_exit(p, S, price, k, reason)
         IN  Today(q, n, R) /\ Settled(q, day) = Settled(p, day)
<1> DEFINE q == record_exit(p, S, price, k, reason)
           new(t) == [ticker |-> t, position |-> p.positions[t], exit_price |-> price[t],
                      exit_tick |-> k, exit_reason |-> reason]
           News == {new(t) : t \in S}
<1>1. q.closed_positions = p.closed_positions \cup News
  BY DEF record_exit
<1>2. \A t \in Held(q) : t \in Held(p) /\ t \notin S /\ q.positions[t] = p.positions[t]
  BY Exits
<1>3. \A t \in S : t \in Held(p) /\ p.positions[t].entry_day = day /\ Booked(t, p.positions[t], n)
  BY DEF Today
<1>4. \A c \in News : \E t \in S : c.ticker = t /\ c.position = p.positions[t] /\ c = new(t)
  OBVIOUS
<1>5. IsFiniteSet(q.closed_positions)
  <2>1. IsFiniteSet(S)
    BY RiskAssumption, FS_Subset DEF Held
  <2>2. IsFiniteSet(News)
    <3> DEFINE g == [t \in S |-> new(t)]
    <3>1. g \in [S -> News] /\ \A c \in News : \E t \in S : g[t] = c
      OBVIOUS
    <3> HIDE DEF g, News
    <3> QED BY <2>1, <3>1, OntoSize
  <2>3. IsFiniteSet(p.closed_positions)
    BY DEF Today
  <2> HIDE DEF News, q
  <2> QED BY <1>1, <2>2, <2>3, FS_Union
<1> HIDE DEF News, q
<1>6. \A c \in ClosedOn(q, day) : c \in ClosedOn(p, day) \/ c \in News
  BY <1>1 DEF ClosedOn
<1>7. Settled(q, day) = Settled(p, day)
  <2>1. \A c \in News : c.position.entry_day = day
    BY <1>3, <1>4
  <2>2. day \in Nat
    BY DEF Control
  <2>3. \A c \in News : ~(c.position.entry_day < day)
    BY <2>1, <2>2
  <2> QED BY <1>1, <2>3 DEF Settled
<1>8. n \in 0..Len(decisions)
  BY DEF Today
<1>9. \A t \in Held(q) : q.positions[t].entry_day = day /\ Booked(t, q.positions[t], n)
  BY <1>2 DEF Today
<1>10. \A c \in ClosedOn(q, day) : Booked(c.ticker, c.position, n)
  BY <1>3, <1>4, <1>6 DEF Today
<1>11. ASSUME NEW s \in Held(p), NEW t \in Held(p),
              p.positions[s].decision_id = p.positions[t].decision_id
       PROVE  s = t
  BY <1>11 DEF Today, Booked
<1>12. ASSUME NEW c \in ClosedOn(q, day), NEW e \in ClosedOn(q, day),
              c.position.decision_id = e.position.decision_id
       PROVE  c = e
  <2>1. CASE c \in ClosedOn(p, day) /\ e \in ClosedOn(p, day)
    BY <1>12, <2>1 DEF Today
  <2>2. CASE c \in News /\ e \in News
    <3>1. PICK s \in S, t \in S : c.position = p.positions[s] /\ c = new(s)
                                  /\ e.position = p.positions[t] /\ e = new(t)
      BY <1>4, <2>2
    <3>2. s = t
      BY <1>3, <1>11, <1>12, <3>1
    <3> QED BY <3>1, <3>2
  <2>3. CASE c \in News /\ e \in ClosedOn(p, day)
    BY <1>3, <1>4, <1>12, <2>3 DEF Today
  <2>4. CASE c \in ClosedOn(p, day) /\ e \in News
    BY <1>3, <1>4, <1>12, <2>4 DEF Today
  <2> QED BY <1>6, <2>1, <2>2, <2>3, <2>4
<1>13. ASSUME NEW t \in Held(q), NEW c \in ClosedOn(q, day)
       PROVE  q.positions[t].decision_id # c.position.decision_id
  <2>1. CASE c \in ClosedOn(p, day)
    BY <1>2, <2>1 DEF Today
  <2>2. CASE c \in News
    BY <1>2, <1>3, <1>4, <1>11, <2>2
  <2> QED BY <1>6, <2>1, <2>2
<1>14. ASSUME NEW r \in R
       PROVE  /\ r.decision_id \in 1..n
              /\ \A t \in Held(q) : q.positions[t].decision_id # r.decision_id
              /\ \A c \in ClosedOn(q, day) : c.position.decision_id # r.decision_id
  <2>1. /\ r.decision_id \in 1..n
        /\ \A t \in Held(p) : p.positions[t].decision_id # r.decision_id
        /\ \A c \in ClosedOn(p, day) : c.position.decision_id # r.decision_id
    BY DEF Today
  <2> QED BY <1>2, <1>3, <1>4, <1>6, <2>1
<1>15. Today(q, n, R)
  BY <1>5, <1>8, <1>9, <1>10, <1>12, <1>13, <1>14 DEF Today
<1> QED BY <1>7, <1>15 DEF q

\* A decision that changes nothing, and one that is rejected.
LEMMA MoreApplied ==
  ASSUME NEW p, NEW n, NEW R, Today(p, n, R), n + 1 \in 1..Len(decisions), NEW reason
  PROVE  Today(p, n + 1, R) /\ Today(p, n + 1, R \cup {Rejection(n + 1, reason)})
<1>1. n \in Nat /\ n + 1 \in 0..Len(decisions) /\ \A i \in 1..n : i \in 1..n + 1 /\ i # n + 1
  BY DEF Today
<1>2. \A t, pos : Booked(t, pos, n) => Booked(t, pos, n + 1) /\ pos.decision_id # n + 1
  BY <1>1 DEF Booked
<1>3. Rejection(n + 1, reason).decision_id = n + 1 /\ n + 1 \in 1..n + 1
  BY <1>1 DEF Rejection
<1>4. Today(p, n + 1, R)
  BY <1>1, <1>2 DEF Today
<1>5. \A t \in Held(p) : p.positions[t].decision_id # n + 1
  BY <1>2 DEF Today
<1>6. \A c \in ClosedOn(p, day) : c.position.decision_id # n + 1
  BY <1>2 DEF Today
<1>7. \A r \in R \cup {Rejection(n + 1, reason)} :
       /\ r.decision_id \in 1..n + 1
       /\ \A t \in Held(p) : p.positions[t].decision_id # r.decision_id
       /\ \A c \in ClosedOn(p, day) : c.position.decision_id # r.decision_id
  BY <1>3, <1>4, <1>5, <1>6 DEF Today
<1> QED BY <1>4, <1>7 DEF Today

\* The position of a fill is booked on the decision that asked for it.
LEMMA EntryToday ==
  ASSUME NEW p, NEW n, NEW R, Today(p, n, R), n + 1 \in 1..Len(decisions),
         NEW t \in Ticker, t \notin Held(p), NEW fill,
         fill.entry_day = day, fill.decision_id = n + 1, Booked(t, fill, n + 1)
  PROVE  Today(record_entry(p, t, fill), n + 1, R)
<1> DEFINE q == record_entry(p, t, fill)
<1>1. /\ \A s \in Held(q) : \/ s = t /\ q.positions[s] = fill
                            \/ s \in Held(p) /\ q.positions[s] = p.positions[s]
      /\ q.closed_positions = p.closed_positions
  BY Enters
<1> HIDE DEF q
<1>2. ClosedOn(q, day) = ClosedOn(p, day)
  BY <1>1 DEF ClosedOn
<1>3. Today(p, n + 1, R)
  BY MoreApplied
<1>4. n \in Nat /\ \A i \in 1..n : i # n + 1
  BY DEF Today
<1>5. \A c \in ClosedOn(p, day) : c.position.decision_id # n + 1
  BY <1>4 DEF Today, Booked
<1>6. \A r \in R : r.decision_id # n + 1
  BY <1>4 DEF Today
<1>7. \A s \in Held(q) : q.positions[s].entry_day = day /\ Booked(s, q.positions[s], n + 1)
  BY <1>1, <1>3 DEF Today
<1>8. \A s \in Held(q) : \A c \in ClosedOn(q, day) :
        q.positions[s].decision_id # c.position.decision_id
  BY <1>1, <1>2, <1>3, <1>5 DEF Today
<1>9. \A r \in R : \A s \in Held(q) : q.positions[s].decision_id # r.decision_id
  BY <1>1, <1>3, <1>6 DEF Today
<1>10. Today(q, n + 1, R)
  BY <1>1, <1>2, <1>3, <1>7, <1>8, <1>9 DEF Today
<1> QED BY <1>10 DEF q

\* _attempt_entry enters, or rejects.
LEMMA AttemptToday ==
  ASSUME NEW p, NEW n, NEW R, Today(p, n, R), R = rejections, n + 1 \in 1..Len(decisions),
         NEW t \in Ticker, t \notin Held(p), NEW k, NEW side,
         decisions[n + 1].ticker = t, decisions[n + 1].action # "Hold",
         side = _entry_side(decisions[n + 1].action),
         _attempt_entry(p, n + 1, t, k, side)
  PROVE  Today(portfolio', n + 1, rejections')
         /\ portfolio'.closed_positions = p.closed_positions
<1> DEFINE reference == FillReference(t, k)
           check == validate_order(t, side, size_from_risk(equity(p), reference, StopPct, RiskPct),
                                   reference, equity(p), _open_positions_for_risk(p))
           fill == [side |-> side, qty |-> check.quantity,
                    entry_price |-> apply_slippage(reference, side),
                    entry_day |-> day, entry_tick |-> FillTick(k),
                    stop_price |-> StopPrice(side, reference), decision_id |-> n + 1]
<1>1. \/ /\ portfolio' = p
         /\ \E reason : rejections' = rejections \cup {Rejection(n + 1, reason)}
      \/ /\ portfolio' = record_entry(p, t, fill)
         /\ rejections' = rejections
  BY DEF _attempt_entry
<1>2. CASE /\ portfolio' = p
           /\ \E reason : rejections' = rejections \cup {Rejection(n + 1, reason)}
  BY <1>2, MoreApplied
<1>3. CASE portfolio' = record_entry(p, t, fill) /\ rejections' = rejections
  <2>1. fill.entry_day = day /\ fill.decision_id = n + 1 /\ fill.side = side
    OBVIOUS
  <2> HIDE DEF fill
  <2>2. n + 1 \in 1..n + 1
    OBVIOUS
  <2>3. Booked(t, fill, n + 1)
    BY <2>1, <2>2 DEF Booked
  <2>4. Today(record_entry(p, t, fill), n + 1, R)
    BY <2>1, <2>3, EntryToday
  <2>5. record_entry(p, t, fill).closed_positions = p.closed_positions
    BY Enters
  <2> QED BY <1>3, <2>4, <2>5
<1> QED BY <1>1, <1>2, <1>3

\* A decision is booked, rejected or does nothing, on an id of its own.
LEMMA DecisionToday ==
  ASSUME IInv, DayInv, TodayInv, ApplyOneDecision
  PROVE  Today(portfolio', applied + 1, rejections')
         /\ Settled(portfolio', day) = Settled(portfolio, day)
<1> DEFINE n == applied
           d == decisions[n + 1]
           t == d.ticker
           k == d.tick
           side == _entry_side(d.action)
           flipped == AfterFlip(t, k)
<1>1. /\ pc = "walk" /\ n \in Nat /\ Control /\ n + 1 \in 1..Len(decisions)
      /\ Today(portfolio, n, rejections) /\ t \in Ticker
  <2>1. pc = "walk" /\ n < Len(decisions) /\ n \in Nat /\ Control
    BY DEF ApplyOneDecision, Pending, IInv, Control
  <2>2. n + 1 \in 1..Len(decisions) /\ decisions \in Seq(Decision)
    BY <2>1 DEF DayInv
  <2>3. d \in Decision
    BY <2>2
  <2> QED BY <2>1, <2>2, <2>3 DEF TodayInv, Decision
<1>2. \/ UNCHANGED <<portfolio, rejections>>
      \/ /\ UNCHANGED portfolio
         /\ \E reason : rejections' = rejections \cup {Rejection(n + 1, reason)}
      \/ d.action # "Hold" /\ _attempt_entry(flipped, n + 1, t, k, side)
  BY DEF ApplyOneDecision
<1>3. CASE UNCHANGED <<portfolio, rejections>>
  BY <1>1, <1>3, MoreApplied
<1>4. CASE /\ UNCHANGED portfolio
           /\ \E reason : rejections' = rejections \cup {Rejection(n + 1, reason)}
  BY <1>1, <1>4, MoreApplied
<1>5. CASE d.action # "Hold" /\ _attempt_entry(flipped, n + 1, t, k, side)
  <2>1. /\ Today(flipped, n, rejections) /\ Settled(flipped, day) = Settled(portfolio, day)
        /\ t \notin Held(flipped)
    <3>1. CASE t \in Held(portfolio)
      <4> DEFINE price == [s \in {t} |-> apply_slippage(FillReference(t, k),
                                           Opposite(portfolio.positions[t].side))]
      <4>1. flipped = record_exit(portfolio, {t}, price, FillTick(k), "flip")
        BY <3>1 DEF AfterFlip
      <4>2. {t} \subseteq Held(portfolio)
        BY <3>1
      <4> HIDE DEF price, t, k
      <4> QED BY <1>1, <4>1, <4>2, ExitToday, Exits
    <3>2. CASE t \notin Held(portfolio)
      BY <1>1, <3>2 DEF AfterFlip
    <3> QED BY <3>1, <3>2
  <2> HIDE DEF flipped
  <2>2. Today(portfolio', n + 1, rejections')
        /\ portfolio'.closed_positions = flipped.closed_positions
    <3>1. PICK R : R = rejections
      OBVIOUS
    <3>2. t = d.ticker /\ side = _entry_side(d.action) /\ Today(flipped, n, R)
      BY <2>1, <3>1
    <3> HIDE DEF n, k
    <3> QED BY <1>1, <1>5, <2>1, <3>1, <3>2, AttemptToday
  <2> QED BY <2>1, <2>2 DEF Settled
<1> QED BY <1>2, <1>3, <1>4, <1>5

-----------------------------------------------------------------------------

Row == [trading_date : Nat, ticker : Ticker, action : Action]

\* What LedgerMatchesBook asks of the row of a closed position.
Tells(f, c) ==
  /\ db.decisions[f.decision_id].trading_date = c.position.entry_day
  /\ f.ticker = c.ticker /\ f.side = c.position.side
  /\ f.realized_pl = Realized(c.position, c.exit_price)

\* A fill refers to the decision that asked for it.
Refers(f) ==
  LET d == db.decisions[f.decision_id]
  IN  /\ f.decision_id \in 1..Len(db.decisions)
      /\ d.ticker = f.ticker /\ d.action # "Hold" /\ _entry_side(d.action) = f.side

Rows ==
  /\ DOMAIN db = {"decisions", "fills", "rejections", "completed"}
  /\ db.decisions \in Seq(Row)
  /\ \A i \in DOMAIN db.decisions :
       db.decisions[i].trading_date < day /\ db.decisions[i].trading_date \notin skipped
  /\ \A s \in skipped : s \in Nat /\ s < day

Fills ==
  /\ IsFiniteSet(db.fills) /\ IsFiniteSet(portfolio.closed_positions)
  /\ Cardinality(db.fills) = Cardinality(Settled(portfolio, day))
  /\ \A c \in Settled(portfolio, day) : \E f \in db.fills : Tells(f, c)
  /\ \A f \in db.fills : Refers(f)
  /\ \A r \in db.rejections : r.decision_id \in 1..Len(db.decisions)
  /\ \A f \in db.fills : \A r \in db.rejections : f.decision_id # r.decision_id

LedgerInv == TodayInv /\ Rows /\ Fills

\* A run starts with an empty database.
LEMMA InitLedger == ASSUME Init PROVE LedgerInv
<1>1. /\ portfolio.closed_positions = {} /\ db = EmptyDb /\ skipped = {}
      /\ pc = "prepare" /\ applied = 0 /\ rejections = {}
  BY DEF Init, EmptyPortfolio
<1>2. TodayInv
  BY <1>1 DEF TodayInv
<1>3. Rows
  BY <1>1 DEF Rows, EmptyDb
<1>4. Settled(portfolio, day) = {} /\ db.fills = {} /\ db.rejections = {}
  BY <1>1 DEF Settled, EmptyDb
<1>5. IsFiniteSet({})
  BY FS_EmptySet
<1>6. Fills
  BY <1>1, <1>4, <1>5 DEF Fills
<1> QED BY <1>2, <1>3, <1>6 DEF LedgerInv

\* One table after another.
LEMMA Appended ==
  ASSUME NEW R, NEW s \in Seq(R), NEW r \in Seq(R)
  PROVE  /\ s \o r \in Seq(R) /\ Len(s \o r) = Len(s) + Len(r)
         /\ Len(s) \in Nat /\ Len(r) \in Nat
         /\ \A i \in 1..Len(s) : (s \o r)[i] = s[i] /\ i \in 1..Len(s \o r)
         /\ \A i \in 1..Len(r) : (s \o r)[Len(s) + i] = r[i] /\ Len(s) + i \in 1..Len(s \o r)
         /\ \A i \in 1..Len(s \o r) : i \in 1..Len(s) \/ \E j \in 1..Len(r) : i = Len(s) + j
<1>1. s \o r \in Seq(R) /\ Len(s \o r) = Len(s) + Len(r) /\ Len(s) \in Nat /\ Len(r) \in Nat
  OBVIOUS
<1>2. \A i \in 1..Len(s) : (s \o r)[i] = s[i] /\ i \in 1..Len(s \o r)
  OBVIOUS
<1>3. \A i \in 1..Len(r) : (s \o r)[Len(s) + i] = r[i] /\ Len(s) + i \in 1..Len(s \o r)
  OBVIOUS
<1>4. ASSUME NEW i \in 1..Len(s \o r), i \notin 1..Len(s)
      PROVE  \E j \in 1..Len(r) : i = Len(s) + j
  <2>1. i - Len(s) \in 1..Len(r) /\ i = Len(s) + (i - Len(s))
    BY <1>1, <1>4
  <2> QED BY <2>1
<1> QED BY <1>1, <1>2, <1>3, <1>4

\* A step of the day in hand leaves the settled days alone.
LEMMA DaySettled ==
  ASSUME LedgerInv, UNCHANGED <<db, day, skipped>>, IsFiniteSet(portfolio'.closed_positions),
         Settled(portfolio', day) = Settled(portfolio, day)
  PROVE  (Rows /\ Fills)'
<1>1. Settled(portfolio, day)' = Settled(portfolio, day)
  BY DEF Settled
<1>2. Rows'
  BY DEF LedgerInv, Rows
<1>3. \A f, c : Tells(f, c)' <=> Tells(f, c)
  BY DEF Tells
<1>4. \A f : Refers(f)' <=> Refers(f)
  BY DEF Refers
<1>5. Fills'
  BY <1>1, <1>3, <1>4 DEF LedgerInv, Fills
<1> QED BY <1>2, <1>5

\* A skipped day leaves the database, and the settled positions, alone.
LEMMA SkipLedger == ASSUME IInv, LedgerInv, SkipDay PROVE LedgerInv'
<1>1. /\ pc \in {"prepare", "evaluate"} /\ skipped' = skipped \cup {day}
      /\ NextDay /\ UNCHANGED <<portfolio, db>>
  BY DEF SkipDay
<1>2. day \in Nat /\ day' = day + 1 /\ pc' \in {"complete", "prepare"}
      /\ applied' = 0 /\ rejections' = {}
  BY <1>1 DEF IInv, Control, NextDay
<1>3. TodayInv'
  BY <1>2 DEF TodayInv
<1>4. Rows'
  <2>1. \A i \in DOMAIN db.decisions : db.decisions[i].trading_date \in Nat
    <3>1. db.decisions \in Seq(Row)
      BY DEF LedgerInv, Rows
    <3>2. \A i \in DOMAIN db.decisions : db.decisions[i] \in Row
      BY <3>1
    <3> QED BY <3>2 DEF Row
  <2>2. ASSUME NEW i \in DOMAIN db.decisions
        PROVE  /\ db.decisions[i].trading_date < day + 1
               /\ db.decisions[i].trading_date \notin skipped \cup {day}
    <3>1. db.decisions[i].trading_date < day /\ db.decisions[i].trading_date \notin skipped
      BY DEF LedgerInv, Rows
    <3> QED BY <1>2, <2>1, <3>1
  <2>3. \A s \in skipped \cup {day} : s \in Nat /\ s < day + 1
    BY <1>2 DEF LedgerInv, Rows
  <2>4. DOMAIN db = {"decisions", "fills", "rejections", "completed"} /\ db.decisions \in Seq(Row)
    BY DEF LedgerInv, Rows
  <2> QED BY <1>1, <1>2, <2>2, <2>3, <2>4 DEF Rows
<1>5. Fills'
  <2>1. Settled(portfolio, day)' = Settled(portfolio, day)
    <3>1. \A c \in portfolio.closed_positions : c.position.entry_day \in Int
            /\ c.position.entry_day < day
      BY <1>1 DEF IInv, ClosedInv
    <3>2. \A c \in portfolio.closed_positions : c.position.entry_day < day + 1
      BY <1>2, <3>1
    <3> QED BY <1>1, <1>2, <3>1, <3>2 DEF Settled
  <2>2. \A f, c : Tells(f, c)' <=> Tells(f, c)
    BY <1>1 DEF Tells
  <2>3. \A f : Refers(f)' <=> Refers(f)
    BY <1>1 DEF Refers
  <2> QED BY <1>1, <2>1, <2>2, <2>3 DEF LedgerInv, Fills
<1> QED BY <1>3, <1>4, <1>5 DEF LedgerInv

\* The rows a day adds: one fill for each position closed that day.
LEMMA FillsOfTheDay ==
  ASSUME IInv, DayInv, LedgerInv, pc = "persist"
  PROVE  LET row == [c \in ClosedOn(portfolio, day) |->
                       FillRow(c.ticker, c.position, Realized(c.position, c.exit_price))]
         IN  /\ FillRows = {row[c] : c \in ClosedOn(portfolio, day)}
             /\ \A c, e \in ClosedOn(portfolio, day) : row[c] = row[e] => c = e
<1> DEFINE C == ClosedOn(portfolio, day)
           F(c) == FillRow(c.ticker, c.position, Realized(c.position, c.exit_price))
           row == [c \in C |-> F(c)]
<1>1. Today(portfolio, applied, rejections)
  BY DEF LedgerInv, TodayInv
<1>2. OpenToday = {}
  BY DEF IInv, HeldInv, OpenToday
<1>3. ClosedToday = C
  BY DEF ClosedToday, ClosedOn
<1>4. \A c \in C : Linked(c.position.decision_id)
  <2>1. applied \in 0..Len(decisions) /\ \A c \in C : Booked(c.ticker, c.position, applied)
    BY <1>1 DEF Today
  <2>2. \A c \in C : c.position.decision_id \in 1..applied
    BY <2>1 DEF Booked
  <2>3. DOMAIN decisions = 1..Len(decisions)
    BY DEF DayInv
  <2> QED BY <2>1, <2>2, <2>3 DEF Linked
<1>5. FillRows = {F(c) : c \in C}
  <2>1. {x \in ClosedToday : Linked(x.position.decision_id)} = C
    BY <1>3, <1>4
  <2>2. {x \in OpenToday : Linked(portfolio.positions[x].decision_id)} = {}
    BY <1>2
  <2> QED BY <2>1, <2>2, Zenon DEF FillRows
<1>6. \A c \in C : row[c] = F(c)
  OBVIOUS
<1>7. ASSUME NEW c \in C, NEW e \in C, row[c] = row[e] PROVE c = e
  <2>1. F(c).decision_id = F(e).decision_id
    <3> HIDE DEF row, F
    <3> QED BY <1>6, <1>7
  <2>2. GlobalId(c.position.decision_id) = GlobalId(e.position.decision_id)
    BY <2>1 DEF FillRow
  <2>3. c.position.decision_id \in Nat /\ e.position.decision_id \in Nat /\ Len(db.decisions) \in Nat
    BY <1>1 DEF Today, Booked, LedgerInv, Rows
  <2>4. c.position.decision_id = e.position.decision_id
    BY <2>2, <2>3 DEF GlobalId
  <2> QED BY <1>1, <2>4 DEF Today
<1> QED BY <1>5, <1>6, <1>7

\* The rows of the decisions of the day, one for each.
LEMMA DecisionRowsAre ==
  ASSUME DayInv, day \in Nat
  PROVE  /\ DecisionRows \in Seq(Row) /\ Len(DecisionRows) = Len(decisions)
         /\ \A i \in 1..Len(decisions) :
              DecisionRows[i] = [trading_date |-> day, ticker |-> decisions[i].ticker,
                                 action |-> decisions[i].action]
<1>1. decisions \in Seq(Decision)
  BY DEF DayInv
<1>2. PICK n \in Nat : n = Len(decisions) /\ DOMAIN decisions = 1..n
  BY <1>1
<1>3. \A i \in 1..n : [trading_date |-> day, ticker |-> decisions[i].ticker,
                       action |-> decisions[i].action] \in Row
  <2>1. \A i \in 1..n : decisions[i] \in Decision
    BY <1>1, <1>2
  <2> QED BY <2>1 DEF Decision, Row
<1>4. DecisionRows = [i \in 1..n |-> [trading_date |-> day, ticker |-> decisions[i].ticker,
                                      action |-> decisions[i].action]]
  BY <1>2 DEF DecisionRows
<1>5. \A i \in 1..n : DecisionRows[i] = [trading_date |-> day, ticker |-> decisions[i].ticker,
                                         action |-> decisions[i].action]
  BY <1>4
<1>6. ASSUME NEW f, \A i \in 1..n : f[i] \in Row, f = [i \in 1..n |-> f[i]]
      PROVE  f \in Seq(Row) /\ Len(f) = n
  BY <1>6
<1>7. DecisionRows \in Seq(Row) /\ Len(DecisionRows) = n
  <2>1. \A i \in 1..n : DecisionRows[i] \in Row
    BY <1>3, <1>5
  <2>2. DecisionRows = [i \in 1..n |-> DecisionRows[i]]
    BY <1>4
  <2> HIDE DEF Row
  <2> QED BY <1>6, <2>1, <2>2
<1> QED BY <1>2, <1>5, <1>7

\* write_day_results settles the positions of the day: its fills are one for one
\* the positions closed that day, its ids follow those already there.
LEMMA PersistLedger == ASSUME IInv, DayInv, LedgerInv, PersistDay PROVE LedgerInv'
<1> DEFINE C == ClosedOn(portfolio, day)
           row == [c \in C |-> FillRow(c.ticker, c.position, Realized(c.position, c.exit_price))]
           linked == {x \in rejections : Linked(x.decision_id)}
<1>1. /\ pc = "persist" /\ UNCHANGED <<portfolio, skipped>>
      /\ day \in Nat /\ day' = day + 1 /\ pc' \in {"complete", "prepare"}
      /\ applied' = 0 /\ rejections' = {}
  BY DEF PersistDay, IInv, Control, NextDay
<1>2. Today(portfolio, applied, rejections) /\ Rows /\ Fills
  BY <1>1 DEF LedgerInv, TodayInv
<1>3. PICK L \in Nat, n \in Nat : L = Len(db.decisions) /\ n = Len(decisions)
                                 /\ applied \in 0..n /\ DOMAIN decisions = 1..n
  BY <1>2 DEF Rows, DayInv, Today
<1>4. /\ DOMAIN db' = {"decisions", "fills", "rejections", "completed"}
      /\ db'.decisions = db.decisions \o DecisionRows
      /\ db'.fills = db.fills \cup FillRows
      /\ db'.rejections = db.rejections \cup
           {[decision_id |-> GlobalId(r.decision_id), reason |-> r.reason] : r \in linked}
  BY <1>2 DEF PersistDay, Rows
<1>5. FillRows = {row[c] : c \in C} /\ \A c, e \in C : row[c] = row[e] => c = e
  BY <1>1, FillsOfTheDay
<1>6. \A c \in C : /\ row[c].decision_id = L + c.position.decision_id
                   /\ row[c].ticker = c.ticker /\ row[c].side = c.position.side
                   /\ row[c].realized_pl = Realized(c.position, c.exit_price)
                   /\ c.position.decision_id \in 1..n
                   /\ decisions[c.position.decision_id].ticker = c.ticker
                   /\ decisions[c.position.decision_id].action # "Hold"
                   /\ _entry_side(decisions[c.position.decision_id].action) = c.position.side
                   /\ c.position.entry_day = day
  <2>1. \A c \in C : Booked(c.ticker, c.position, applied) /\ c.position.entry_day = day
    BY <1>2 DEF Today, ClosedOn
  <2>2. \A i \in 1..applied : i \in 1..n
    BY <1>3
  <2> QED BY <1>3, <2>1, <2>2 DEF Booked, FillRow, GlobalId
<1>7. /\ db'.decisions \in Seq(Row) /\ Len(db'.decisions) = L + n
      /\ \A i \in 1..L : db'.decisions[i] = db.decisions[i] /\ i \in 1..L + n
      /\ \A i \in 1..n : db'.decisions[L + i] = [trading_date |-> day,
           ticker |-> decisions[i].ticker, action |-> decisions[i].action] /\ L + i \in 1..L + n
      /\ \A i \in 1..L + n : i \in 1..L \/ \E j \in 1..n : i = L + j
  <2>1. /\ DecisionRows \in Seq(Row) /\ Len(DecisionRows) = n
        /\ \A i \in 1..n : DecisionRows[i] = [trading_date |-> day,
             ticker |-> decisions[i].ticker, action |-> decisions[i].action]
    BY <1>1, <1>3, DecisionRowsAre
  <2>2. db.decisions \in Seq(Row)
    BY <1>2 DEF Rows
  <2>3. PICK old, new : old = db.decisions /\ new = DecisionRows
    OBVIOUS
  <2>4. old \in Seq(Row) /\ new \in Seq(Row) /\ Len(old) = L /\ Len(new) = n
        /\ db'.decisions = old \o new
    BY <1>3, <1>4, <2>1, <2>2, <2>3
  <2>5. /\ old \o new \in Seq(Row) /\ Len(old \o new) = Len(old) + Len(new)
        /\ \A i \in 1..Len(old) : (old \o new)[i] = old[i] /\ i \in 1..Len(old \o new)
        /\ \A i \in 1..Len(new) : (old \o new)[Len(old) + i] = new[i]
                                  /\ Len(old) + i \in 1..Len(old \o new)
        /\ \A i \in 1..Len(old \o new) :
             i \in 1..Len(old) \/ \E j \in 1..Len(new) : i = Len(old) + j
    <3>1. PICK R : R = Row
      OBVIOUS
    <3>2. old \in Seq(R) /\ new \in Seq(R)
      BY <2>4, <3>1
    <3>3. old \o new \in Seq(R) /\ Len(old \o new) = Len(old) + Len(new)
      BY <3>2, Appended
    <3>4. \A i \in 1..Len(old) : (old \o new)[i] = old[i] /\ i \in 1..Len(old \o new)
      BY <3>2, Appended
    <3>5. \A i \in 1..Len(new) : (old \o new)[Len(old) + i] = new[i]
                                  /\ Len(old) + i \in 1..Len(old \o new)
      BY <3>2, Appended
    <3>6. \A i \in 1..Len(old \o new) :
             i \in 1..Len(old) \/ \E j \in 1..Len(new) : i = Len(old) + j
      BY <3>2, Appended
    <3> QED BY <3>1, <3>3, <3>4, <3>5, <3>6
  <2>6. \A i \in 1..L : db'.decisions[i] = db.decisions[i] /\ i \in 1..L + n
    BY <2>3, <2>4, <2>5
  <2>7. \A i \in 1..n : db'.decisions[L + i] = DecisionRows[i] /\ L + i \in 1..L + n
    <3>1. Len(old \o new) = L + n
      BY <2>4, <2>5
    <3>2. \A i \in 1..n : (old \o new)[L + i] = new[i] /\ L + i \in 1..Len(old \o new)
      BY <2>4, <2>5
    <3> QED BY <2>3, <2>4, <3>1, <3>2
  <2>8. \A i \in 1..n : db'.decisions[L + i] = [trading_date |-> day,
          ticker |-> decisions[i].ticker, action |-> decisions[i].action]
    BY <2>1, <2>7
  <2>9. ASSUME NEW i \in 1..L + n, i \notin 1..L PROVE \E j \in 1..n : i = L + j
    <3>1. i - L \in 1..n /\ i = L + (i - L)
      BY <2>9
    <3> QED
      BY <3>1
  <2>10. db'.decisions \in Seq(Row) /\ Len(db'.decisions) = L + n
    BY <2>4, <2>5
  <2> QED BY <2>6, <2>7, <2>8, <2>9, <2>10
<1>8. TodayInv'
  BY <1>1 DEF TodayInv
<1> HIDE DEF row, C
<1>9. Rows'
  <2>1. DOMAIN db'.decisions = 1..L + n /\ DOMAIN db.decisions = 1..L
    BY <1>2, <1>3, <1>7 DEF Rows
  <2>2. \A s \in skipped : s \in Nat /\ s < day
    BY <1>2 DEF Rows
  <2>3. ASSUME NEW i \in 1..L
        PROVE  /\ db.decisions[i].trading_date < day + 1
               /\ db.decisions[i].trading_date \notin skipped
    <3>1. db.decisions[i].trading_date < day /\ db.decisions[i].trading_date \notin skipped
      BY <1>2, <2>1 DEF Rows
    <3>2. db.decisions[i] \in Row
      BY <1>2, <2>1 DEF Rows
    <3>3. db.decisions[i].trading_date \in Nat
      BY <3>2 DEF Row
    <3> QED BY <1>1, <3>1, <3>3
  <2>4. ASSUME NEW i \in 1..L + n
        PROVE  /\ db'.decisions[i].trading_date < day + 1
               /\ db'.decisions[i].trading_date \notin skipped
    <3>1. CASE i \in 1..L
      BY <1>7, <2>3, <3>1
    <3>2. CASE \E j \in 1..n : i = L + j
      <4>0. PICK j \in 1..n : i = L + j
        BY <3>2
      <4>1. db'.decisions[i].trading_date = day
        <5>1. db'.decisions[L + j] = [trading_date |-> day,
                ticker |-> decisions[j].ticker, action |-> decisions[j].action]
          BY <1>7
        <5> QED BY <4>0, <5>1
      <4> QED BY <1>1, <2>2, <4>1
    <3> QED BY <1>7, <3>1, <3>2
  <2>5. \A s \in skipped : s < day + 1
    BY <1>1, <2>2
  <2> QED BY <1>1, <1>4, <1>7, <2>1, <2>2, <2>4, <2>5 DEF Rows
<1>10. Settled(portfolio, day)' = Settled(portfolio, day) \cup C
  <2>1. \A c \in portfolio.closed_positions :
          c.position.entry_day \in Int /\ c.position.entry_day <= day
    BY DEF IInv, ClosedInv
  <2>2. \A c \in portfolio.closed_positions :
          c.position.entry_day < day + 1 <=> c.position.entry_day < day \/ c.position.entry_day = day
    BY <1>1, <2>1
  <2> QED BY <1>1, <2>2 DEF Settled, ClosedOn, C
<1>11. Settled(portfolio, day) \cap C = {}
  BY <1>1 DEF Settled, ClosedOn, C
<1>12. ASSUME NEW f \in db.fills PROVE f.decision_id \in 1..L /\ Refers(f) /\ Refers(f)'
  <2>1. Refers(f) /\ f.decision_id \in 1..L
    BY <1>2, <1>3 DEF Fills, Refers
  <2>2. f.decision_id \in 1..L + n /\ db'.decisions[f.decision_id] = db.decisions[f.decision_id]
    BY <1>7, <2>1
  <2> QED BY <1>7, <2>1, <2>2 DEF Refers
<1>13. ASSUME NEW c \in C, NEW f, f = row[c] PROVE Refers(f)' /\ Tells(f, c)'
  <2>1. PICK id \in 1..n : id = c.position.decision_id
    BY <1>6
  <2>2. /\ f.decision_id = L + id
        /\ f.ticker = c.ticker /\ f.side = c.position.side
        /\ f.realized_pl = Realized(c.position, c.exit_price)
        /\ decisions[id].ticker = c.ticker /\ decisions[id].action # "Hold"
        /\ _entry_side(decisions[id].action) = c.position.side
        /\ c.position.entry_day = day
    BY <1>6, <1>13, <2>1
  <2>3. /\ db'.decisions[f.decision_id] =
             [trading_date |-> day, ticker |-> decisions[id].ticker, action |-> decisions[id].action]
        /\ f.decision_id \in 1..Len(db'.decisions)
    BY <1>7, <2>2
  <2>4. Refers(f)'
    BY <2>2, <2>3 DEF Refers
  <2>5. Tells(f, c)'
    BY <2>2, <2>3 DEF Tells
  <2> QED BY <2>4, <2>5
<1>14. \A c \in Settled(portfolio, day) : \E f \in db.fills : Tells(f, c)'
  <2>1. ASSUME NEW c \in Settled(portfolio, day) PROVE \E f \in db.fills : Tells(f, c)'
    <3>1. PICK f \in db.fills : Tells(f, c)
      BY <1>2 DEF Fills
    <3>2. db'.decisions[f.decision_id] = db.decisions[f.decision_id]
      BY <1>7, <1>12
    <3> QED BY <3>1, <3>2 DEF Tells
  <2> QED BY <2>1
<1>15. \A f \in db.fills : \A c \in C : f # row[c]
  BY <1>3, <1>6, <1>12
<1>16. /\ IsFiniteSet(db'.fills)
       /\ Cardinality(db'.fills) = Cardinality(Settled(portfolio, day) \cup C)
  <2>1. /\ IsFiniteSet(db.fills) /\ IsFiniteSet(portfolio.closed_positions)
        /\ Cardinality(db.fills) = Cardinality(Settled(portfolio, day))
    BY <1>2 DEF Fills
  <2>2. IsFiniteSet(C) /\ IsFiniteSet(Settled(portfolio, day))
    BY <2>1, FS_Subset DEF C, ClosedOn, Settled
  <2>3. row \in [C -> FillRows] /\ \A f \in FillRows : \E c \in C : row[c] = f
    BY <1>5 DEF row
  <2>5. IsFiniteSet(FillRows) /\ Cardinality(FillRows) = Cardinality(C)
    <3>1. PICK g : g = row
      OBVIOUS
    <3>2. g \in [C -> FillRows] /\ (\A f \in FillRows : \E c \in C : g[c] = f)
          /\ \A c, e \in C : g[c] = g[e] => c = e
      BY <1>5, <2>3, <3>1
    <3> QED BY <2>2, <3>2, OntoSize
  <2>6. db.fills \cap FillRows = {}
    BY <1>5, <1>15
  <2>7. /\ IsFiniteSet(db.fills \cup FillRows)
        /\ Cardinality(db.fills \cup FillRows) = Cardinality(db.fills) + Cardinality(FillRows)
    BY <2>1, <2>5, <2>6, DisjointSize
  <2>8. Cardinality(Settled(portfolio, day) \cup C)
          = Cardinality(Settled(portfolio, day)) + Cardinality(C)
    BY <1>11, <2>2, DisjointSize
  <2> QED BY <1>4, <2>1, <2>5, <2>7, <2>8
<1>17. /\ \A c \in Settled(portfolio, day) \cup C : \E f \in db'.fills : Tells(f, c)'
       /\ \A f \in db'.fills : Refers(f)'
  <2>1. ASSUME NEW f \in db'.fills PROVE Refers(f)'
    <3>1. CASE f \in db.fills
      BY <1>12, <3>1
    <3>2. CASE f \notin db.fills
      <4>1. PICK c \in C : f = row[c]
        BY <1>4, <1>5, <3>2
      <4> QED BY <1>13, <4>1
    <3> QED BY <3>1, <3>2
  <2>2. ASSUME NEW c \in Settled(portfolio, day) \cup C PROVE \E f \in db'.fills : Tells(f, c)'
    <3>1. CASE c \in C
      <4>1. PICK f : f = row[c]
        OBVIOUS
      <4>2. f \in db'.fills
        BY <1>4, <1>5, <3>1, <4>1
      <4> QED BY <1>13, <3>1, <4>1, <4>2
    <3>2. CASE c \notin C
      BY <1>4, <1>14, <3>2
    <3> QED BY <3>1, <3>2
  <2> QED BY <2>1, <2>2
<1>18. ASSUME NEW r \in db'.rejections
       PROVE  \/ r \in db.rejections /\ r.decision_id \in 1..L
              \/ \E x \in rejections : r.decision_id = L + x.decision_id
                                       /\ x.decision_id \in 1..n
                                       /\ \A c \in C : c.position.decision_id # x.decision_id
  <2>1. CASE r \in db.rejections
    BY <1>2, <1>3, <2>1 DEF Fills
  <2>2. CASE r \notin db.rejections
    <3>1. PICK x \in linked :
            r = [decision_id |-> GlobalId(x.decision_id), reason |-> x.reason]
      BY <1>4, <2>2
    <3>2. x \in rejections /\ x.decision_id \in 1..n
      BY <1>3 DEF Linked
    <3>3. \A c \in C : c.position.decision_id # x.decision_id
      BY <1>2, <3>2 DEF Today, C
    <3> QED BY <1>3, <3>1, <3>2, <3>3 DEF GlobalId
  <2> QED BY <2>1, <2>2
<1>19. ASSUME NEW r \in db'.rejections PROVE r.decision_id \in 1..Len(db'.decisions)
  <2>1. Len(db'.decisions) = L + n
    BY <1>7
  <2>2. CASE r.decision_id \in 1..L
    BY <2>1, <2>2
  <2>3. CASE \E i \in 1..n : r.decision_id = L + i
    BY <2>1, <2>3
  <2> QED BY <1>18, <2>2, <2>3
<1>20. ASSUME NEW f \in db'.fills, NEW r \in db'.rejections
       PROVE  f.decision_id # r.decision_id
  <2>1. \/ f \in db.fills /\ f.decision_id \in 1..L
        \/ \E c \in C : f = row[c] /\ f.decision_id = L + c.position.decision_id
                        /\ c.position.decision_id \in 1..n
    BY <1>4, <1>5, <1>6, <1>12
  <2>2. CASE f \in db.fills /\ r \in db.rejections
    BY <1>2, <2>2 DEF Fills
  <2>3. CASE ~(f \in db.fills /\ r \in db.rejections)
    BY <1>18, <2>1, <2>3
  <2> QED BY <2>2, <2>3
<1>21. Fills'
  BY <1>1, <1>2, <1>10, <1>16, <1>17, <1>19, <1>20 DEF Fills
<1> QED BY <1>8, <1>9, <1>21 DEF LedgerInv

\* complete_run marks the run complete and adds no row.
LEMMA CompleteLedger == ASSUME LedgerInv, complete_run PROVE LedgerInv'
<1>1. /\ UNCHANGED <<day, portfolio, skipped>> /\ pc' = "returned"
      /\ db'.decisions = db.decisions /\ db'.fills = db.fills /\ db'.rejections = db.rejections
      /\ DOMAIN db' = DOMAIN db
  BY DEF complete_run, LedgerInv, Rows
<1>2. TodayInv'
  BY <1>1 DEF TodayInv
<1>3. Rows'
  BY <1>1 DEF LedgerInv, Rows
<1>4. \A f, c : Tells(f, c)' <=> Tells(f, c)
  BY <1>1 DEF Tells
<1>5. \A f : Refers(f)' <=> Refers(f)
  BY <1>1 DEF Refers
<1>6. Settled(portfolio, day)' = Settled(portfolio, day)
  BY <1>1 DEF Settled
<1>7. Fills'
  BY <1>1, <1>4, <1>5, <1>6 DEF LedgerInv, Fills
<1> QED BY <1>2, <1>3, <1>7 DEF LedgerInv

\* A step of the day in hand.
LEMMA WalkLedger ==
  ASSUME IInv, DayInv, LedgerInv,
         (\E catalysts \in SUBSET Ticker : EvaluateTick(catalysts))
           \/ PrepareDay \/ ApplyBar \/ ApplyOneDecision \/ flatten_at_eod \/ Abort
  PROVE  LedgerInv'
<1>1. UNCHANGED <<db, day, skipped>>
  BY DEF EvaluateTick, PrepareDay, ApplyBar, ApplyOneDecision, flatten_at_eod, Abort
<1>2. IsFiniteSet(portfolio.closed_positions) /\ Control
  BY DEF LedgerInv, Fills, IInv
<1>3. CASE PrepareDay \/ Abort
  <2>1. UNCHANGED <<portfolio, applied, rejections>>
        /\ ((pc = "prepare" /\ pc' = "evaluate") \/ pc' = "dead")
    BY <1>3 DEF PrepareDay, Abort
  <2>2. TodayInv'
    BY <2>1 DEF LedgerInv, TodayInv
  <2> QED BY <1>1, <1>2, <2>1, <2>2, DaySettled DEF LedgerInv
<1>4. ASSUME NEW catalysts \in SUBSET Ticker, EvaluateTick(catalysts) PROVE LedgerInv'
  <2>1. pc = "evaluate" /\ pc' \in {"evaluate", "walk"} /\ UNCHANGED <<portfolio, applied, rejections>>
    BY <1>4 DEF EvaluateTick
  <2>2. Held(portfolio) = {} /\ applied = 0 /\ rejections = {} /\ day \in Nat
    BY <1>2, <2>1 DEF IInv, HeldInv, LedgerInv, TodayInv, Held, Control
  <2>3. ClosedOn(portfolio, day) = {}
    <3>1. \A c \in portfolio.closed_positions :
            c.position.entry_day \in Int /\ c.position.entry_day < day
      BY <2>1 DEF IInv, ClosedInv
    <3> QED BY <2>2, <3>1 DEF ClosedOn
  <2>4. Len(decisions') \in Nat
    <3>1. DayInv'
      <4>1. [Next]_vars
        BY <1>4 DEF Next
      <4>2. Control'
        <5>1. IInv'
          BY <4>1, NextIInv
        <5> QED BY <5>1 DEF IInv
      <4> QED BY <1>2, <4>1, <4>2, DayStep
    <3> QED BY <3>1 DEF DayInv
  <2>5. Today(portfolio, applied, rejections)'
    BY <1>1, <1>2, <2>1, <2>2, <2>3, <2>4 DEF Today, Held, ClosedOn
  <2>6. TodayInv'
    BY <2>1, <2>2, <2>5 DEF TodayInv
  <2> QED BY <1>1, <1>2, <2>1, <2>6, DaySettled DEF LedgerInv
<1>5. CASE ApplyBar \/ ApplyOneDecision \/ flatten_at_eod
  <2>1. /\ pc = "walk" /\ pc' \in {"walk", "persist"} /\ UNCHANGED <<day, decisions>>
    BY <1>5 DEF ApplyBar, ApplyOneDecision, flatten_at_eod
  <2>2. Today(portfolio, applied, rejections)
    BY <2>1 DEF LedgerInv, TodayInv
  <2>3. Today(portfolio', applied', rejections')
        /\ Settled(portfolio', day) = Settled(portfolio, day)
    <3>1. CASE ApplyBar
      <4> DEFINE S == {t \in Held(portfolio) :
                         StopTouched(portfolio.positions[t], bars[t][tick + 1])}
                 price == [t \in S |-> portfolio.positions[t].stop_price]
      <4>1. portfolio' = record_exit(portfolio, S, price, tick + 1, "stop_hit")
            /\ UNCHANGED <<applied, rejections>>
        BY <3>1 DEF ApplyBar
      <4>2. S \subseteq Held(portfolio)
        OBVIOUS
      <4> HIDE DEF S, price
      <4> QED BY <1>2, <2>2, <4>1, <4>2, ExitToday
    <3>2. CASE flatten_at_eod
      <4> DEFINE price == [t \in OpenTickers |-> FlattenPrice(t)]
      <4>1. portfolio' = record_exit(portfolio, OpenTickers, price, Ticks, "eod_flatten")
            /\ UNCHANGED <<applied, rejections>>
        BY <3>2 DEF flatten_at_eod
      <4>2. OpenTickers \subseteq Held(portfolio)
        BY DEF OpenTickers
      <4> HIDE DEF price
      <4> QED BY <1>2, <2>2, <4>1, <4>2, ExitToday
    <3>3. CASE ApplyOneDecision
      <4>1. applied' = applied + 1
        BY <3>3 DEF ApplyOneDecision
      <4> QED BY <3>3, <4>1, DecisionToday DEF LedgerInv
    <3> QED BY <1>5, <3>1, <3>2, <3>3
  <2>4. Today(portfolio, applied, rejections)'
    <3>1. \A t, pos, n : Booked(t, pos, n)' <=> Booked(t, pos, n)
      BY <2>1 DEF Booked
    <3> QED BY <2>1, <2>3, <3>1 DEF Today, Held, ClosedOn
  <2>5. TodayInv'
    BY <2>1, <2>4 DEF TodayInv
  <2>6. IsFiniteSet(portfolio'.closed_positions)
    BY <2>3 DEF Today
  <2> QED BY <1>1, <2>3, <2>5, <2>6, DaySettled DEF LedgerInv
<1> QED BY <1>3, <1>4, <1>5

\* Every step keeps LedgerInv.
LEMMA LedgerStep == ASSUME IInv, DayInv, LedgerInv, [Next]_vars PROVE LedgerInv'
<1>1. CASE UNCHANGED vars
  <2>1. UNCHANGED <<db, day, skipped, portfolio, pc, applied, rejections, decisions>>
    BY <1>1 DEF vars
  <2>2. \A t, pos, n : Booked(t, pos, n)' <=> Booked(t, pos, n)
    BY <2>1 DEF Booked
  <2>3. Today(portfolio, applied, rejections)' <=> Today(portfolio, applied, rejections)
    BY <2>1, <2>2 DEF Today, Held, ClosedOn
  <2>4. TodayInv'
    BY <2>1, <2>3 DEF LedgerInv, TodayInv
  <2>5. IsFiniteSet(portfolio'.closed_positions)
    BY <2>1 DEF LedgerInv, Fills
  <2> QED BY <2>1, <2>4, <2>5, DaySettled DEF LedgerInv
<1> QED BY <1>1, SkipLedger, PersistLedger, CompleteLedger, WalkLedger DEF Next, Finished

\* The ledger invariant, at every state of every replay.
THEOREM LedgerInvariant == Spec => []LedgerInv
<1>1. Init => LedgerInv
  BY InitLedger
<1>2. IInv /\ DayInv /\ LedgerInv /\ [Next]_vars => LedgerInv'
  BY LedgerStep
<1> QED BY <1>1, <1>2, MoneyInvariant, PTL DEF Spec

\* The results database tells the story of the book: per_day_to_global and
\* write_day_results of replay/persistence.py write one fill for each position
\* of a day that is over, link it to the decision that asked for it, never link
\* a fill and a rejection to the same decision, and leave skipped days out.
THEOREM ReplayLedgerMatches == Spec => []LedgerMatchesBook
<1>1. LedgerInv => LedgerMatchesBook
  <2> SUFFICES ASSUME LedgerInv PROVE LedgerMatchesBook
    OBVIOUS
  <2>1. /\ Cardinality(db.fills) = Cardinality(Settled(portfolio, day))
        /\ \A c \in Settled(portfolio, day) : \E f \in db.fills : Tells(f, c)
        /\ \A f \in db.fills : Refers(f)
        /\ \A f \in db.fills : \A r \in db.rejections : f.decision_id # r.decision_id
        /\ \A i \in DOMAIN db.decisions : db.decisions[i].trading_date \notin skipped
    BY DEF LedgerInv, Fills, Rows
  <2>2. {f.decision_id : f \in db.fills} \cap {r.decision_id : r \in db.rejections} = {}
    BY <2>1
  <2> QED BY <2>1, <2>2 DEF LedgerMatchesBook, Settled, Tells, Refers
<1> QED BY <1>1, LedgerInvariant, PTL

-----------------------------------------------------------------------------
(* What a decision may know. Newest is a rank among finitely many numbers. *)

Above(s, m) == {k \in s : k > m}

\* When more than n members of a set lie above m, n of its newest n do.
LEMMA NewestFill ==
  ASSUME NEW s \in SUBSET Nat, IsFiniteSet(s), NEW n \in Nat, NEW m \in Nat,
         Cardinality(Above(s, m)) >= n
  PROVE  Cardinality(Above(Newest(s, n), m)) = n
<1> DEFINE w == Above(s, m)
           c == Cardinality(w)
           rank == [k \in w |-> Cardinality(Above(w, k))]
<1>1. w \subseteq Nat /\ IsFiniteSet(w) /\ c \in Nat /\ n <= c
  BY FS_Subset, FS_CardinalityType DEF Above
<1>2. \A k \in w : /\ Above(s, k) = Above(w, k) /\ Above(w, k) \in SUBSET w /\ k \notin Above(w, k)
                   /\ IsFiniteSet(Above(w, k))
  <2> SUFFICES ASSUME NEW k \in w
               PROVE  /\ Above(s, k) = Above(w, k) /\ Above(w, k) \in SUBSET w /\ k \notin Above(w, k)
                      /\ IsFiniteSet(Above(w, k))
    OBVIOUS
  <2>1. k \in Nat /\ k > m
    BY DEF Above
  <2>2. \A j \in s : j > k => j > m
    BY <2>1
  <2>3. Above(s, k) = Above(w, k)
    BY <2>2 DEF Above
  <2>4. Above(w, k) \subseteq w
    BY DEF Above
  <2>5. ~(k > k)
    BY <2>1
  <2>6. k \notin Above(w, k)
    BY <2>5 DEF Above
  <2> QED
    BY <1>1, <2>3, <2>4, <2>6, FS_Subset
<1>3. \A k \in w : rank[k] \in 0 .. c - 1
  <2> SUFFICES ASSUME NEW k \in w PROVE Cardinality(Above(w, k)) \in 0 .. c - 1
    OBVIOUS
  <2>1. Above(w, k) \in SUBSET w /\ w # Above(w, k) /\ Cardinality(Above(w, k)) \in Nat
    BY <1>2, FS_CardinalityType
  <2>2. Cardinality(Above(w, k)) <= c /\ c # Cardinality(Above(w, k))
    BY <1>1, <2>1, FS_Subset
  <2> HIDE DEF c
  <2> QED
    BY <1>1, <2>1, <2>2
<1>4. \A j, k \in w : j < k => rank[k] < rank[j]
  <2> SUFFICES ASSUME NEW j \in w, NEW k \in w, j < k
               PROVE  Cardinality(Above(w, k)) < Cardinality(Above(w, j))
    OBVIOUS
  <2>1. Above(w, k) \subseteq Above(w, j) /\ k \in Above(w, j) /\ k \notin Above(w, k)
    BY <1>1 DEF Above
  <2>2. Above(w, j) # Above(w, k) /\ Above(w, k) \in SUBSET Above(w, j)
    BY <2>1
  <2> DEFINE x == Cardinality(Above(w, k))  y == Cardinality(Above(w, j))
  <2>3. IsFiniteSet(Above(w, j)) /\ x \in Nat /\ y \in Nat
    BY <1>2, FS_CardinalityType
  <2>4. x <= y /\ y # x
    BY <2>2, <2>3, FS_Subset
  <2> HIDE DEF x, y
  <2>5. x < y
    BY <2>3, <2>4
  <2> QED
    BY <2>5 DEF x, y
<1> HIDE DEF w, c, rank
<1>5. DOMAIN rank = w /\ rank \in [w -> 0 .. c - 1]
  BY <1>3 DEF rank
<1>6. \A j, k \in w : rank[j] = rank[k] => j = k
  BY <1>1, <1>3, <1>4
<1>7. IsFiniteSet(0 .. c - 1) /\ Cardinality(0 .. c - 1) = c
  BY <1>1, FS_Interval
<1>8. rank \in Injection(w, 0 .. c - 1)
  BY <1>5, <1>6 DEF Injection, IsInjective
<1>9. rank \in Surjection(w, 0 .. c - 1)
  BY <1>1, <1>7, <1>8, FS_Injection DEF c
<1>10. Above(Newest(s, n), m) = {k \in w : rank[k] < n}
  BY <1>2 DEF w, rank, Newest, Above
<1> DEFINE v == {k \in w : rank[k] < n}
<1>11. IsFiniteSet(v) /\ v \subseteq w
  BY <1>1, FS_Subset
<1>12. IsFiniteSet(0 .. n - 1) /\ Cardinality(0 .. n - 1) = n
  BY FS_Interval
<1> DEFINE f == [k \in v |-> rank[k]]
<1>13. f \in [v -> 0 .. n - 1]
  BY <1>3
<1>14. \A y \in 0 .. n - 1 : \E k \in v : f[k] = y
  <2> TAKE y \in 0 .. n - 1
  <2>1. y \in 0 .. c - 1
    BY <1>1
  <2>2. PICK k \in w : rank[k] = y
    BY <1>9, <2>1 DEF Surjection
  <2> QED
    BY <2>2
<1>15. \A j, k \in v : f[j] = f[k] => j = k
  BY <1>6
<1> HIDE DEF v, f
<1>16. Cardinality(0 .. n - 1) = Cardinality(v)
  BY <1>11, <1>13, <1>14, <1>15, OntoSize
<1> QED
  BY <1>10, <1>12, <1>16 DEF v

\* Days and minutes of the day.
LEMMA Calendar ==
  ASSUME NEW m \in Nat
  PROVE  /\ Day(m) \in Nat /\ Minute(m) \in Nat /\ Minute(m) < DayLen
         /\ m = DayLen * Day(m) + Minute(m)
<1>1. DayLen \in Nat \ {0}
  BY ContextAssumption
<1> QED
  BY <1>1 DEF Day, Minute

\* An earlier minute is of the same day or an earlier one, and two days away it
\* is more than a day earlier.
LEMMA DaysBetween ==
  ASSUME NEW a \in Nat, NEW m \in Nat, a <= m
  PROVE  /\ Day(a) <= Day(m)
         /\ m <= a + DayLen => Day(a) \in {Day(m) - 1, Day(m)}
<1> DEFINE p == Day(a)  q == Day(m)
<1>1. DayLen \in Nat \ {0} /\ p \in Nat /\ q \in Nat
  <2>1. DayLen \in Nat \ {0}
    BY ContextAssumption
  <2>2. p \in Nat
    BY Calendar
  <2>3. q \in Nat
    BY Calendar
  <2> QED BY <2>1, <2>2, <2>3
<1>2. PICK u \in Nat : u < DayLen /\ a = DayLen * p + u
  BY Calendar
<1>3. PICK v \in Nat : v < DayLen /\ m = DayLen * q + v
  BY Calendar
<1> HIDE DEF p, q
<1>4. ~(q < p)
  <2> SUFFICES ASSUME q < p PROVE FALSE
    OBVIOUS
  <2> DEFINE x == DayLen * q  y == DayLen * p
  <2>1. x \in Nat /\ y \in Nat /\ x + DayLen <= y
    BY <1>1, MultiplesApart
  <2>2. a = y + u /\ m = x + v
    BY <1>2, <1>3
  <2> HIDE DEF x, y
  <2> QED
    BY <1>1, <1>2, <1>3, <2>1, <2>2
<1>5. ASSUME m <= a + DayLen PROVE ~(p + 1 < q)
  <2> SUFFICES ASSUME p + 1 < q PROVE FALSE
    OBVIOUS
  <2> DEFINE x == DayLen * p  y == DayLen * (p + 1)  z == DayLen * q
  <2>1. x \in Nat /\ y \in Nat /\ x + DayLen <= y
    BY <1>1, MultiplesApart
  <2>2. z \in Nat /\ y + DayLen <= z
    BY <1>1, MultiplesApart
  <2>3. a = x + u /\ m = z + v
    BY <1>2, <1>3
  <2> HIDE DEF x, y, z
  <2> QED
    BY <1>1, <1>2, <1>3, <1>5, <2>1, <2>2, <2>3
<1> QED
  BY <1>1, <1>4, <1>5 DEF p, q

\* Of one day, what comes before the open comes before the session.
LEMMA BeforeTheOpen ==
  ASSUME NEW a \in Nat, NEW m \in Nat, Day(a) = Day(m), Minute(a) < Open, Open <= Minute(m)
  PROVE  a < m
<1>1. DayLen \in Nat /\ Open \in Nat
  BY ContextAssumption
<1>2. PICK u \in Nat : u = Minute(a) /\ a = DayLen * Day(a) + u
  BY Calendar
<1>3. PICK v \in Nat : v = Minute(m) /\ m = DayLen * Day(a) + v
  BY Calendar
<1>4. PICK x \in Nat : x = DayLen * Day(a)
  BY <1>1, Calendar
<1> QED
  BY <1>1, <1>2, <1>3, <1>4

\* A bar of five minutes begins less than its length before a minute of it.
LEMMA BarOfMinute ==
  ASSUME NEW m \in Nat, Session(m)
  PROVE  (Minute(m) - Open) % BarLen \in 0 .. BarLen - 1
<1>1. BarLen \in Nat \ {0} /\ Open \in Nat /\ Minute(m) \in Nat /\ Open <= Minute(m)
  BY Calendar, ContextAssumption DEF Session
<1>2. Minute(m) - Open \in Nat
  BY <1>1
<1> QED
  BY <1>1, <1>2

\* A product and a smaller rest are taken apart again.
LEMMA Quotient ==
  ASSUME NEW n \in Nat \ {0}, NEW q \in Nat, NEW r \in Nat, r < n
  PROVE  (n * q + r) \div n = q /\ (n * q + r) % n = r
<1> DEFINE v == n * q + r
<1>1. v \in Nat
  OBVIOUS
<1>2. PICK a \in Nat, b \in Nat : b < n /\ v = n * a + b /\ a = v \div n /\ b = v % n
  <2>1. v \div n \in Nat /\ v % n \in Nat /\ v % n < n /\ v = n * (v \div n) + (v % n)
    <3> HIDE DEF v
    <3> QED
      BY <1>1
  <2> QED
    BY <2>1
<1>3. ~(a < q)
  <2> SUFFICES ASSUME a < q PROVE FALSE
    OBVIOUS
  <2> DEFINE x == n * a  y == n * q
  <2>1. x \in Nat /\ y \in Nat /\ x + n <= y
    BY MultiplesApart
  <2>2. v = x + b /\ v = y + r
    BY <1>2
  <2> HIDE DEF v, x, y
  <2> QED
    BY <1>2, <2>1, <2>2
<1>4. ~(q < a)
  <2> SUFFICES ASSUME q < a PROVE FALSE
    OBVIOUS
  <2> DEFINE x == n * a  y == n * q
  <2>1. x \in Nat /\ y \in Nat /\ y + n <= x
    BY <1>2, MultiplesApart
  <2>2. v = x + b /\ v = y + r
    BY <1>2
  <2> HIDE DEF v, x, y
  <2> QED
    BY <1>2, <2>1, <2>2
<1>5. a = q
  BY <1>2, <1>3, <1>4
<1>6. b = r
  <2> DEFINE y == n * q
  <2>1. y \in Nat /\ v = y + b /\ v = y + r
    BY <1>2, <1>5
  <2> HIDE DEF v, y
  <2> QED
    BY <1>2, <2>1
<1> QED
  BY <1>2, <1>5, <1>6

\* The bar of five minutes a minute of a session of the run is in.
LEMMA BarIsSpys ==
  ASSUME NEW m \in Minutes, Session(m), Day(m) \in 1 .. LastDay
  PROVE  \E b \in spy_5min : Day(b) = Day(m) /\ b <= m /\ m \in b .. b + BarLen - 1
<1>1. /\ DayLen \in Nat \ {0} /\ BarLen \in Nat \ {0} /\ Open \in Nat /\ Close \in Nat
      /\ (LastDay + 1) * DayLen \in Nat
  BY ContextAssumption
<1>2. m \in Nat /\ m < (LastDay + 1) * DayLen
  BY <1>1 DEF Minutes
<1>3. PICK e \in Nat, u \in Nat : e = Day(m) /\ u = Minute(m) /\ u < DayLen /\ m = DayLen * e + u
  BY <1>2, Calendar
<1>4. Open <= u /\ u < Close
  BY <1>3 DEF Session
<1>5. PICK x \in Nat : x = u - Open
  BY <1>1, <1>4
<1>6. PICK q \in Nat, r \in Nat : r < BarLen /\ x = BarLen * q + r
  <2>1. /\ x \div BarLen \in Nat /\ x % BarLen \in Nat /\ x % BarLen < BarLen
        /\ x = BarLen * (x \div BarLen) + (x % BarLen)
    BY <1>1
  <2> QED
    BY <2>1
<1>7. PICK y \in Nat : y = BarLen * q /\ y % BarLen = 0
  <2>1. 0 \in Nat /\ 0 < BarLen
    BY <1>1
  <2>2. (BarLen * q + 0) % BarLen = 0
    BY <1>1, <2>1, Quotient
  <2>3. BarLen * q \in Nat /\ BarLen * q + 0 = BarLen * q
    BY <1>1
  <2> QED
    BY <2>2, <2>3
<1>8. PICK w \in Nat : w = Open + y /\ w + r = u
  BY <1>1, <1>5, <1>6, <1>7
<1>9. PICK b \in Nat : b = DayLen * e + w /\ b + r = m
  <2>1. DayLen * e \in Nat
    BY <1>1
  <2> QED
    BY <1>3, <1>8, <2>1
<1>10. Day(b) = e /\ Minute(b) = w
  <2>1. w < DayLen
    BY <1>1, <1>3, <1>8
  <2> QED
    BY <1>1, <1>9, <2>1, Quotient DEF Day, Minute
<1>11. Session(b) /\ (Minute(b) - Open) % BarLen = 0
  <2>1. w - Open = y /\ Open <= w /\ w < Close
    BY <1>1, <1>4, <1>7, <1>8
  <2> QED
    BY <1>7, <1>10, <2>1 DEF Session
<1>12. b \in Minutes
  BY <1>1, <1>2, <1>9 DEF Minutes
<1>13. b \in spy_5min
  BY <1>3, <1>10, <1>11, <1>12 DEF spy_5min
<1>14. b <= m /\ m \in b .. b + BarLen - 1
  BY <1>1, <1>2, <1>6, <1>9
<1> QED
  BY <1>3, <1>10, <1>13, <1>14

-----------------------------------------------------------------------------
(* The contexts. What a context holds follows from the tick it was built   *)
(* for and from the types of what the feeds hold.                          *)

FeedsHold == /\ data.minutes \subseteq Nat /\ data.vix \subseteq Nat
             /\ data.articles \subseteq Nat /\ IsFiniteSet(data.articles)

ContextInv ==
  /\ FeedsHold
  /\ context # NoTick => /\ at \in Nat /\ Session(at) /\ Day(at) \in 1 .. LastDay
                         /\ context = build_tick_context(at)
  /\ basis # NoTick => basis = base_inputs(at)

LEMMA InitContext == ContextsInit => ContextInv
<1> SUFFICES ASSUME ContextsInit PROVE ContextInv
  OBVIOUS
<1>0. PICK halted \in Halts, articles \in Publications, delay \in {0, BarLen}, out \in 0 .. LastDay :
        data = DataOf(halted, articles, delay, out)
  BY Zenon DEF ContextsInit
<1>1. DayLen \in Nat /\ LastDay \in Nat /\ (LastDay + 1) * DayLen \in Nat
  BY ContextAssumption
<1>2. Minutes \subseteq Nat
  BY <1>1 DEF Minutes
<1>3. articles \subseteq Nat /\ IsFiniteSet(articles)
  <2>1. CASE articles = {}
    BY <2>1, FS_EmptySet
  <2>2. CASE articles # {}
    <3>1. PICK a \in DayLen .. (LastDay + 1) * DayLen - 1,
               b \in DayLen .. (LastDay + 1) * DayLen - 1 : articles = {a, b}
      BY <2>2 DEF Publications
    <3>2. a \in Nat /\ b \in Nat
      BY <1>1
    <3>3. IsFiniteSet({a}) /\ IsFiniteSet({b})
      <4>1. \A x : IsFiniteSet({x})
        BY FS_Singleton
      <4> QED
        BY <4>1, Zenon
    <3>4. IsFiniteSet({a} \cup {b})
      BY <3>3, FS_Union
    <3>5. {a, b} = {a} \cup {b}
      OBVIOUS
    <3> QED
      BY <3>1, <3>2, <3>4, <3>5
  <2> QED
    BY <2>1, <2>2
<1>4. data.articles = articles /\ data.vix = 0 .. out /\ data.minutes \subseteq Minutes
  BY <1>0 DEF DataOf
<1>5. FeedsHold
  <2>1. 0 .. out \subseteq Nat
    BY <1>1
  <2> QED
    BY <1>2, <1>3, <1>4, <2>1 DEF FeedsHold
<1> QED
  BY <1>5 DEF ContextsInit, ContextInv

\* The feeds do not change, so neither does what was built of them.
LEMMA StepContext == ContextInv /\ [ContextsNext]_contextVars => ContextInv'
<1> SUFFICES ASSUME ContextInv, [ContextsNext]_contextVars PROVE ContextInv'
  OBVIOUS
<1>1. data' = data /\ FeedsHold'
  BY DEF ContextInv, FeedsHold, ContextsNext, run_day_ticks, run_day_base_ticks, contextVars
<1>2. CASE run_day_ticks
  <2>1. PICK m \in Minutes : /\ m \in tick_times_for_day(Day(m))
                             /\ Day(m) \in 1 .. LastDay
                             /\ at' = m /\ context' = build_tick_context(m)
    BY <1>2 DEF run_day_ticks
  <2>2. m \in Nat /\ Session(m)
    <3>1. (LastDay + 1) * DayLen \in Nat
      BY ContextAssumption
    <3> QED
      BY <2>1, <3>1 DEF tick_times_for_day, Minutes
  <2>3. build_tick_context(at)' = build_tick_context(m)
    BY <1>1, <2>1 DEF build_tick_context, Prefix, news_items, _derive_pm_volume_history,
       _resolve_vix_level, compute_premarket_context
  <2>4. (Session(at) /\ Day(at) \in 1 .. LastDay)'
    BY <2>1, <2>2 DEF Session, Minute, Day
  <2> QED
    BY <1>1, <1>2, <2>1, <2>2, <2>3, <2>4 DEF ContextInv, run_day_ticks
<1>3. CASE run_day_base_ticks
  <2>1. /\ at' = at /\ context' = context
        /\ basis' = base_inputs(at)
    BY <1>3 DEF run_day_base_ticks
  <2>2. build_tick_context(at)' = build_tick_context(at) /\ base_inputs(at)' = base_inputs(at)
    BY <1>1, <2>1 DEF build_tick_context, base_inputs, Prefix, news_items, _derive_pm_volume_history,
       _resolve_vix_level, compute_premarket_context, five_min, latest_sentiment
  <2>3. (Session(at))' = Session(at) /\ Day(at)' = Day(at)
    BY <2>1 DEF Session, Minute, Day
  <2> QED
    BY <1>1, <2>1, <2>2, <2>3 DEF ContextInv
<1>4. CASE UNCHANGED contextVars
  <2>1. at' = at /\ context' = context /\ basis' = basis
    BY <1>4 DEF contextVars
  <2>2. build_tick_context(at)' = build_tick_context(at) /\ base_inputs(at)' = base_inputs(at)
    BY <1>1, <2>1 DEF build_tick_context, base_inputs, Prefix, news_items, _derive_pm_volume_history,
       _resolve_vix_level, compute_premarket_context, five_min, latest_sentiment
  <2>3. (Session(at))' = Session(at) /\ Day(at)' = Day(at)
    BY <2>1 DEF Session, Minute, Day
  <2> QED
    BY <1>1, <2>1, <2>2, <2>3 DEF ContextInv
<1> QED
  BY <1>2, <1>3, <1>4 DEF ContextsNext

\* What build_tick_context takes at a tick.
LEMMA ContextIsPast ==
  ASSUME FeedsHold, at \in Nat, Session(at), Day(at) \in 1 .. LastDay, context = build_tick_context(at)
  PROVE  /\ \A m \in context.minutes : m <= at
         /\ \A m \in context.spy : m < at + BarLen
         /\ \A m \in Minutes : Day(m) = Day(at) /\ Session(m) /\ m <= at => m \in context.spy
         /\ \A k \in context.dailies : k < Day(at)
         /\ \A k \in context.vix : k <= Day(at)
         /\ \A m \in context.premarket.bars : m < at
         /\ \A m \in context.premarket.open :
               m <= at \/ {k \in context.minutes : Day(k) = Day(at) /\ Session(k)} = {}
         /\ \A a \in context.news : a + NewsLag <= at
<1> DEFINE d == Day(at)
<1>1. d \in Nat /\ Open <= Minute(at)
  BY Calendar DEF Session
<1>2. context.minutes = Prefix(data.minutes, at) /\ context.spy = MinutesOf(Prefix(spy_5min, at))
  BY DEF build_tick_context
<1>3. context.dailies = _slice_daily_before(d) \union _derive_pm_volume_history(d)
  BY DEF build_tick_context
<1>4. \A k \in context.dailies : k < d
  BY <1>3 DEF _slice_daily_before, _derive_pm_volume_history, Newest
<1>5. \A k \in context.vix : k <= d
  <2> DEFINE sofar == {k \in data.vix : k <= d}
  <2>1. context.vix = IF sofar = {} THEN {} ELSE {Max(sofar)}
    BY DEF build_tick_context, _resolve_vix_level
  <2>2. ASSUME sofar # {} PROVE Max(sofar) \in sofar
    <3>1. sofar \in SUBSET Int /\ \A k \in sofar : k <= d
      BY DEF FeedsHold
    <3>2. \E x \in sofar : \A y \in sofar : x >= y
      <4> DEFINE gaps == {d - k : k \in sofar}
      <4>1. gaps \in SUBSET Nat /\ gaps # {}
        BY <1>1, <2>2, <3>1
      <4>2. PICK g \in gaps : \A h \in gaps : g <= h
        BY <4>1, LeastNatural
      <4>3. PICK x \in sofar : g = d - x
        BY <4>2
      <4>4. \A y \in sofar : d - x <= d - y
        BY <4>2, <4>3
      <4>5. \A y \in sofar : x >= y
        BY <1>1, <3>1, <4>4
      <4> QED
        BY <4>5
    <3> QED
      BY <3>2 DEF Max
  <2> QED
    BY <2>1, <2>2
<1>6. \A m \in context.premarket.bars : m < at
  <2> SUFFICES ASSUME NEW m \in context.premarket.bars PROVE m < at
    OBVIOUS
  <2>1. context.premarket = compute_premarket_context(d)
    BY DEF build_tick_context
  <2>2. m \in data.minutes /\ Day(m) = d /\ Minute(m) < Open
    BY <2>1 DEF compute_premarket_context
  <2> QED
    BY <1>1, <2>2, BeforeTheOpen DEF FeedsHold
<1>7. ASSUME NEW m \in context.premarket.open,
             NEW k \in context.minutes, Day(k) = d, Session(k)
      PROVE  m <= at
  <2> DEFINE session == {x \in data.minutes : Day(x) = d /\ Session(x)}
  <2>1. context.premarket = compute_premarket_context(d)
    BY DEF build_tick_context
  <2>2. k \in session /\ k <= at
    BY <1>2, <1>7 DEF Prefix
  <2>3. m = Min(session)
    BY <1>7, <2>1, <2>2 DEF compute_premarket_context
  <2>4. session \in SUBSET Nat /\ session # {}
    BY <2>2 DEF FeedsHold
  <2>5. \E x \in session : \A y \in session : x <= y
    BY <2>4, LeastNatural
  <2>6. Min(session) \in session /\ \A y \in session : Min(session) <= y
    <3> HIDE DEF session
    <3> QED
      BY <2>5 DEF Min
  <2>7. m \in Nat /\ m <= k /\ k \in Nat
    BY <2>2, <2>3, <2>4, <2>6
  <2> QED
    BY <2>2, <2>7
<1>8. \A a \in context.news : a + NewsLag <= at
  <2>1. context.news = Newest(filter_visible_at(news_items(d), at), NewsMax)
    BY DEF build_tick_context
  <2> QED
    BY <2>1 DEF Newest, filter_visible_at
<1>9. \A m \in context.minutes : m <= at
  BY <1>2 DEF Prefix
<1>10. ASSUME NEW m \in context.spy PROVE m < at + BarLen
  <2>1. PICK b \in Prefix(spy_5min, at) : m \in b .. b + BarLen - 1
    BY <1>2 DEF MinutesOf
  <2>2. b \in Int /\ b <= at /\ BarLen \in Nat
    <3>1. BarLen \in Nat /\ (LastDay + 1) * DayLen \in Nat
      BY ContextAssumption
    <3> QED
      BY <3>1 DEF Prefix, spy_5min, Minutes
  <2> QED
    BY <2>1, <2>2
<1>11. ASSUME NEW m \in Minutes, Day(m) = d, Session(m), m <= at PROVE m \in context.spy
  <2>1. PICK b \in spy_5min : Day(b) = d /\ b <= m /\ m \in b .. b + BarLen - 1
    BY <1>11, BarIsSpys
  <2>2. b <= at
    <3>1. (LastDay + 1) * DayLen \in Nat
      BY ContextAssumption
    <3> QED
      BY <1>11, <2>1, <3>1 DEF spy_5min, Minutes
  <2>3. b \in Prefix(spy_5min, at)
    BY <2>1, <2>2 DEF Prefix
  <2> QED
    BY <1>2, <2>1, <2>3 DEF MinutesOf
<1> QED
  BY <1>4, <1>5, <1>6, <1>7, <1>8, <1>9, <1>10, <1>11

\* The two days of news that are loaded hold all that the look-back asks for.
LEMMA NewsIsComplete ==
  ASSUME FeedsHold, at \in Nat, context = build_tick_context(at),
         NEW a \in data.articles, a + NewsLag <= at, a + NewsLookback >= at
  PROVE  a \in context.news \/ Cardinality({b \in context.news : b > a}) = NewsMax
<1> DEFINE visible == filter_visible_at(news_items(Day(at)), at)
<1>1. a \in Nat /\ NewsLag \in Nat /\ NewsLookback \in Nat /\ DayLen \in Nat /\ NewsMax \in Nat
      /\ NewsLookback <= DayLen
  BY ContextAssumption DEF FeedsHold
<1>2. a <= at /\ at <= a + DayLen
  BY <1>1
<1>3. a \in visible
  BY <1>1, <1>2, DaysBetween DEF filter_visible_at, news_items
<1>4. visible \in SUBSET data.articles
  BY DEF filter_visible_at, news_items
<1>5. visible \in SUBSET Nat /\ IsFiniteSet(visible)
  BY <1>4, FS_Subset DEF FeedsHold
<1>6. context.news = Newest(visible, NewsMax)
  BY DEF build_tick_context
<1> HIDE DEF visible
<1>7. CASE Cardinality(Above(visible, a)) < NewsMax
  BY <1>3, <1>6, <1>7 DEF Newest, Above
<1>8. CASE ~(Cardinality(Above(visible, a)) < NewsMax)
  <2>1. Above(visible, a) \in SUBSET visible
    BY DEF Above
  <2>2. Cardinality(Above(visible, a)) \in Nat
    BY <1>5, <2>1, FS_Subset, FS_CardinalityType
  <2>3. Cardinality(Above(visible, a)) >= NewsMax
    BY <1>1, <1>8, <2>2
  <2>4. Cardinality(Above(Newest(visible, NewsMax), a)) = NewsMax
    BY <1>1, <1>5, <2>3, NewestFill
  <2> QED
    BY <1>6, <2>4 DEF Above
<1> QED
  BY <1>7, <1>8

\* What the base signals take beside it.
LEMMA BasisIsNear ==
  ASSUME FeedsHold, at \in Nat, context = build_tick_context(at), basis = base_inputs(at)
  PROVE  /\ {m \in context.minutes : Session(m)} \subseteq basis.minutes
         /\ \A m \in basis.minutes : m < at + BarLen
         /\ \A s \in basis.sentiment : s <= at
<1>1. context.minutes = Prefix(data.minutes, at)
  BY DEF build_tick_context
<1>2. basis.minutes = five_min(at) /\ basis.sentiment = latest_sentiment(at)
  BY DEF base_inputs
<1>3. BarLen \in Nat
  BY ContextAssumption
<1>4. ASSUME NEW m \in context.minutes, Session(m) PROVE m \in five_min(at)
  <2>1. m \in data.minutes /\ Day(m) = Day(at) /\ m <= at /\ m \in Nat
    BY <1>1 DEF Prefix, FeedsHold
  <2>2. PICK r \in Nat : r = (Minute(m) - Open) % BarLen
    BY <1>3, <1>4, <2>1, BarOfMinute
  <2>3. m - r <= at
    BY <2>1
  <2> QED
    BY <1>4, <2>1, <2>2, <2>3 DEF five_min
<1>5. ASSUME NEW m \in five_min(at) PROVE m < at + BarLen
  <2>1. m \in Nat /\ Session(m)
    BY DEF five_min, FeedsHold
  <2>2. PICK r \in 0 .. BarLen - 1 : r = (Minute(m) - Open) % BarLen
    BY <2>1, BarOfMinute
  <2>3. m - r <= at
    BY <2>2 DEF five_min
  <2> QED
    BY <1>3, <2>1, <2>2, <2>3
<1>6. \A s \in basis.sentiment : s <= at
  BY <1>2 DEF latest_sentiment, Newest
<1> QED
  BY <1>2, <1>4, <1>5, <1>6

\* A replayed decision knows nothing of what comes after its tick, but the
\* minute and the bar of SPY that begin with it, and misses nothing of SPY's
\* session so far and none of the news it looks back for.
THEOREM ContextsKnowThePast == ContextsSpec => []ContextsArePast
<1>1. ContextInv => ContextsArePast
  BY ContextIsPast, NewsIsComplete, BasisIsNear DEF ContextInv, ContextsArePast
<1>2. ContextsSpec => []ContextInv
  BY InitContext, StepContext, PTL DEF ContextsSpec
<1> QED
  BY <1>1, <1>2, PTL

-----------------------------------------------------------------------------
(* The cache of decisions. What a run decided is chained tick by tick: the *)
(* context of a tick holds the decisions before it. What a run that begins *)
(* alone finds stored stays stored, since nobody asks for it again.        *)

TickOf == (1 .. ReplayDays) \X (1 .. TicksPerDay)
Taken == [context : Contexts, decision : Contexts \X Outcomes, paid : BOOLEAN]

CacheTypes ==
  /\ run \in [Runs -> {Absent} \cup RunStates]
  /\ DOMAIN taken = Runs /\ DOMAIN known = Runs
  /\ taken = [r \in Runs |-> taken[r]] /\ known = [r \in Runs |-> known[r]]
  /\ \A r \in Runs : /\ DOMAIN taken[r] \subseteq TickOf
                     /\ \A x \in DOMAIN taken[r] : taken[r][x] \in Taken
                     /\ known[r] \subseteq TickOf \X (Contexts \X Outcomes)
  /\ \A k \in DOMAIN name : <<name[k], k>> \in DOMAIN file
  /\ \A k \in DOMAIN tmp : <<tmp[k], k>> \in DOMAIN file /\ tmp[k] \in Runs
  /\ \A f \in DOMAIN file : f \in Runs \X Contexts /\ file[f] \in {Torn} \cup {f[2]} \X Decisions

\* The prior of a tick follows from the context and the decision of the tick before.
After(c, decision) == Latest(Append(c.prior, decision[2]))
TickBefore(c) == <<c.day, c.tick - 1>>

\* Where a run is: after all that it decided, with the decisions of its day.
OnItsWay(r) ==
  IF run[r] = Absent THEN DOMAIN taken[r] = {}
  ELSE /\ run[r].pc # "over" =>
            /\ run[r].day \in 1 .. ReplayDays
            /\ run[r].tick = 1 => run[r].prior = <<>>
            /\ run[r].tick > 1 => /\ TickBefore(run[r]) \in DOMAIN taken[r]
                                  /\ LET e == taken[r][TickBefore(run[r])]
                                     IN  run[r].prior = After(e.context, e.decision)
            /\ \A x \in DOMAIN taken[r] : x[1] < run[r].day \/ (x[1] = run[r].day /\ x[2] < run[r].tick)
       /\ run[r].pc = "day" => run[r].tick = 1
       /\ run[r].pc \in {"open", "written"} =>
            run[r].answer \in Runs \X ({Context(r)} \X Decisions)

\* What a run decided: each for its own context, in a chain.
Chained(r) ==
  \A x \in DOMAIN taken[r] :
    LET e == taken[r][x]
    IN  /\ e.context.day = x[1] /\ e.context.tick = x[2]
        /\ e.decision[1] = e.context /\ (e.decision[2] = ApiFailure => e.paid)
        /\ x[2] = 1 => e.context.prior = <<>>
        /\ x[2] > 1 => /\ TickBefore(e.context) \in DOMAIN taken[r]
                       /\ LET f == taken[r][TickBefore(e.context)]
                          IN  e.context.prior = After(f.context, f.decision)

\* What can be read, and is asked by nobody.
Stored(decision) ==
  /\ decision[1] \in DOMAIN name
  /\ file[<<name[decision[1]], decision[1]>>] = decision
  /\ \A r \in Runs : run[r] # Absent => (run[r].pc \in Asking => Context(r) # decision[1])

KnownChained(r) ==
  \A k \in known[r] :
    LET c == k[2][1]
    IN  /\ c.day = k[1][1] /\ c.tick = k[1][2]
        /\ c.tick = 1 => c.prior = <<>>
        /\ c.tick > 1 => \E j \in known[r] : j[1] = TickBefore(c) /\ c.prior = After(j[2][1], j[2])

AsKnown(r) ==
  \A k \in known[r] : k[1] \in DOMAIN taken[r] => taken[r][k[1]].decision = k[2] /\ ~taken[r][k[1]].paid

CacheInv ==
  /\ CacheTypes
  /\ \A r \in Runs : /\ OnItsWay(r) /\ Chained(r) /\ KnownChained(r) /\ AsKnown(r)
                     /\ \A k \in known[r] : Stored(k[2])

-----------------------------------------------------------------------------
(* Small facts.                                                            *)

LEMMA PriorsGrow ==
  ASSUME NEW prior \in Priors, NEW d \in Outcomes
  PROVE  Latest(Append(prior, d)) \in Priors
<1>1. PriorTail \in Nat
  BY CacheAssumption
<1>2. PICK n \in 0 .. PriorTail : prior \in [1 .. n -> Outcomes]
  BY DEF Priors
<1>3. n \in Nat /\ n <= PriorTail
  BY <1>1, <1>2
<1>4. prior \in Seq(Outcomes) /\ Len(prior) = n
  BY <1>2, <1>3
<1> DEFINE s == Append(prior, d)
<1>5. s \in Seq(Outcomes) /\ Len(s) = n + 1
  BY <1>4
<1>6. Latest(s) \in Seq(Outcomes) /\ Len(Latest(s)) \in 0 .. PriorTail
  <2> HIDE DEF s
  <2>1. CASE Len(s) > PriorTail
    <3>1. s # <<>>
      BY <1>3, <1>5
    <3>2. Tail(s) \in Seq(Outcomes) /\ Len(Tail(s)) = n
      BY <1>5, <3>1
    <3> QED
      BY <1>3, <2>1, <3>2 DEF Latest
  <2>2. CASE ~(Len(s) > PriorTail)
    BY <1>1, <1>3, <1>5, <2>2 DEF Latest
  <2> QED
    BY <2>1, <2>2
<1> HIDE DEF s
<1>7. Latest(s) \in [1 .. Len(Latest(s)) -> Outcomes]
  BY <1>6
<1> QED
  BY <1>6, <1>7 DEF Priors, s

LEMMA ContextIsTyped ==
  ASSUME CacheTypes, NEW r \in Runs, OnItsWay(r), run[r] # Absent, run[r].pc # "over"
  PROVE  /\ run[r] \in RunStates /\ Context(r) \in Contexts
         /\ Context(r).day = run[r].day /\ Context(r).tick = run[r].tick
         /\ Context(r).prior = run[r].prior
<1>1. run[r] \in RunStates
  BY DEF CacheTypes
<1>2. run[r].day \in 1 .. ReplayDays
  BY DEF OnItsWay
<1> QED
  BY <1>1, <1>2 DEF Context, Contexts, RunStates, Priors, Outcomes

\* A run that comes to a known tick is asked for the known context.
LEMMA OnTrack ==
  ASSUME CacheInv, NEW r \in Runs, run[r] # Absent, run[r].pc \in Walking,
         NEW k \in known[r], k[1] = <<run[r].day, run[r].tick>>
  PROVE  Context(r) = k[2][1]
<1> DEFINE c == k[2][1]
<1>1. OnItsWay(r) /\ Chained(r) /\ KnownChained(r) /\ AsKnown(r) /\ CacheTypes
  BY DEF CacheInv
<1>2. run[r].pc # "over"
  BY DEF Walking, Asking
<1>3. /\ run[r] \in RunStates /\ Context(r) \in Contexts
      /\ Context(r).day = run[r].day /\ Context(r).tick = run[r].tick
      /\ Context(r).prior = run[r].prior
  BY <1>1, <1>2, ContextIsTyped
<1>4. c \in Contexts
  BY <1>1 DEF CacheTypes
<1>5. c.day = run[r].day /\ c.tick = run[r].tick
  BY <1>1 DEF KnownChained
<1>6. c.prior = run[r].prior
  <2>1. CASE run[r].tick = 1
    BY <1>1, <1>2, <1>5, <2>1 DEF KnownChained, OnItsWay
  <2>2. CASE run[r].tick # 1
    <3>1. run[r].tick > 1
      BY <1>3, <2>2, CacheAssumption DEF RunStates
    <3> DEFINE y == TickBefore(run[r])
               e == taken[r][y]
    <3>2. y \in DOMAIN taken[r] /\ run[r].prior = After(e.context, e.decision)
      BY <1>1, <1>2, <3>1 DEF OnItsWay
    <3>3. PICK j \in known[r] : j[1] = TickBefore(c) /\ c.prior = After(j[2][1], j[2])
      BY <1>1, <1>5, <3>1 DEF KnownChained
    <3>4. j[1] = y
      BY <1>5, <3>3 DEF TickBefore
    <3>5. e.decision = j[2] /\ e.decision[1] = e.context
      BY <1>1, <3>2, <3>4 DEF AsKnown, Chained
    <3> QED
      BY <3>2, <3>3, <3>5
  <2> QED
    BY <2>1, <2>2
<1> QED
  BY <1>3, <1>4, <1>5, <1>6 DEF Contexts

\* Nothing else is known.
LEMMA AskedIsUnknown ==
  ASSUME CacheInv, NEW r \in Runs, run[r] # Absent, run[r].pc \in Asking, NEW k \in known[r]
  PROVE  k[1] # <<run[r].day, run[r].tick>> /\ Context(r) # k[2][1]
<1>1. Stored(k[2])
  BY DEF CacheInv
<1>2. Context(r) # k[2][1]
  BY <1>1 DEF Stored
<1> QED
  BY <1>2, OnTrack DEF Walking

\* The two ways a run goes on from a tick: to the next one, or to the next day.
LEMMA GoesOn ==
  ASSUME CacheInv, NEW r \in Runs, run[r] # Absent, run[r].pc \in Walking,
         NEW decision \in {Context(r)} \X Outcomes, NEW paid \in BOOLEAN, Decided(r, decision, paid)
  PROVE  /\ run' \in [Runs -> {Absent} \cup RunStates]
         /\ \A q \in Runs \ {r} : run'[q] = run[q]
         /\ run'[r] \in RunStates /\ run'[r].pc \in {"tick", "day", "over"}
         /\ \/ /\ run'[r].day = run[r].day + 1 /\ run'[r].tick = 1 /\ run'[r].prior = <<>>
               /\ run'[r].pc = IF run[r].day + 1 > ReplayDays THEN "over" ELSE "day"
            \/ /\ run'[r].day = run[r].day /\ run'[r].tick = run[r].tick + 1
               /\ run'[r].pc = "tick" /\ run'[r].prior = After(Context(r), decision)
<1>1. CacheTypes /\ OnItsWay(r) /\ run[r].pc # "over"
  BY DEF CacheInv, Walking, Asking
<1>2. run[r] \in RunStates /\ Context(r).prior = run[r].prior
  BY <1>1, ContextIsTyped
<1>3. run \in [Runs -> {Absent} \cup RunStates]
  BY <1>1 DEF CacheTypes
<1>4. TicksPerDay \in Nat \ {0} /\ ReplayDays \in Nat
  BY CacheAssumption
<1>5. \A q \in Runs \ {r} : run'[q] = run[q]
  BY <1>3 DEF Decided
<1>6. CASE run[r].tick = TicksPerDay
  <2>1. run' = [run EXCEPT ![r] = DayBegins(run[r].day + 1)]
    BY <1>6 DEF Decided
  <2>2. <<>> \in Priors
    BY CacheAssumption DEF Priors
  <2>3. run[r].day + 1 \in 1 .. ReplayDays + 1
    BY <1>1, <1>4 DEF OnItsWay
  <2>4. DayBegins(run[r].day + 1) \in RunStates
    BY <1>4, <2>2, <2>3 DEF DayBegins, RunStates, Walking
  <2>5. run'[r] = DayBegins(run[r].day + 1)
    BY <1>3, <2>1
  <2> QED
    BY <1>3, <1>5, <2>1, <2>4, <2>5 DEF DayBegins
<1>7. CASE run[r].tick # TicksPerDay
  <2> DEFINE next == [run[r] EXCEPT !.pc = "tick", !.tick = @ + 1, !.answer = Absent,
                                    !.prior = Latest(Append(@, decision[2]))]
  <2>1. run' = [run EXCEPT ![r] = next]
    BY <1>7 DEF Decided
  <2>2. Latest(Append(run[r].prior, decision[2])) \in Priors
    BY <1>2, PriorsGrow DEF RunStates
  <2>3. run[r].tick + 1 \in 1 .. TicksPerDay
    BY <1>2, <1>4, <1>7 DEF RunStates
  <2>4. next \in RunStates /\ next.pc = "tick" /\ next.day = run[r].day /\ next.tick = run[r].tick + 1
        /\ next.prior = Latest(Append(run[r].prior, decision[2]))
    BY <1>2, <2>2, <2>3 DEF RunStates, Walking
  <2> HIDE DEF next
  <2>5. run'[r] = next
    BY <1>3, <2>1
  <2> QED
    BY <1>2, <1>3, <1>5, <2>1, <2>4, <2>5 DEF After
<1> QED
  BY <1>6, <1>7

LEMMA JoinsTaken ==
  ASSUME CacheInv, NEW r \in Runs, run[r] # Absent, run[r].pc \in Walking,
         NEW decision \in {Context(r)} \X Outcomes, NEW paid \in BOOLEAN, Decided(r, decision, paid)
  PROVE  LET x == <<run[r].day, run[r].tick>>
         IN  /\ x \in TickOf /\ x \notin DOMAIN taken[r]
             /\ DOMAIN taken' = Runs /\ taken' = [q \in Runs |-> taken'[q]]
             /\ \A q \in Runs \ {r} : taken'[q] = taken[q]
             /\ DOMAIN taken'[r] = DOMAIN taken[r] \cup {x}
             /\ taken'[r][x] = [context |-> Context(r), decision |-> decision, paid |-> paid]
             /\ taken'[r][x] \in Taken
             /\ \A y \in DOMAIN taken[r] : taken'[r][y] = taken[r][y]
<1> DEFINE x == <<run[r].day, run[r].tick>>
           e == [context |-> Context(r), decision |-> decision, paid |-> paid]
<1>1. CacheTypes /\ OnItsWay(r) /\ run[r].pc # "over"
  BY DEF CacheInv, Walking, Asking
<1>2. run[r] \in RunStates /\ Context(r) \in Contexts
  BY <1>1, ContextIsTyped
<1>3. x \in TickOf /\ x \notin DOMAIN taken[r]
  <2>1. run[r].day \in 1 .. ReplayDays /\ run[r].tick \in 1 .. TicksPerDay
    BY <1>1, <1>2 DEF OnItsWay, RunStates
  <2>2. \A y \in DOMAIN taken[r] : y[1] < run[r].day \/ (y[1] = run[r].day /\ y[2] < run[r].tick)
    BY <1>1 DEF OnItsWay
  <2>3. ~(run[r].day < run[r].day) /\ ~(run[r].tick < run[r].tick)
    BY <2>1
  <2> QED
    BY <2>1, <2>2, <2>3 DEF TickOf
<1>4. e \in Taken
  BY <1>2 DEF Taken
<1>5. taken' = [taken EXCEPT ![r] = With(@, x, e)]
  BY DEF Decided
<1>6. DOMAIN taken = Runs
  BY <1>1 DEF CacheTypes
<1> HIDE DEF x, e
<1>7. taken'[r] = With(taken[r], x, e)
  BY <1>5, <1>6
<1>8. /\ DOMAIN taken'[r] = DOMAIN taken[r] \cup {x} /\ taken'[r][x] = e
      /\ \A y \in DOMAIN taken[r] : taken'[r][y] = taken[r][y]
  BY <1>3, <1>7 DEF With
<1>9. DOMAIN taken' = Runs /\ taken' = [q \in Runs |-> taken'[q]] /\ \A q \in Runs \ {r} : taken'[q] = taken[q]
  BY <1>5, <1>6
<1> QED
  BY <1>3, <1>4, <1>8, <1>9 DEF x, e

\* A decision keeps the chains.
LEMMA DecidedKeeps ==
  ASSUME CacheInv, NEW r \in Runs, run[r] # Absent, run[r].pc \in Walking,
         NEW decision \in {Context(r)} \X Outcomes, NEW paid \in BOOLEAN, Decided(r, decision, paid),
         decision[2] = ApiFailure => paid, known' = known,
         \A k \in known[r] : k[1] = <<run[r].day, run[r].tick>> => decision = k[2] /\ ~paid
  PROVE  /\ run' \in [Runs -> {Absent} \cup RunStates]
         /\ DOMAIN taken' = Runs /\ taken' = [q \in Runs |-> taken'[q]]
         /\ \A q \in Runs : /\ DOMAIN taken'[q] \subseteq TickOf
                            /\ \A x \in DOMAIN taken'[q] : taken'[q][x] \in Taken
                            /\ OnItsWay(q)' /\ Chained(q)' /\ KnownChained(q)' /\ AsKnown(q)'
                            /\ q # r => run'[q] = run[q]
         /\ run'[r].pc \notin Asking
<1> DEFINE x == <<run[r].day, run[r].tick>>
<1>1. /\ CacheTypes /\ run[r].pc # "over"
      /\ \A q \in Runs : OnItsWay(q) /\ Chained(q) /\ KnownChained(q) /\ AsKnown(q)
  BY DEF CacheInv, Walking, Asking
<1>2. /\ run[r] \in RunStates /\ Context(r) \in Contexts
      /\ Context(r).day = run[r].day /\ Context(r).tick = run[r].tick /\ Context(r).prior = run[r].prior
  BY <1>1, ContextIsTyped
<1>3. /\ run' \in [Runs -> {Absent} \cup RunStates]
      /\ \A q \in Runs \ {r} : run'[q] = run[q]
      /\ run'[r] \in RunStates /\ run'[r].pc \in {"tick", "day", "over"}
      /\ \/ /\ run'[r].day = run[r].day + 1 /\ run'[r].tick = 1 /\ run'[r].prior = <<>>
            /\ run'[r].pc = IF run[r].day + 1 > ReplayDays THEN "over" ELSE "day"
         \/ /\ run'[r].day = run[r].day /\ run'[r].tick = run[r].tick + 1
            /\ run'[r].pc = "tick" /\ run'[r].prior = After(Context(r), decision)
  BY GoesOn
<1>4. /\ x \in TickOf /\ x \notin DOMAIN taken[r]
      /\ DOMAIN taken' = Runs /\ taken' = [q \in Runs |-> taken'[q]]
      /\ \A q \in Runs \ {r} : taken'[q] = taken[q]
      /\ DOMAIN taken'[r] = DOMAIN taken[r] \cup {x}
      /\ taken'[r][x] = [context |-> Context(r), decision |-> decision, paid |-> paid]
      /\ taken'[r][x] \in Taken
      /\ \A y \in DOMAIN taken[r] : taken'[r][y] = taken[r][y]
  BY JoinsTaken
<1>5. \A q \in Runs : /\ DOMAIN taken'[q] \subseteq TickOf
                      /\ \A y \in DOMAIN taken'[q] : taken'[q][y] \in Taken
  BY <1>1, <1>4 DEF CacheTypes
<1>6. ASSUME NEW q \in Runs, q # r PROVE OnItsWay(q)' /\ Chained(q)' /\ KnownChained(q)' /\ AsKnown(q)'
  <2>1. run'[q] = run[q] /\ taken'[q] = taken[q] /\ known'[q] = known[q]
    BY <1>3, <1>4, <1>6
  <2> QED
    BY <1>1, <2>1 DEF OnItsWay, Chained, KnownChained, AsKnown, Context
<1>7. KnownChained(r)'
  BY <1>1 DEF KnownChained
<1>8. AsKnown(r)'
  <2> SUFFICES ASSUME NEW k \in known[r], k[1] \in DOMAIN taken'[r]
               PROVE  taken'[r][k[1]].decision = k[2] /\ ~taken'[r][k[1]].paid
    BY DEF AsKnown
  <2>1. CASE k[1] \in DOMAIN taken[r]
    BY <1>1, <1>4, <2>1 DEF AsKnown
  <2>2. CASE k[1] = x
    <3>1. decision = k[2] /\ ~paid
      BY <2>2
    <3>2. taken'[r][k[1]].decision = decision /\ taken'[r][k[1]].paid = paid
      BY <1>4, <2>2
    <3> QED
      BY <3>1, <3>2
  <2> QED
    BY <1>4, <2>1, <2>2
<1>9. Chained(r)'
  <2> SUFFICES ASSUME NEW y \in DOMAIN taken'[r]
               PROVE  LET e == taken'[r][y]
                      IN  /\ e.context.day = y[1] /\ e.context.tick = y[2]
                          /\ e.decision[1] = e.context /\ (e.decision[2] = ApiFailure => e.paid)
                          /\ y[2] = 1 => e.context.prior = <<>>
                          /\ y[2] > 1 => /\ TickBefore(e.context) \in DOMAIN taken'[r]
                                         /\ LET f == taken'[r][TickBefore(e.context)]
                                            IN  e.context.prior = After(f.context, f.decision)
    BY DEF Chained
  <2>1. CASE y \in DOMAIN taken[r]
    BY <1>1, <1>4, <2>1 DEF Chained
  <2>2. CASE y = x
    <3>1. run[r].tick = 1 => run[r].prior = <<>>
      BY <1>1 DEF OnItsWay
    <3>2. run[r].tick > 1 => /\ TickBefore(run[r]) \in DOMAIN taken[r]
                             /\ LET e == taken[r][TickBefore(run[r])]
                                IN  run[r].prior = After(e.context, e.decision)
      BY <1>1 DEF OnItsWay
    <3>3. TickBefore(Context(r)) = TickBefore(run[r])
      BY <1>2 DEF TickBefore
    <3> DEFINE e == taken'[r][x]
    <3>4. e.context = Context(r) /\ e.decision = decision /\ e.paid = paid
      BY <1>4
    <3> HIDE DEF e
    <3>5. decision[1] = Context(r)
      OBVIOUS
    <3>6. run[r].tick > 1 => /\ TickBefore(e.context) \in DOMAIN taken'[r]
                             /\ LET f == taken'[r][TickBefore(e.context)]
                                IN  e.context.prior = After(f.context, f.decision)
      BY <1>2, <1>4, <3>2, <3>3, <3>4
    <3>7. /\ e.context.day = x[1] /\ e.context.tick = x[2] /\ x[2] = run[r].tick
          /\ e.decision[1] = e.context /\ (e.decision[2] = ApiFailure => e.paid)
          /\ run[r].tick = 1 => e.context.prior = <<>>
      BY <1>2, <3>1, <3>4, <3>5
    <3>8. y = x /\ e = taken'[r][y]
      BY <2>2 DEF e
    <3> HIDE DEF x
    <3> QED
      BY <3>6, <3>7, <3>8
  <2> QED
    BY <1>4, <2>1, <2>2
<1>10. OnItsWay(r)'
  <2>1. run'[r] # Absent
    BY <1>3, CacheAssumption
  <2>2. /\ run[r].day \in 1 .. ReplayDays /\ run[r].tick \in 1 .. TicksPerDay
        /\ \A y \in DOMAIN taken[r] : y[1] < run[r].day \/ (y[1] = run[r].day /\ y[2] < run[r].tick)
    BY <1>1, <1>2 DEF OnItsWay, RunStates
  <2>3. ReplayDays \in Nat /\ TicksPerDay \in Nat
    BY CacheAssumption
  <2>4. \A y \in DOMAIN taken[r] : y[1] \in Nat /\ y[2] \in Nat
    BY <1>1, <2>3 DEF CacheTypes, TickOf
  <2>5. CASE /\ run'[r].day = run[r].day + 1 /\ run'[r].tick = 1 /\ run'[r].prior = <<>>
             /\ run'[r].pc = IF run[r].day + 1 > ReplayDays THEN "over" ELSE "day"
    <3>1. \A y \in DOMAIN taken'[r] : y[1] < run'[r].day
      BY <1>4, <2>2, <2>3, <2>4, <2>5
    <3>2. run'[r].pc # "over" => run'[r].day \in 1 .. ReplayDays
      BY <2>2, <2>3, <2>5
    <3> QED
      BY <2>1, <2>5, <3>1, <3>2 DEF OnItsWay
  <2>6. CASE /\ run'[r].day = run[r].day /\ run'[r].tick = run[r].tick + 1
             /\ run'[r].pc = "tick" /\ run'[r].prior = After(Context(r), decision)
    <3>1. \A y \in DOMAIN taken'[r] : y[1] < run'[r].day \/ (y[1] = run'[r].day /\ y[2] < run'[r].tick)
      BY <1>4, <2>2, <2>3, <2>4, <2>6
    <3>2. TickBefore(run'[r]) = x
      BY <2>2, <2>3, <2>6 DEF TickBefore
    <3>3. taken'[r][x].context = Context(r) /\ taken'[r][x].decision = decision
      BY <1>4
    <3>4. run'[r].tick # 1
      BY <2>2, <2>3, <2>6
    <3> HIDE DEF x
    <3> QED
      BY <1>4, <2>1, <2>2, <2>6, <3>1, <3>2, <3>3, <3>4 DEF OnItsWay
  <2> QED
    BY <1>3, <2>5, <2>6
<1> QED
  BY <1>3, <1>4, <1>5, <1>6, <1>7, <1>8, <1>9, <1>10 DEF Asking

-----------------------------------------------------------------------------
(* The steps.                                                              *)

FileTypes ==
  /\ \A k \in DOMAIN name : <<name[k], k>> \in DOMAIN file
  /\ \A k \in DOMAIN tmp : <<tmp[k], k>> \in DOMAIN file /\ tmp[k] \in Runs
  /\ \A f \in DOMAIN file : f \in Runs \X Contexts /\ file[f] \in {Torn} \cup {f[2]} \X Decisions

\* A run that only goes from one place to another.
LEMMA Moves ==
  ASSUME CacheInv, NEW r \in Runs, NEW s \in RunStates, run' = [run EXCEPT ![r] = s],
         UNCHANGED <<taken, known>>, OnItsWay(r)'
  PROVE  /\ run' \in [Runs -> {Absent} \cup RunStates] /\ run'[r] = s /\ s # Absent
         /\ \A q \in Runs \ {r} : run'[q] = run[q]
         /\ FileTypes' => CacheTypes'
         /\ \A q \in Runs : OnItsWay(q)' /\ Chained(q)' /\ KnownChained(q)' /\ AsKnown(q)'
<1>1. /\ CacheTypes /\ taken' = taken /\ known' = known
      /\ \A q \in Runs : OnItsWay(q) /\ Chained(q) /\ KnownChained(q) /\ AsKnown(q)
  BY DEF CacheInv
<1>2. /\ run' \in [Runs -> {Absent} \cup RunStates] /\ run'[r] = s /\ s # Absent
      /\ \A q \in Runs \ {r} : run'[q] = run[q]
  BY <1>1, CacheAssumption DEF CacheTypes
<1>3. ASSUME FileTypes' PROVE CacheTypes'
  BY <1>1, <1>2, <1>3 DEF CacheTypes, FileTypes
<1>4. ASSUME NEW q \in Runs PROVE OnItsWay(q)' /\ Chained(q)' /\ KnownChained(q)' /\ AsKnown(q)'
  <2>1. Chained(q)' /\ KnownChained(q)' /\ AsKnown(q)'
    BY <1>1 DEF Chained, KnownChained, AsKnown
  <2>2. CASE q = r
    BY <2>1, <2>2
  <2>3. CASE q # r
    BY <1>1, <1>2, <2>1, <2>3 DEF OnItsWay, Context
  <2> QED
    BY <2>2, <2>3
<1> QED
  BY <1>2, <1>3, <1>4

\* The same of a run that decides.
LEMMA DecidedTypes ==
  ASSUME CacheInv, FileTypes', known' = known,
         run' \in [Runs -> {Absent} \cup RunStates],
         DOMAIN taken' = Runs, taken' = [q \in Runs |-> taken'[q]],
         \A q \in Runs : /\ DOMAIN taken'[q] \subseteq TickOf
                         /\ \A x \in DOMAIN taken'[q] : taken'[q][x] \in Taken
  PROVE  CacheTypes'
BY DEF CacheInv, CacheTypes, FileTypes

\* Files of contexts nobody knows may change.
LEMMA StoredStays ==
  ASSUME CacheInv, NEW r \in Runs, known' = known,
         \A q \in Runs \ {r} : run'[q] = run[q],
         NEW k, \A q \in Runs : \A j \in known[q] : j[2][1] # k,
         \A c \in DOMAIN name \ {k} : c \in DOMAIN name' /\ name'[c] = name[c],
         \A f \in DOMAIN file : f[2] # k => f \in DOMAIN file' /\ file'[f] = file[f],
         run'[r].pc \in Asking => Context(r)' = k
  PROVE  \A q \in Runs : \A j \in known'[q] : Stored(j[2])'
<1> SUFFICES ASSUME NEW q \in Runs, NEW j \in known[q] PROVE Stored(j[2])'
  OBVIOUS
<1> DEFINE c == j[2][1]
<1>1. Stored(j[2]) /\ CacheTypes
  BY DEF CacheInv
<1>2. c \in DOMAIN name /\ c # k /\ <<name[c], c>> \in DOMAIN file
  BY <1>1 DEF Stored, CacheTypes
<1>3. c \in DOMAIN name' /\ name'[c] = name[c]
  BY <1>2
<1>4. <<name[c], c>>[2] = c
  OBVIOUS
<1>5. file'[<<name[c], c>>] = file[<<name[c], c>>]
  BY <1>2, <1>4
<1>6. ASSUME NEW p \in Runs, run'[p] # Absent, run'[p].pc \in Asking PROVE Context(p)' # c
  <2>1. CASE p = r
    BY <1>2, <1>6, <2>1
  <2>2. CASE p # r
    <3>1. run'[p] = run[p] /\ Context(p)' = Context(p)
      BY <2>2 DEF Context
    <3> QED
      BY <1>1, <1>6, <3>1 DEF Stored
  <2> QED
    BY <2>1, <2>2
<1> HIDE DEF c
<1>7. file'[<<name'[c], c>>] = j[2]
  BY <1>1, <1>3, <1>5 DEF Stored, c
<1> QED
  BY <1>3, <1>6, <1>7 DEF Stored, c

\* Files that do not change, while nobody new asks.
LEMMA StoredIdle ==
  ASSUME CacheInv, NEW r \in Runs, known' = known,
         \A q \in Runs \ {r} : run'[q] = run[q], UNCHANGED <<name, file>>,
         run'[r].pc \in Asking =>
            /\ Context(r)' = Context(r)
            /\ \A q \in Runs : \A j \in known[q] : j[2][1] # Context(r)
  PROVE  \A q \in Runs : \A j \in known'[q] : Stored(j[2])'
<1> SUFFICES ASSUME NEW q \in Runs, NEW j \in known[q] PROVE Stored(j[2])'
  OBVIOUS
<1>1. Stored(j[2])
  BY DEF CacheInv
<1>2. ASSUME NEW p \in Runs, run'[p] # Absent, run'[p].pc \in Asking PROVE Context(p)' # j[2][1]
  <2>1. CASE p = r
    BY <1>2, <2>1
  <2>2. CASE p # r
    <3>1. run'[p] = run[p] /\ Context(p)' = Context(p)
      BY <2>2 DEF Context
    <3> QED
      BY <1>1, <1>2, <3>1 DEF Stored
  <2> QED
    BY <2>1, <2>2
<1> QED
  BY <1>1, <1>2 DEF Stored

\* A decision of a run that asked is for no known tick.
LEMMA AskedDecides ==
  ASSUME CacheInv, NEW r \in Runs, run[r] # Absent, run[r].pc \in Asking,
         NEW decision \in {Context(r)} \X Outcomes, Decided(r, decision, TRUE), known' = known,
         FileTypes',
         \A c \in DOMAIN name \ {Context(r)} : c \in DOMAIN name' /\ name'[c] = name[c],
         file' = file
  PROVE  CacheInv'
<1> DEFINE k == Context(r)
<1>1. \A q \in Runs : \A j \in known[q] : j[2][1] # k
  BY DEF CacheInv, Stored
<1>2. \A j \in known[r] : j[1] # <<run[r].day, run[r].tick>>
  BY AskedIsUnknown
<1>3. run[r].pc \in Walking
  BY DEF Walking
<1>4. TRUE \in BOOLEAN
  OBVIOUS
<1>5. /\ run' \in [Runs -> {Absent} \cup RunStates]
      /\ DOMAIN taken' = Runs /\ taken' = [q \in Runs |-> taken'[q]]
      /\ \A q \in Runs : /\ DOMAIN taken'[q] \subseteq TickOf
                         /\ \A x \in DOMAIN taken'[q] : taken'[q][x] \in Taken
                         /\ OnItsWay(q)' /\ Chained(q)' /\ KnownChained(q)' /\ AsKnown(q)'
                         /\ q # r => run'[q] = run[q]
      /\ run'[r].pc \notin Asking
  BY <1>2, <1>3, <1>4, DecidedKeeps
<1>6. CacheTypes'
  BY <1>5, DecidedTypes
<1>7. \A q \in Runs : \A j \in known'[q] : Stored(j[2])'
  BY <1>1, <1>5, StoredStays
<1> QED
  BY <1>5, <1>6, <1>7 DEF CacheInv

LEMMA StepBegins ==
  ASSUME CacheInv, NEW r \in Runs, run_replay(r)
  PROVE  CacheInv'
<1>1. /\ CacheTypes /\ run[r] = Absent /\ DOMAIN taken[r] = {}
      /\ \A q \in Runs : OnItsWay(q) /\ Chained(q) /\ KnownChained(q) /\ AsKnown(q)
  BY DEF CacheInv, run_replay, OnItsWay
<1>2. run' = [run EXCEPT ![r] = DayBegins(1)] /\ taken' = taken /\ name' = name /\ file' = file /\ tmp' = tmp
  BY DEF run_replay
<1>3. ReplayDays \in Nat /\ TicksPerDay \in Nat \ {0} /\ <<>> \in Priors
  BY CacheAssumption DEF Priors
<1>4. DayBegins(1) \in RunStates /\ DayBegins(1) # Absent
  BY <1>3, CacheAssumption DEF DayBegins, RunStates, Walking
<1>5. run'[r] = DayBegins(1) /\ (\A q \in Runs \ {r} : run'[q] = run[q])
      /\ run' \in [Runs -> {Absent} \cup RunStates]
  BY <1>1, <1>2, <1>4 DEF CacheTypes
<1>6. \A q \in Runs : OnItsWay(q)' /\ Chained(q)'
  <2> SUFFICES ASSUME NEW q \in Runs PROVE OnItsWay(q)' /\ Chained(q)'
    OBVIOUS
  <2>1. Chained(q)'
    BY <1>1, <1>2 DEF Chained
  <2>2. CASE q # r
    BY <1>1, <1>2, <1>5, <2>1, <2>2 DEF OnItsWay, Context
  <2>3. CASE q = r
    <3>1. /\ run'[r].day = 1 /\ run'[r].tick = 1 /\ run'[r].prior = <<>>
          /\ run'[r].pc = IF 1 > ReplayDays THEN "over" ELSE "day"
      BY <1>5 DEF DayBegins
    <3>2. DOMAIN taken'[r] = {} /\ run'[r] # Absent
      BY <1>1, <1>2, <1>4, <1>5
    <3>3. run'[r].pc # "over" => run'[r].day \in 1 .. ReplayDays
      BY <1>3, <3>1
    <3> QED
      BY <2>1, <2>3, <3>1, <3>2, <3>3 DEF OnItsWay
  <2> QED
    BY <2>2, <2>3
<1> DEFINE news == IF \E s \in Runs : Under(s) THEN {} ELSE UNION {Kept(s) : s \in Runs}
<1>7. known' = [known EXCEPT ![r] = news]
  BY DEF run_replay
<1>8. known'[r] = news /\ \A q \in Runs \ {r} : known'[q] = known[q]
  BY <1>1, <1>7 DEF CacheTypes
<1>9. DOMAIN known' = Runs /\ known' = [q \in Runs |-> known'[q]]
  BY <1>1, <1>7 DEF CacheTypes
<1> HIDE DEF news
\* What is kept of a run s.
<1>10. ASSUME NEW j \in news
       PROVE  /\ \A q \in Runs : ~Under(q)
              /\ \E s \in Runs : \E x \in DOMAIN taken[s] :
                   /\ j = <<x, taken[s][x].decision>>
                   /\ <<x, taken[s][x].decision>> \in Kept(s)
  <2>1. \A q \in Runs : ~Under(q)
    BY <1>10 DEF news
  <2>2. PICK s \in Runs : j \in Kept(s)
    BY <1>10, <2>1 DEF news
  <2>3. PICK x \in DOMAIN taken[s] : j = <<x, taken[s][x].decision>>
    BY <2>2 DEF Kept
  <2> QED
    BY <2>1, <2>2, <2>3
<1>11. ASSUME NEW s \in Runs, NEW x \in DOMAIN taken[s], <<x, taken[s][x].decision>> \in Kept(s)
       PROVE  LET d == taken[s][x].decision
                  c == d[1]
              IN  /\ x \in TickOf /\ d \in Contexts \X Outcomes
                  /\ c.day = x[1] /\ c.tick = x[2]
                  /\ c \in DOMAIN name /\ file[<<name[c], c>>] = d
                  /\ c.tick = 1 => c.prior = <<>>
                  /\ c.tick > 1 =>
                       \E y \in DOMAIN taken[s] :
                         /\ y = TickBefore(c)
                         /\ c.prior = After(taken[s][y].decision[1], taken[s][y].decision)
                         /\ <<y, taken[s][y].decision>> \in Kept(s)
  <2> DEFINE File(y) == LET k == cache_key(taken[s][y].context)
                        IN  IF k \in DOMAIN name THEN file[<<name[k], k>>] ELSE Torn
             InFile(y) == y \in DOMAIN taken[s] => File(y) = taken[s][y].decision
             d == taken[s][x].decision
             c == d[1]
  <2>1. Chained(s)
    BY <1>1
  <2>2. taken[s][x] \in Taken /\ x \in TickOf
    BY <1>1 DEF CacheTypes
  <2>3. d \in Contexts \X Outcomes /\ d # Absent
    BY <2>2, CacheAssumption DEF Taken
  <2>4. \A u \in 1 .. x[2] : InFile(<<x[1], u>>)
    <3>1. PICK y \in DOMAIN taken[s] : /\ <<x, d>> = <<y, taken[s][y].decision>>
                                       /\ \A u \in 1 .. y[2] : InFile(<<y[1], u>>)
      BY <1>11 DEF Kept
    <3>2. y = x
      BY <3>1
    <3> HIDE DEF InFile
    <3> QED
      BY <3>1, <3>2
  <2>5. x[1] \in Nat /\ x[2] \in 1 .. TicksPerDay /\ x = <<x[1], x[2]>> /\ x[2] \in Nat /\ x[2] >= 1
    BY <1>3, <2>2 DEF TickOf
  <2>6. InFile(x)
    <3> HIDE DEF InFile
    <3>1. x[2] \in 1 .. x[2]
      BY <2>5
    <3>2. InFile(<<x[1], x[2]>>)
      BY <2>4, <3>1
    <3> QED
      BY <2>5, <3>2
  <2>7. /\ taken[s][x].context = c /\ c.day = x[1] /\ c.tick = x[2]
        /\ x[2] = 1 => c.prior = <<>>
        /\ x[2] > 1 => /\ TickBefore(c) \in DOMAIN taken[s]
                       /\ LET f == taken[s][TickBefore(c)]
                          IN  c.prior = After(f.context, f.decision)
    BY <2>1 DEF Chained
  <2>8. c \in DOMAIN name /\ file[<<name[c], c>>] = d
    <3>1. File(x) = d
      BY <2>6
    <3>2. cache_key(taken[s][x].context) = c
      BY <2>7 DEF cache_key
    <3> HIDE DEF d, c
    <3> QED
      BY <2>3, <3>1, <3>2 DEF Torn
  <2>9. ASSUME c.tick > 1
        PROVE  \E y \in DOMAIN taken[s] :
                 /\ y = TickBefore(c)
                 /\ c.prior = After(taken[s][y].decision[1], taken[s][y].decision)
                 /\ <<y, taken[s][y].decision>> \in Kept(s)
    <3> DEFINE y == TickBefore(c)
    <3>1. y \in DOMAIN taken[s] /\ c.prior = After(taken[s][y].context, taken[s][y].decision)
      BY <2>7, <2>9
    <3>2. taken[s][y].decision[1] = taken[s][y].context
      BY <2>1, <3>1 DEF Chained
    <3>3. y[1] = x[1] /\ y[2] = x[2] - 1
      BY <2>7 DEF TickBefore
    <3>4. \A u \in 1 .. y[2] : InFile(<<y[1], u>>)
      <4> HIDE DEF InFile, y
      <4>1. \A u \in 1 .. x[2] - 1 : u \in 1 .. x[2]
        BY <2>5
      <4> QED
        BY <2>4, <3>3, <4>1
    <3>5. <<y, taken[s][y].decision>> \in Kept(s)
      BY <3>1, <3>4 DEF Kept
    <3> QED
      BY <3>1, <3>2, <3>5
  <2> HIDE DEF c, d
  <2>10. c.tick = x[2]
    BY <2>7
  <2> QED
    BY <2>2, <2>3, <2>7, <2>8, <2>9, <2>10 DEF c, d
<1>12. known'[r] \subseteq TickOf \X (Contexts \X Outcomes)
  <2> SUFFICES ASSUME NEW j \in news PROVE j \in TickOf \X (Contexts \X Outcomes)
    BY <1>8
  <2>1. PICK s \in Runs : \E x \in DOMAIN taken[s] :
          j = <<x, taken[s][x].decision>> /\ <<x, taken[s][x].decision>> \in Kept(s)
    BY <1>10
  <2>2. PICK x \in DOMAIN taken[s] : j = <<x, taken[s][x].decision>> /\ <<x, taken[s][x].decision>> \in Kept(s)
    BY <2>1
  <2>3. x \in TickOf /\ taken[s][x].decision \in Contexts \X Outcomes
    BY <1>11, <2>2
  <2> QED
    BY <2>2, <2>3
<1>13. CacheTypes'
  <2>1. \A q \in Runs : known'[q] \subseteq TickOf \X (Contexts \X Outcomes)
    BY <1>1, <1>8, <1>12 DEF CacheTypes
  <2> QED
    BY <1>1, <1>2, <1>5, <1>9, <2>1 DEF CacheTypes
<1>14. \A q \in Runs : AsKnown(q)'
  <2> SUFFICES ASSUME NEW q \in Runs PROVE AsKnown(q)'
    OBVIOUS
  <2>1. CASE q = r
    BY <1>1, <1>2, <2>1 DEF AsKnown
  <2>2. CASE q # r
    BY <1>1, <1>2, <1>8, <2>2 DEF AsKnown
  <2> QED
    BY <2>1, <2>2
<1>15. \A q \in Runs : KnownChained(q)'
  <2> SUFFICES ASSUME NEW q \in Runs PROVE KnownChained(q)'
    OBVIOUS
  <2>1. CASE q = r
    <3> SUFFICES ASSUME NEW k \in news
                 PROVE  LET c == k[2][1]
                        IN  /\ c.day = k[1][1] /\ c.tick = k[1][2]
                            /\ c.tick = 1 => c.prior = <<>>
                            /\ c.tick > 1 => \E j \in news : j[1] = TickBefore(c) /\ c.prior = After(j[2][1], j[2])
      BY <1>8, <2>1 DEF KnownChained
    <3>1. PICK s \in Runs : \E x \in DOMAIN taken[s] :
            k = <<x, taken[s][x].decision>> /\ <<x, taken[s][x].decision>> \in Kept(s)
      BY <1>10
    <3>2. PICK x \in DOMAIN taken[s] : k = <<x, taken[s][x].decision>> /\ <<x, taken[s][x].decision>> \in Kept(s)
      BY <3>1
    <3> DEFINE d == taken[s][x].decision
               c == d[1]
    <3>3. k[1] = x /\ k[2] = d
      BY <3>2
    <3>4. /\ c.day = x[1] /\ c.tick = x[2]
          /\ c.tick = 1 => c.prior = <<>>
          /\ c.tick > 1 => \E y \in DOMAIN taken[s] :
                             /\ y = TickBefore(c)
                             /\ c.prior = After(taken[s][y].decision[1], taken[s][y].decision)
                             /\ <<y, taken[s][y].decision>> \in Kept(s)
      BY <1>11, <3>2
    <3>5. Kept(s) \subseteq news
      BY <1>10 DEF news
    <3>6. ASSUME c.tick > 1
          PROVE  \E j \in news : j[1] = TickBefore(c) /\ c.prior = After(j[2][1], j[2])
      <4>1. PICK y \in DOMAIN taken[s] : /\ y = TickBefore(c)
                                         /\ c.prior = After(taken[s][y].decision[1], taken[s][y].decision)
                                         /\ <<y, taken[s][y].decision>> \in Kept(s)
        BY <3>4, <3>6
      <4>2. <<y, taken[s][y].decision>> \in news
        BY <3>5, <4>1
      <4> QED
        BY <4>1, <4>2
    <3> QED
      BY <3>3, <3>4, <3>6
  <2>2. CASE q # r
    BY <1>1, <1>8, <2>2 DEF KnownChained
  <2> QED
    BY <2>1, <2>2
<1>16. \A q \in Runs : \A j \in known'[q] : Stored(j[2])'
  <2> SUFFICES ASSUME NEW q \in Runs, NEW j \in known'[q] PROVE Stored(j[2])'
    OBVIOUS
  <2>1. run'[r].pc \notin Asking
    BY <1>5 DEF DayBegins, Asking
  <2>2. CASE q # r
    <3>1. j \in known[q] /\ Stored(j[2])
      BY <1>8, <2>2 DEF CacheInv
    <3>2. ASSUME NEW p \in Runs, run'[p] # Absent, run'[p].pc \in Asking PROVE Context(p)' # j[2][1]
      <4>1. p # r /\ run'[p] = run[p] /\ Context(p)' = Context(p)
        BY <1>5, <2>1, <3>2 DEF Context
      <4> QED
        BY <3>1, <3>2, <4>1 DEF Stored
    <3> QED
      BY <1>2, <3>1, <3>2 DEF Stored
  <2>3. CASE q = r
    <3>1. j \in news
      BY <1>8, <2>3
    <3>2. PICK s \in Runs : \E x \in DOMAIN taken[s] :
            j = <<x, taken[s][x].decision>> /\ <<x, taken[s][x].decision>> \in Kept(s)
      BY <1>10, <3>1
    <3>3. PICK x \in DOMAIN taken[s] : j = <<x, taken[s][x].decision>> /\ <<x, taken[s][x].decision>> \in Kept(s)
      BY <3>2
    <3> DEFINE d == taken[s][x].decision
    <3>4. j[2] = d /\ d[1] \in DOMAIN name /\ file[<<name[d[1]], d[1]>>] = d
      BY <1>11, <3>3
    <3>5. ASSUME NEW p \in Runs, run'[p] # Absent PROVE run'[p].pc \notin Asking
      <4>1. CASE p = r
        BY <2>1, <4>1
      <4>2. CASE p # r
        <5>1. ~Under(p) /\ run'[p] = run[p]
          BY <1>5, <1>10, <3>1, <4>2
        <5>2. run[p].pc = "over"
          BY <3>5, <5>1 DEF Under
        <5> QED
          BY <5>1, <5>2 DEF Asking
      <4> QED
        BY <4>1, <4>2
    <3> HIDE DEF d
    <3> QED
      BY <1>2, <3>4, <3>5 DEF Stored
  <2> QED
    BY <2>2, <2>3
<1> QED
  BY <1>6, <1>13, <1>14, <1>15, <1>16 DEF CacheInv

LEMMA StepDay ==
  ASSUME CacheInv, NEW r \in Runs, build_day_state(r)
  PROVE  CacheInv'
<1>1. /\ CacheTypes /\ run[r] # Absent /\ run[r].pc = "day" /\ OnItsWay(r) /\ run[r] \in RunStates
      /\ UNCHANGED <<taken, known, name, tmp, file>>
  BY DEF CacheInv, build_day_state, At, CacheTypes
<1>2. /\ run[r].day \in 1 .. ReplayDays /\ run[r].tick = 1 /\ run[r].prior = <<>>
      /\ \A x \in DOMAIN taken[r] : x[1] < run[r].day \/ (x[1] = run[r].day /\ x[2] < run[r].tick)
  BY <1>1 DEF OnItsWay
<1>3. ReplayDays \in Nat /\ TicksPerDay \in Nat \ {0} /\ <<>> \in Priors
  BY CacheAssumption DEF Priors
<1>4. \A x \in DOMAIN taken[r] : x[1] \in Nat /\ x[2] \in Nat
  BY <1>1, <1>3 DEF CacheTypes, TickOf
<1>5. ASSUME NEW s \in RunStates, run' = [run EXCEPT ![r] = s], OnItsWay(r)', s.pc \notin Asking
      PROVE  CacheInv'
  <2>1. /\ FileTypes' => CacheTypes'
        /\ run'[r] = s /\ \A q \in Runs \ {r} : run'[q] = run[q]
        /\ \A q \in Runs : OnItsWay(q)' /\ Chained(q)' /\ KnownChained(q)' /\ AsKnown(q)'
    BY <1>1, <1>5, Moves
  <2>2. FileTypes'
    BY <1>1 DEF CacheTypes, FileTypes
  <2>3. \A q \in Runs : \A j \in known'[q] : Stored(j[2])'
    BY <1>1, <1>5, <2>1, StoredIdle
  <2> QED
    BY <2>1, <2>2, <2>3 DEF CacheInv
<1>6. CASE run' = [run EXCEPT ![r].pc = "tick"]
  <2> DEFINE s == [run[r] EXCEPT !.pc = "tick"]
  <2>1. s \in RunStates /\ s.pc = "tick" /\ s.day = run[r].day /\ s.tick = run[r].tick /\ s.prior = run[r].prior
    BY <1>1 DEF RunStates, Walking
  <2>2. run' = [run EXCEPT ![r] = s]
    BY <1>6
  <2> HIDE DEF s
  <2>3. run'[r] = s /\ s # Absent
    BY <1>1, <2>1, <2>2, CacheAssumption DEF CacheTypes
  <2>4. OnItsWay(r)'
    BY <1>1, <1>2, <2>1, <2>3 DEF OnItsWay
  <2> QED
    BY <1>5, <2>1, <2>2, <2>4 DEF Asking
<1>7. CASE run' = [run EXCEPT ![r] = DayBegins(run[r].day + 1)]
  <2> DEFINE s == DayBegins(run[r].day + 1)
  <2>1. run[r].day + 1 \in 1 .. ReplayDays + 1
    BY <1>2, <1>3
  <2>2. /\ s \in RunStates /\ s.day = run[r].day + 1 /\ s.tick = 1 /\ s.prior = <<>>
        /\ s.pc = IF run[r].day + 1 > ReplayDays THEN "over" ELSE "day"
    BY <1>3, <2>1 DEF DayBegins, RunStates, Walking
  <2>3. run' = [run EXCEPT ![r] = s]
    BY <1>7
  <2> HIDE DEF s
  <2>4. run'[r] = s /\ s # Absent
    BY <1>1, <2>2, <2>3, CacheAssumption DEF CacheTypes
  <2>5. \A x \in DOMAIN taken'[r] : x[1] < s.day
    BY <1>1, <1>2, <1>3, <1>4, <2>2
  <2>6. s.pc # "over" => s.day \in 1 .. ReplayDays
    BY <1>2, <1>3, <2>2
  <2>7. OnItsWay(r)'
    BY <2>2, <2>4, <2>5, <2>6 DEF OnItsWay
  <2> QED
    BY <1>5, <2>2, <2>3, <2>7 DEF Asking
<1> QED
  BY <1>6, <1>7 DEF build_day_state

\* A stored decision is one for this context, and the known one if it is known.
LEMMA StepHit ==
  ASSUME CacheInv, NEW r \in Runs, Hit(r)
  PROVE  CacheInv'
<1> DEFINE k == Context(r)
           d == _read_envelope(r)
<1>1. /\ CacheTypes /\ run[r] # Absent /\ run[r].pc = "tick" /\ run[r].pc \in Walking
      /\ d # Torn /\ Decided(r, d, FALSE) /\ UNCHANGED <<name, tmp, file, known>>
  BY DEF CacheInv, Hit, At, Walking
<1>2. k \in DOMAIN name /\ d = file[<<name[k], k>>]
  BY <1>1 DEF _read_envelope, cache_key
<1>3. <<name[k], k>> \in DOMAIN file
  BY <1>1, <1>2 DEF CacheTypes
<1>4. d \in {k} \X Decisions
  <2>1. file[<<name[k], k>>] \in {Torn} \cup {<<name[k], k>>[2]} \X Decisions
    BY <1>1, <1>3 DEF CacheTypes
  <2>2. <<name[k], k>>[2] = k
    OBVIOUS
  <2> HIDE DEF d, k
  <2> QED
    BY <1>1, <1>2, <2>1, <2>2
<1>5. d \in {k} \X Outcomes /\ d[2] # ApiFailure
  <2> HIDE DEF d, k
  <2> QED
    BY <1>4, CacheAssumption DEF Outcomes
<1>6. \A j \in known[r] : j[1] = <<run[r].day, run[r].tick>> => d = j[2]
  <2> SUFFICES ASSUME NEW j \in known[r], j[1] = <<run[r].day, run[r].tick>> PROVE d = j[2]
    OBVIOUS
  <2>1. k = j[2][1]
    BY <1>1, OnTrack
  <2>2. Stored(j[2])
    BY DEF CacheInv
  <2> QED
    BY <1>2, <2>1, <2>2 DEF Stored
<1>7. FALSE \in BOOLEAN
  OBVIOUS
<1> HIDE DEF d
<1>8. /\ run' \in [Runs -> {Absent} \cup RunStates]
      /\ DOMAIN taken' = Runs /\ taken' = [q \in Runs |-> taken'[q]]
      /\ \A q \in Runs : /\ DOMAIN taken'[q] \subseteq TickOf
                         /\ \A x \in DOMAIN taken'[q] : taken'[q][x] \in Taken
                         /\ OnItsWay(q)' /\ Chained(q)' /\ KnownChained(q)' /\ AsKnown(q)'
                         /\ q # r => run'[q] = run[q]
      /\ run'[r].pc \notin Asking
  BY <1>1, <1>5, <1>6, <1>7, DecidedKeeps
<1>9. FileTypes'
  BY <1>1 DEF CacheTypes, FileTypes
<1>10. CacheTypes'
  BY <1>1, <1>8, <1>9, DecidedTypes
<1>11. \A q \in Runs : \A j \in known'[q] : Stored(j[2])'
  BY <1>1, <1>8, StoredIdle
<1> QED
  BY <1>8, <1>10, <1>11 DEF CacheInv

\* A known decision is never asked for, since it can be read.
LEMMA StepMiss ==
  ASSUME CacheInv, NEW r \in Runs, Miss(r)
  PROVE  CacheInv'
<1>1. /\ CacheTypes /\ run[r] # Absent /\ run[r].pc = "tick" /\ OnItsWay(r) /\ run[r] \in RunStates
      /\ _read_envelope(r) = Torn
      /\ run' = [run EXCEPT ![r].pc = "asked"] /\ UNCHANGED <<name, tmp, file, taken, known>>
  BY DEF CacheInv, Miss, At, CacheTypes
<1>2. ASSUME NEW q \in Runs, NEW j \in known[q] PROVE j[2][1] # Context(r)
  <2>1. Stored(j[2])
    BY DEF CacheInv
  <2>2. j[2] # Torn
    BY <1>1, CacheAssumption DEF CacheTypes, Torn
  <2> QED
    BY <1>1, <2>1, <2>2 DEF Stored, _read_envelope, cache_key
<1> DEFINE s == [run[r] EXCEPT !.pc = "asked"]
<1>3. s \in RunStates /\ s.pc = "asked" /\ s.day = run[r].day /\ s.tick = run[r].tick /\ s.prior = run[r].prior
  BY <1>1 DEF RunStates, Walking, Asking
<1>4. run' = [run EXCEPT ![r] = s]
  BY <1>1
<1> HIDE DEF s
<1>5. run'[r] = s /\ s # Absent
  BY <1>1, <1>3, <1>4, CacheAssumption DEF CacheTypes
<1>6. OnItsWay(r)' /\ Context(r)' = Context(r)
  BY <1>1, <1>3, <1>5 DEF OnItsWay, TickBefore, Context
<1>7. /\ FileTypes' => CacheTypes'
      /\ \A q \in Runs \ {r} : run'[q] = run[q]
      /\ \A q \in Runs : OnItsWay(q)' /\ Chained(q)' /\ KnownChained(q)' /\ AsKnown(q)'
  BY <1>1, <1>3, <1>4, <1>6, Moves
<1>8. FileTypes'
  BY <1>1 DEF CacheTypes, FileTypes
<1>9. \A q \in Runs : \A j \in known'[q] : Stored(j[2])'
  BY <1>1, <1>2, <1>6, <1>7, StoredIdle
<1> QED
  BY <1>7, <1>8, <1>9 DEF CacheInv

LEMMA StepKilled ==
  ASSUME CacheInv, NEW r \in Runs, Killed(r)
  PROVE  CacheInv'
<1>1. /\ CacheTypes /\ run[r] # Absent /\ OnItsWay(r) /\ run[r] \in RunStates
      /\ run' = [run EXCEPT ![r].pc = "over"] /\ UNCHANGED <<name, tmp, file, taken, known>>
  BY DEF CacheInv, Killed, Under, CacheTypes
<1> DEFINE s == [run[r] EXCEPT !.pc = "over"]
<1>2. s \in RunStates /\ s.pc = "over"
  BY <1>1 DEF RunStates, Walking
<1>3. run' = [run EXCEPT ![r] = s]
  BY <1>1
<1> HIDE DEF s
<1>4. run'[r] = s /\ s # Absent
  BY <1>1, <1>2, <1>3, CacheAssumption DEF CacheTypes
<1>5. OnItsWay(r)'
  BY <1>2, <1>4 DEF OnItsWay
<1>6. /\ FileTypes' => CacheTypes'
      /\ \A q \in Runs \ {r} : run'[q] = run[q]
      /\ \A q \in Runs : OnItsWay(q)' /\ Chained(q)' /\ KnownChained(q)' /\ AsKnown(q)'
  BY <1>1, <1>2, <1>3, <1>5, Moves
<1>7. FileTypes'
  BY <1>1 DEF CacheTypes, FileTypes
<1>8. run'[r].pc \notin Asking
  BY <1>2, <1>4 DEF Asking
<1>9. \A q \in Runs : \A j \in known'[q] : Stored(j[2])'
  BY <1>1, <1>6, <1>8, StoredIdle
<1> QED
  BY <1>6, <1>7, <1>9 DEF CacheInv

LEMMA StepFails ==
  ASSUME CacheInv, NEW r \in Runs, CallFails(r)
  PROVE  CacheInv'
<1>1. /\ CacheTypes /\ run[r] # Absent /\ run[r].pc \in Asking
      /\ Decided(r, <<Context(r), ApiFailure>>, TRUE) /\ UNCHANGED <<name, tmp, file, known>>
  BY DEF CacheInv, CallFails, At, Asking
<1>2. <<Context(r), ApiFailure>> \in {Context(r)} \X Outcomes
  BY DEF Outcomes
<1>3. FileTypes'
  BY <1>1 DEF CacheTypes, FileTypes
<1> QED
  BY <1>1, <1>2, <1>3, AskedDecides

\* What is opened, emptied or written is the file of a context nobody knows.
LEMMA StepAnswers ==
  ASSUME CacheInv, NEW r \in Runs, NEW decision \in Decisions, CallAnswers(r, decision)
  PROVE  CacheInv'
<1> DEFINE k == Context(r)
           owner == IF k \in DOMAIN tmp THEN tmp[k] ELSE r
           answer == <<owner, <<k, decision>>>>
           s == [run[r] EXCEPT !.pc = "open", !.answer = answer]
<1>1. /\ CacheTypes /\ run[r] # Absent /\ run[r].pc = "asked" /\ OnItsWay(r) /\ run[r] \in RunStates
      /\ UNCHANGED <<name, taken, known>>
  BY DEF CacheInv, CallAnswers, At, CacheTypes
<1>2. tmp' = With(tmp, k, owner) /\ file' = With(file, <<owner, k>>, Torn)
  BY DEF CallAnswers, cache_key
<1>3. run' = [run EXCEPT ![r] = s]
  BY DEF CallAnswers, cache_key
<1>4. owner \in Runs /\ k \in Contexts
  BY <1>1, ContextIsTyped DEF CacheTypes
<1>5. s \in RunStates /\ s.pc = "open" /\ s.day = run[r].day /\ s.tick = run[r].tick /\ s.prior = run[r].prior
      /\ s.answer = answer
  BY <1>1, <1>4 DEF RunStates, Walking, Asking
<1> HIDE DEF s
<1>6. run'[r] = s /\ s # Absent
  BY <1>1, <1>3, <1>5, CacheAssumption DEF CacheTypes
<1>7. Context(r)' = k
  BY <1>5, <1>6 DEF Context
<1>8. OnItsWay(r)'
  <2>1. run'[r].answer \in Runs \X ({Context(r)'} \X Decisions)
    BY <1>4, <1>5, <1>6, <1>7
  <2> HIDE DEF k, answer
  <2> QED
    BY <1>1, <1>5, <1>6, <2>1 DEF OnItsWay, TickBefore
<1> HIDE DEF k, owner, answer
<1>9. /\ DOMAIN file' = DOMAIN file \cup {<<owner, k>>} /\ file'[<<owner, k>>] = Torn
      /\ \A f \in DOMAIN file : f # <<owner, k>> => file'[f] = file[f]
  BY <1>2 DEF With
<1>10. /\ DOMAIN tmp' = DOMAIN tmp \cup {k} /\ tmp'[k] = owner
       /\ \A c \in DOMAIN tmp : c # k => tmp'[c] = tmp[c]
  BY <1>2 DEF With
<1>11. FileTypes'
  <2>1. \A c \in DOMAIN name' : <<name'[c], c>> \in DOMAIN file'
    BY <1>1, <1>9 DEF CacheTypes
  <2>2. \A c \in DOMAIN tmp' : <<tmp'[c], c>> \in DOMAIN file' /\ tmp'[c] \in Runs
    BY <1>1, <1>4, <1>9, <1>10 DEF CacheTypes
  <2>3. \A f \in DOMAIN file' : f \in Runs \X Contexts /\ file'[f] \in {Torn} \cup {f[2]} \X Decisions
    BY <1>1, <1>4, <1>9 DEF CacheTypes
  <2> QED
    BY <2>1, <2>2, <2>3 DEF FileTypes
<1>12. /\ FileTypes' => CacheTypes'
       /\ \A q \in Runs \ {r} : run'[q] = run[q]
       /\ \A q \in Runs : OnItsWay(q)' /\ Chained(q)' /\ KnownChained(q)' /\ AsKnown(q)'
  BY <1>1, <1>3, <1>5, <1>8, Moves
<1>13. \A q \in Runs : \A j \in known[q] : j[2][1] # k
  BY <1>1 DEF CacheInv, Stored, Asking, k
<1>14. \A f \in DOMAIN file : f[2] # k => f \in DOMAIN file' /\ file'[f] = file[f]
  BY <1>9
<1>15. \A q \in Runs : \A j \in known'[q] : Stored(j[2])'
  BY <1>1, <1>7, <1>12, <1>13, <1>14, StoredStays
<1> QED
  BY <1>11, <1>12, <1>15 DEF CacheInv

LEMMA StepWrite ==
  ASSUME CacheInv, NEW r \in Runs, Write(r)
  PROVE  CacheInv'
<1> DEFINE k == Context(r)
           owner == run[r].answer[1]
           s == [run[r] EXCEPT !.pc = "written"]
<1>1. /\ CacheTypes /\ run[r] # Absent /\ run[r].pc = "open" /\ OnItsWay(r) /\ run[r] \in RunStates
      /\ run[r].answer \in Runs \X ({k} \X Decisions)
      /\ UNCHANGED <<name, tmp, taken, known>>
  BY DEF CacheInv, Write, At, CacheTypes, OnItsWay
<1>2. file' = With(file, <<owner, k>>, run[r].answer[2])
  BY DEF Write, cache_key
<1>3. run' = [run EXCEPT ![r] = s]
  BY DEF Write
<1>4. owner \in Runs /\ k \in Contexts /\ run[r].answer[2] \in {k} \X Decisions
  BY <1>1, ContextIsTyped DEF CacheTypes
<1>5. s \in RunStates /\ s.pc = "written" /\ s.day = run[r].day /\ s.tick = run[r].tick /\ s.prior = run[r].prior
      /\ s.answer = run[r].answer
  BY <1>1 DEF RunStates, Walking, Asking
<1> HIDE DEF s
<1>6. run'[r] = s /\ s # Absent
  BY <1>1, <1>3, <1>5, CacheAssumption DEF CacheTypes
<1>7. Context(r)' = k
  BY <1>5, <1>6 DEF Context
<1>8. OnItsWay(r)'
  <2>1. run'[r].answer \in Runs \X ({Context(r)'} \X Decisions)
    BY <1>1, <1>5, <1>6, <1>7
  <2> HIDE DEF k
  <2> QED
    BY <1>1, <1>5, <1>6, <2>1 DEF OnItsWay, TickBefore
<1> DEFINE text == run[r].answer[2]
<1> HIDE DEF k, owner, text
<1>9. /\ DOMAIN file' = DOMAIN file \cup {<<owner, k>>} /\ file'[<<owner, k>>] = text
      /\ \A f \in DOMAIN file : f # <<owner, k>> => file'[f] = file[f]
  BY <1>2 DEF With, text
<1>10. FileTypes'
  <2>1. \A c \in DOMAIN name' : <<name'[c], c>> \in DOMAIN file'
    BY <1>1, <1>9 DEF CacheTypes
  <2>2. \A c \in DOMAIN tmp' : <<tmp'[c], c>> \in DOMAIN file' /\ tmp'[c] \in Runs
    BY <1>1, <1>9 DEF CacheTypes
  <2>3. \A f \in DOMAIN file' : f \in Runs \X Contexts /\ file'[f] \in {Torn} \cup {f[2]} \X Decisions
    BY <1>1, <1>4, <1>9 DEF CacheTypes, text
  <2> QED
    BY <2>1, <2>2, <2>3 DEF FileTypes
<1>11. /\ FileTypes' => CacheTypes'
       /\ \A q \in Runs \ {r} : run'[q] = run[q]
       /\ \A q \in Runs : OnItsWay(q)' /\ Chained(q)' /\ KnownChained(q)' /\ AsKnown(q)'
  BY <1>1, <1>3, <1>5, <1>8, Moves
<1>12. \A q \in Runs : \A j \in known[q] : j[2][1] # k
  BY <1>1 DEF CacheInv, Stored, Asking, k
<1>13. \A f \in DOMAIN file : f[2] # k => f \in DOMAIN file' /\ file'[f] = file[f]
  BY <1>9
<1>14. \A q \in Runs : \A j \in known'[q] : Stored(j[2])'
  BY <1>1, <1>7, <1>11, <1>12, <1>13, StoredStays
<1> QED
  BY <1>10, <1>11, <1>14 DEF CacheInv

\* The temporary name goes, with or without the file.
LEMMA StepReplace ==
  ASSUME CacheInv, NEW r \in Runs, Replace(r) \/ ReplaceFails(r)
  PROVE  CacheInv'
<1> DEFINE k == Context(r)
<1>1. /\ CacheTypes /\ run[r] # Absent /\ run[r].pc \in {"open", "written"} /\ OnItsWay(r)
      /\ known' = known /\ file' = file /\ Decided(r, run[r].answer[2], TRUE)
      /\ tmp' = Without(tmp, k)
      /\ name' = name \/ (k \in DOMAIN tmp /\ name' = With(name, k, tmp[k]))
  BY DEF CacheInv, Replace, ReplaceFails, At, cache_key
<1>2. run[r].answer[2] \in {k} \X Outcomes
  BY <1>1 DEF OnItsWay, Outcomes
<1>3. /\ DOMAIN tmp' = DOMAIN tmp \ {k}
      /\ \A c \in DOMAIN tmp' : tmp'[c] = tmp[c]
  BY <1>1 DEF Without
<1>4. CASE name' = name
  <2>1. FileTypes'
    BY <1>1, <1>3, <1>4 DEF CacheTypes, FileTypes
  <2> QED
    BY <1>1, <1>2, <1>4, <2>1, AskedDecides DEF Asking
<1>5. CASE k \in DOMAIN tmp /\ name' = With(name, k, tmp[k])
  <2>1. /\ DOMAIN name' = DOMAIN name \cup {k} /\ name'[k] = tmp[k]
        /\ \A c \in DOMAIN name \ {k} : c \in DOMAIN name' /\ name'[c] = name[c]
    BY <1>5 DEF With
  <2>2. <<tmp[k], k>> \in DOMAIN file
    BY <1>1, <1>5 DEF CacheTypes
  <2>3. \A c \in DOMAIN name' : <<name'[c], c>> \in DOMAIN file'
    BY <1>1, <2>1, <2>2 DEF CacheTypes
  <2>4. FileTypes'
    BY <1>1, <1>3, <2>3 DEF CacheTypes, FileTypes
  <2> QED
    BY <1>1, <1>2, <2>1, <2>4, AskedDecides DEF Asking
<1> QED
  BY <1>1, <1>4, <1>5

LEMMA InitCache == CacheInit => CacheInv
<1> SUFFICES ASSUME CacheInit PROVE CacheInv
  OBVIOUS
<1>1. /\ run = [r \in Runs |-> Absent] /\ taken = [r \in Runs |-> << >>] /\ known = [r \in Runs |-> {}]
      /\ name = << >> /\ tmp = << >> /\ file = << >>
  BY DEF CacheInit
<1>2. DOMAIN << >> = {}
  OBVIOUS
<1>3. CacheTypes
  BY <1>1, <1>2 DEF CacheTypes
<1>4. \A r \in Runs : OnItsWay(r) /\ Chained(r) /\ KnownChained(r) /\ AsKnown(r)
  BY <1>1, <1>2 DEF OnItsWay, Chained, KnownChained, AsKnown
<1> QED
  BY <1>1, <1>3, <1>4 DEF CacheInv

LEMMA StepCache == CacheInv /\ [CacheNext]_cacheVars => CacheInv'
<1> SUFFICES ASSUME CacheInv, [CacheNext]_cacheVars PROVE CacheInv'
  OBVIOUS
<1>1. CASE UNCHANGED cacheVars
  <2>1. CacheTypes'
    BY <1>1 DEF cacheVars, CacheInv, CacheTypes
  <2>2. \A r \in Runs : OnItsWay(r)' /\ Chained(r)' /\ KnownChained(r)' /\ AsKnown(r)'
    BY <1>1 DEF cacheVars, CacheInv, OnItsWay, Chained, KnownChained, AsKnown, Context
  <2>3. \A r \in Runs : \A k \in known'[r] : Stored(k[2])'
    BY <1>1 DEF cacheVars, CacheInv, Stored, Context
  <2> QED
    BY <2>1, <2>2, <2>3 DEF CacheInv
<1>2. CASE CacheNext
  BY <1>2, StepBegins, StepDay, StepHit, StepMiss, StepFails, StepAnswers, StepWrite,
     StepReplace, StepKilled DEF CacheNext
<1> QED
  BY <1>1, <1>2

\* Whatever two runs do to the files at once, a decision is one made for its
\* context, and a rerun alone decides what was stored and pays nothing for it.
THEOREM RerunsPayNothing == CacheSpec => []RerunsAgree
<1>1. CacheInv => RerunsAgree
  <2> SUFFICES ASSUME CacheInv PROVE RerunsAgree
    OBVIOUS
  <2>1. \A r \in Runs : Chained(r) /\ AsKnown(r)
    BY DEF CacheInv
  <2> QED
    BY <2>1 DEF RerunsAgree, Chained, AsKnown
<1>2. CacheSpec => []CacheInv
  BY InitCache, StepCache, PTL DEF CacheSpec
<1> QED
  BY <1>1, <1>2, PTL

-----------------------------------------------------------------------------
(* The results database.                                                   *)

Sources == {"live_merged", "base", "t3_only"}
Portfolios == {"live_merged", "base"}
Verdicts == T1Verdicts \cup T3Verdicts \cup BaseVerdicts
Profits == {NoFill, -1, 2}

Called(t3) == {s \in DOMAIN t3 : t3[s] # NoFill}

\* The rows and the points of all runs.
RowsTyped ==
  /\ IsFiniteSet(results)
  /\ \A d \in results :
       /\ d.run \in Nat /\ d.run <= replay.run /\ d.day \in 1 .. ReportDays /\ d.slot \in Slots
       /\ d.source \in Sources /\ d.verdict \in Verdicts
       /\ d.regime = RegimeOf[d.day] /\ d.pl \in Profits
  /\ \A c \in curve : c.run \in Nat /\ c.run <= replay.run /\ c.day \in Nat
  /\ \A r \in DOMAIN summaries : r \in Nat /\ r <= replay.run
  /\ replay.run \in Nat /\ replay.labels \in BOOLEAN /\ replay.base \in BOOLEAN
  /\ replay.pc \in {"over", "day", "label", "base", "write", "done"}
  /\ DOMAIN replay = {"run", "pc", "days", "of", "sampled", "labels", "base", "skipped", "spent"}
  /\ DOMAIN replay.of = {"live", "t3", "base", "day"}
  /\ DOMAIN budget = {"used", "calls", "overBudget", "unsampled"}

\* The day in hand of the run under way.
InHand ==
  replay.pc # "over" =>
    /\ replay.days \in 1 .. ReportDays /\ replay.run \notin DOMAIN summaries
    /\ replay.of.day \in 1 .. replay.days + 1
    /\ replay.of.day = replay.days + 1 <=> replay.pc = "done"
    /\ \A d \in results : d.run = replay.run => d.day < replay.of.day
    /\ \A c \in curve : c.run = replay.run => c.day < replay.of.day
    /\ DOMAIN replay.of.live \subseteq Slots
    /\ \A s \in DOMAIN replay.of.live : replay.of.live[s] \in T1Verdicts
    /\ DOMAIN replay.of.t3 \subseteq DOMAIN replay.of.live
    /\ \A s \in DOMAIN replay.of.t3 : replay.of.t3[s] \in T3Verdicts \cup {NoFill}
    /\ DOMAIN replay.of.base \subseteq Slots
    /\ \A s \in DOMAIN replay.of.base : replay.of.base[s] \in BaseVerdicts
    /\ replay.pc = "label" => replay.labels
    /\ replay.pc \in {"day", "done"} => DOMAIN replay.of.live = {}
    /\ replay.pc # "write" => DOMAIN replay.of.base = {}
    /\ ~replay.base => DOMAIN replay.of.base = {}
    /\ replay.labels /\ replay.pc \in {"base", "write"} => DOMAIN replay.of.t3 = DOMAIN replay.of.live
    /\ ~replay.labels => DOMAIN replay.of.t3 = {}

\* What the budget counts are the rows written and the labels of the day.
Counted ==
  /\ budget.used \in Nat /\ budget.calls \in Nat /\ budget.overBudget \in Nat /\ budget.unsampled \in Nat
  /\ budget.used <= CapDollars /\ budget.used = PerCall * budget.calls
  /\ budget.overBudget > 0 => budget.used + PerCall > CapDollars
  /\ replay.pc # "over" =>
       /\ budget.calls = Cardinality(RowsOf(replay.run, "t3_only")) + Cardinality(Called(replay.of.t3))
       /\ IF replay.labels
          THEN budget.calls + budget.overBudget + budget.unsampled =
                 Cardinality(RowsOf(replay.run, "live_merged")) + Cardinality(DOMAIN replay.of.t3)
          ELSE budget.calls = 0 /\ budget.overBudget = 0 /\ budget.unsampled = 0

\* What a summary says of its run.
Summed ==
  \A r \in DOMAIN summaries :
    LET t3 == summaries[r].t3
    IN  /\ t3.calls = Cardinality(RowsOf(r, "t3_only"))
        /\ t3.calls + t3.overBudget + t3.unsampled > 0 =>
              t3.calls + t3.overBudget + t3.unsampled = Cardinality(RowsOf(r, "live_merged"))
        /\ t3.overBudget > 0 => t3.used + PerCall > CapDollars

\* The last point of a portfolio has the profit of its rows.
PointsOf(r, source) == {c \in curve : c.run = r /\ c.name = NameOf(source)}
Even(r, source) ==
  IF PointsOf(r, source) = {} THEN RowsOf(r, source) = {}
  ELSE \E c \in PointsOf(r, source) :
         /\ \A e \in PointsOf(r, source) : e = c \/ e.day < c.day
         /\ c.equity = StartCash + Profit(RowsOf(r, source))

\* A label stands on a slot that tier 1 judged.
LabelsStand ==
  \A t3 \in results : t3.source = "t3_only" =>
    \E t1 \in results : /\ t1.source = "live_merged" /\ t1.run = t3.run
                        /\ t1.day = t3.day /\ t1.slot = t3.slot

ReportInv ==
  /\ RowsTyped /\ InHand /\ Counted /\ Summed /\ LabelsStand
  /\ \A r \in Nat, source \in Portfolios : Even(r, source)

-----------------------------------------------------------------------------
(* The profit of rows.                                                     *)

Worth(D) == [d \in D |-> IF d.pl = NoFill THEN 0 ELSE d.pl]

LEMMA WorthIsInt ==
  ASSUME NEW D, \A d \in D : d.pl \in Profits
  PROVE  Worth(D) \in [D -> Int]
BY DEF Worth, Profits

\* A profit is the sum of what the rows are worth.
LEMMA ProfitOf ==
  ASSUME NEW D, IsFiniteSet(D), \A d \in D : d.pl \in Profits, NEW S \in SUBSET D
  PROVE  Profit(S) = SumFunctionOnSet(Worth(D), S) /\ Profit(S) \in Int
<1> DEFINE filled == {e \in S : e.pl # NoFill}
           f == [d \in filled |-> d.pl]
           w == Worth(D)
<1>1. filled \in SUBSET D /\ filled \in SUBSET S /\ S \ filled \in SUBSET D
  OBVIOUS
<1>2. w \in [D -> Int]
  BY WorthIsInt
<1>3. f \in [filled -> Int] /\ \A d \in filled : f[d] = w[d]
  BY DEF Worth, Profits
<1>4. \A d \in S \ filled : w[d] = 0
  BY DEF Worth
<1>5. IsFiniteSet(filled)
  BY <1>1, FS_Subset
<1>6. Profit(S) = SumFunctionOnSet(f, filled)
  BY DEF Profit, SumFunction
<1> HIDE DEF filled, f, w
<1>7. SumFunctionOnSet(f, filled) = SumFunctionOnSet(w, filled)
  BY <1>1, <1>2, <1>3, <1>5, SumAcross
<1>8. SumFunctionOnSet(w, S) = SumFunctionOnSet(w, filled) + SumFunctionOnSet(w, S \ filled)
  BY <1>1, <1>2, SumSplit
<1>9. SumFunctionOnSet(w, S \ filled) = 0 /\ SumFunctionOnSet(w, S) \in Int /\ SumFunctionOnSet(w, filled) \in Int
  BY <1>1, <1>2, <1>4, SumOfZeros, SumStep
<1> QED
  BY <1>6, <1>7, <1>8, <1>9 DEF w

\* The profits of two sets without a common row add up.
LEMMA ProfitAdds ==
  ASSUME NEW S, IsFiniteSet(S), NEW T, IsFiniteSet(T), S \cap T = {},
         \A d \in S \cup T : d.pl \in Profits
  PROVE  Profit(S \cup T) = Profit(S) + Profit(T)
<1> DEFINE D == S \cup T
<1>1. IsFiniteSet(D) /\ S \in SUBSET D /\ T \in SUBSET D /\ D \in SUBSET D /\ D \ S = T
  BY FS_Union
<1>2. Worth(D) \in [D -> Int]
  BY WorthIsInt
<1> HIDE DEF D
<1>3. SumFunctionOnSet(Worth(D), D) = SumFunctionOnSet(Worth(D), S) + SumFunctionOnSet(Worth(D), T)
  BY <1>1, <1>2, SumSplit
<1>4. \A d \in D : d.pl \in Profits
  BY DEF D
<1>5. /\ Profit(S) = SumFunctionOnSet(Worth(D), S)
      /\ Profit(T) = SumFunctionOnSet(Worth(D), T)
      /\ Profit(D) = SumFunctionOnSet(Worth(D), D)
  BY <1>1, <1>4, ProfitOf
<1> QED
  BY <1>3, <1>5 DEF D

\* The profit of rows, regime by regime.
LEMMA RegimesAddUp ==
  ASSUME NEW S, IsFiniteSet(S), \A d \in S : d.pl \in Profits,
         NEW C, IsFiniteSet(C), \A d \in S : d.regime \in C
  PROVE  SumFunction([c \in C |-> Profit({d \in S : d.regime = c})]) = Profit(S)
<1> DEFINE g == [c \in C |-> Profit({d \in S : d.regime = c})]
           with == [c \in C |-> {d \in S : d.regime = c}]
           w == Worth(S)
<1>1. w \in [S -> Int] /\ Parts(S, C, with) /\ S \in SUBSET S
  BY WorthIsInt DEF Parts
<1>2. ASSUME NEW c \in C PROVE Profit(with[c]) = SumFunctionOnSet(w, with[c]) /\ Profit(with[c]) \in Int
  <2>1. with[c] \in SUBSET S
    OBVIOUS
  <2> HIDE DEF with
  <2> QED
    BY <2>1, ProfitOf
<1>3. \A c \in C : g[c] = Profit(with[c])
  OBVIOUS
<1>4. SumsOfParts(g, w, C, with) /\ DOMAIN g = C
  <2> HIDE DEF w, with
  <2> QED
    BY <1>2, <1>3 DEF SumsOfParts
<1>5. g \in [C -> Int]
  BY <1>2
<1>6. Profit(S) = SumFunctionOnSet(w, S)
  BY <1>1, ProfitOf
<1> HIDE DEF g, with, w
<1>7. SumFunctionOnSet(g, C) = SumFunctionOnSet(w, S)
  BY <1>1, <1>4, <1>5, SumByParts
<1> QED
  BY <1>4, <1>6, <1>7 DEF SumFunction, g

-----------------------------------------------------------------------------
(* What the invariant says of a report.                                    *)

LEMMA RowsAreFinite ==
  ASSUME RowsTyped, NEW r, NEW source
  PROVE  RowsOf(r, source) \in SUBSET results /\ IsFiniteSet(RowsOf(r, source))
         /\ Cardinality(RowsOf(r, source)) \in Nat
<1>1. RowsOf(r, source) \in SUBSET results
  BY DEF RowsOf
<1>2. IsFiniteSet(RowsOf(r, source))
  BY <1>1, FS_Subset DEF RowsTyped
<1> QED
  BY <1>1, <1>2, FS_CardinalityType

LEMMA EquityIsProfit ==
  ASSUME ReportInv, NEW r \in Nat, NEW source \in Portfolios
  PROVE  LastEquity(r, NameOf(source)) = StartCash + Profit(RowsOf(r, source))
<1>1. Even(r, source) /\ StartCash \in Int
  BY ReportAssumption DEF ReportInv
<1>2. CASE PointsOf(r, source) = {}
  <2>1. RowsOf(r, source) = {}
    BY <1>1, <1>2 DEF Even
  <2>2. Profit({}) = 0
    <3>1. \A d \in {} : d.pl \in Profits
      OBVIOUS
    <3>2. Worth({}) \in [{} -> Int] /\ IsFiniteSet({}) /\ {} \in SUBSET {}
      BY WorthIsInt, FS_EmptySet
    <3>3. SumFunctionOnSet(Worth({}), {}) = 0
      BY <3>2, SumStep
    <3> QED
      BY <3>1, <3>2, <3>3, ProfitOf
  <2>3. LastEquity(r, NameOf(source)) = StartCash
    BY <1>2 DEF LastEquity, PointsOf
  <2> QED
    BY <1>1, <2>1, <2>2, <2>3
<1>3. CASE PointsOf(r, source) # {}
  <2>1. PICK c \in PointsOf(r, source) :
          /\ \A e \in PointsOf(r, source) : e = c \/ e.day < c.day
          /\ c.equity = StartCash + Profit(RowsOf(r, source))
    BY <1>1, <1>3 DEF Even
  <2>2. \A e \in PointsOf(r, source) : e.day \in Nat
    BY DEF ReportInv, RowsTyped, PointsOf
  <2>3. \A e \in PointsOf(r, source) : e.day <= c.day
    BY <2>1, <2>2
  <2>4. ASSUME NEW x \in PointsOf(r, source), \A e \in PointsOf(r, source) : e.day <= x.day
        PROVE  x = c
    BY <2>1, <2>2, <2>4
  <2> DEFINE last == CHOOSE x \in PointsOf(r, source) : \A e \in PointsOf(r, source) : e.day <= x.day
  <2>5. last = c
    BY <2>3, <2>4
  <2>6. LastEquity(r, NameOf(source)) = last.equity
    BY <1>3 DEF LastEquity, PointsOf
  <2> QED
    BY <2>1, <2>5, <2>6
<1> QED
  BY <1>2, <1>3

LEMMA ActionsAreFew == IsFiniteSet(Actions)
<1>1. IsFiniteSet({}) /\ Actions = (({} \cup {"Buy"}) \cup {"Sell"}) \cup {"Hold"}
  BY FS_EmptySet DEF Actions
<1> QED
  BY <1>1, FS_AddElement

\* What all rows of a run are counted to by their actions.
LEMMA ActionsAddUp ==
  ASSUME RowsTyped, NEW r, NEW source
  PROVE  SumFunction(_section_2_decision_summary(r, source)) = Cardinality(RowsOf(r, source))
<1> DEFINE S == RowsOf(r, source)
           key == [d \in S |-> d.verdict.action]
<1>1. IsFiniteSet(S) /\ \A d \in S : d.verdict \in Verdicts
  BY RowsAreFinite DEF RowsTyped
<1>2. \A d \in S : key[d] \in Actions
  BY <1>1 DEF Verdicts, T1Verdicts, T3Verdicts, BaseVerdicts, Verdict_, Actions
<1>3. IsFiniteSet(Actions)
  BY ActionsAreFew
<1>4. \A a \in Actions : {d \in S : d.verdict.action = a} = {d \in S : key[d] = a}
  OBVIOUS
<1>5. _section_2_decision_summary(r, source) = [a \in Actions |-> Cardinality({d \in S : key[d] = a})]
  BY <1>4 DEF _section_2_decision_summary
<1> HIDE DEF S, key
<1> QED
  BY <1>1, <1>2, <1>3, <1>5, CountByKeys DEF S

\* The pairs of the matrix: as many as its cells say, and on the diagonal as
\* many as the two bands of confidence.
LEMMA MatrixAddsUp ==
  ASSUME RowsTyped, NEW r
  PROVE  LET pairs == _section_5d_tier_agreement(r)
         IN  /\ SumFunction(Matrix(r)) = Cardinality(pairs)
             /\ Cardinality(Agreeing(Band(r, TRUE))) + Cardinality(Agreeing(Band(r, FALSE)))
                  = SumFunction([action \in Actions |-> Matrix(r)[<<action, action>>]])
<1> DEFINE P == _section_5d_tier_agreement(r)
           Q == Agreeing(P)
           cells == Actions \X Actions
<1>1. P \in SUBSET (RowsOf(r, "live_merged") \X RowsOf(r, "t3_only"))
  BY DEF _section_5d_tier_agreement
<1>2. IsFiniteSet(P)
  BY <1>1, RowsAreFinite, FS_Product, FS_Subset
<1>3. \A p \in P : p[1] \in results /\ p[2] \in results
  BY <1>1, RowsAreFinite
<1>4. \A p \in P : /\ p[1].verdict.action \in Actions /\ p[2].verdict.action \in Actions
                   /\ p[1].verdict.high \in BOOLEAN
  <2>1. \A v \in Verdicts : v.action \in Actions /\ v.high \in BOOLEAN
    <3> SUFFICES ASSUME NEW v \in Verdicts PROVE v.action \in Actions /\ v.high \in BOOLEAN
      OBVIOUS
    <3>1. v.action \in Actions
      BY DEF Verdicts, T1Verdicts, T3Verdicts, BaseVerdicts, Verdict_, Actions
    <3>2. v.high \in BOOLEAN
      <4>1. \E action, high, failed : high \in BOOLEAN /\ v = Verdict_(action, high, failed)
        BY Zenon DEF Verdicts, T1Verdicts, T3Verdicts, BaseVerdicts
      <4>2. \A action, high, failed : Verdict_(action, high, failed).high = high
        BY DEF Verdict_
      <4>3. PICK action, high, failed : high \in BOOLEAN /\ v = Verdict_(action, high, failed)
        BY <4>1
      <4>4. v.high = high
        BY <4>2, <4>3, Zenon
      <4> QED
        BY <4>3, <4>4, Zenon
    <3> QED
      BY <3>1, <3>2
  <2> QED
    BY <1>3, <2>1 DEF RowsTyped
<1>5. SumFunction(Matrix(r)) = Cardinality(P)
  <2> DEFINE key == [p \in P |-> <<p[1].verdict.action, p[2].verdict.action>>]
  <2>1. \A p \in P : key[p] \in cells
    BY <1>4
  <2>2. IsFiniteSet(cells)
    BY ActionsAreFew, FS_Product
  <2>3. \A cell \in cells : {p \in P : <<p[1].verdict.action, p[2].verdict.action>> = cell} = {p \in P : key[p] = cell}
    OBVIOUS
  <2>4. Matrix(r) = [cell \in cells |-> Cardinality({p \in P : key[p] = cell})]
    BY <2>3 DEF Matrix
  <2> HIDE DEF key, cells, P
  <2> QED
    BY <1>2, <2>1, <2>2, <2>4, CountByKeys
<1>6. IsFiniteSet(Q) /\ \A p \in Q : p \in P /\ p[1].verdict.action = p[2].verdict.action
  <2>1. Q \in SUBSET P /\ \A p \in Q : p[1].verdict.action = p[2].verdict.action
    BY DEF Agreeing
  <2> HIDE DEF P, Q
  <2> QED
    BY <1>2, <2>1, FS_Subset
<1>7. SumFunction([action \in Actions |-> Matrix(r)[<<action, action>>]]) = Cardinality(Q)
  <2> DEFINE key == [p \in Q |-> p[1].verdict.action]
  <2>1. \A p \in Q : key[p] \in Actions
    BY <1>4, <1>6
  <2>2. ASSUME NEW a \in Actions
        PROVE  Matrix(r)[<<a, a>>] = Cardinality({p \in Q : key[p] = a})
    <3>1. Matrix(r)[<<a, a>>] = Cardinality({p \in P : <<p[1].verdict.action, p[2].verdict.action>> = <<a, a>>})
      BY DEF Matrix
    <3>2. {p \in P : <<p[1].verdict.action, p[2].verdict.action>> = <<a, a>>} = {p \in Q : key[p] = a}
      <4> HIDE DEF P
      <4> QED
        BY DEF Agreeing
    <3> QED
      BY <3>1, <3>2
  <2>3. [action \in Actions |-> Matrix(r)[<<action, action>>]] = [a \in Actions |-> Cardinality({p \in Q : key[p] = a})]
    BY <2>2
  <2>4. SumFunction([a \in Actions |-> Cardinality({p \in Q : key[p] = a})]) = Cardinality(Q)
    <3> HIDE DEF key, P, Q
    <3> QED
      BY <1>6, <2>1, ActionsAreFew, CountByKeys
  <2> HIDE DEF key, P, Q
  <2> QED
    BY <2>3, <2>4, Zenon
<1>8. Cardinality(Agreeing(Band(r, TRUE))) + Cardinality(Agreeing(Band(r, FALSE))) = Cardinality(Q)
  <2> DEFINE A == Agreeing(Band(r, TRUE))
             B == Agreeing(Band(r, FALSE))
  <2>1. A \cap B = {} /\ A \cup B = Q /\ A \in SUBSET Q /\ B \in SUBSET Q
    <3> HIDE DEF P
    <3> QED
      BY <1>4 DEF Agreeing, Band, P
  <2>2. IsFiniteSet(A) /\ IsFiniteSet(B)
    <3> HIDE DEF A, B, P, Q
    <3> QED
      BY <1>6, <2>1, FS_Subset
  <2> HIDE DEF A, B, P, Q
  <2>3. Cardinality(A \cup B) = Cardinality(A) + Cardinality(B)
    BY <2>1, <2>2, DisjointSize
  <2> QED
    BY <2>1, <2>3 DEF A, B
<1> QED
  BY <1>5, <1>7, <1>8

\* The invariant implies what the reports show.
LEMMA TheReportTells == ReportInv => ReportTellsTheRun
<1> SUFFICES ASSUME ReportInv PROVE ReportTellsTheRun
  OBVIOUS
<1>1. RowsTyped /\ Counted /\ Summed /\ LabelsStand
  BY DEF ReportInv
<1>2. LabelsAreAccounted
  <2>1. \A r \in DOMAIN summaries :
           SumFunction(_section_2_decision_summary(r, "live_merged")) = Cardinality(RowsOf(r, "live_merged"))
    BY <1>1, ActionsAddUp
  <2> QED
    BY <1>1, <2>1 DEF LabelsAreAccounted, Counted, Summed
<1>3. ASSUME NEW r \in RunsStarted PROVE SectionsAgree(r)
  <2>1. r \in Nat
    BY <1>1 DEF RunsStarted, RowsTyped
  <2>2. ASSUME NEW source \in Portfolios
        PROVE  /\ LastEquity(r, NameOf(source)) - StartCash = _portfolio_section(r, NameOf(source))
               /\ SumFunction(_section_5b_regime_stratified(r, source)) = _portfolio_section(r, NameOf(source))
    <3> DEFINE S == RowsOf(r, source)
               C == {RegimeOf[n] : n \in 1 .. ReportDays}
    <3>1. _portfolio_section(r, NameOf(source)) = Profit(S)
      BY DEF _portfolio_section, NameOf, Portfolios
    <3>2. IsFiniteSet(S) /\ (\A d \in S : d.pl \in Profits) /\ S \in SUBSET S
          /\ \A d \in S : d.day \in 1 .. ReportDays /\ d.regime = RegimeOf[d.day]
      BY <1>1, RowsAreFinite DEF RowsTyped
    <3>3. Profit(S) \in Int /\ StartCash \in Int
      BY <3>2, ProfitOf, ReportAssumption
    <3>4. LastEquity(r, NameOf(source)) = StartCash + Profit(S)
      BY <2>1, EquityIsProfit
    <3>5. IsFiniteSet(C)
      <4> DEFINE f == [n \in 1 .. ReportDays |-> RegimeOf[n]]
      <4>1. f \in [1 .. ReportDays -> C] /\ \A y \in C : \E x \in 1 .. ReportDays : f[x] = y
        OBVIOUS
      <4>2. IsFiniteSet(1 .. ReportDays)
        BY FS_Interval, ReportAssumption
      <4> HIDE DEF f, C
      <4> QED
        BY <4>1, <4>2, OntoSize
    <3>6. \A d \in S : d.regime \in C
      BY <3>2
    <3>7. _section_5b_regime_stratified(r, source) = [c \in C |-> Profit({d \in S : d.regime = c})]
      BY DEF _section_5b_regime_stratified
    <3>8. SumFunction(_section_5b_regime_stratified(r, source)) = Profit(S)
      <4> HIDE DEF S, C
      <4> QED
        BY <3>2, <3>5, <3>6, <3>7, RegimesAddUp
    <3> HIDE DEF S
    <3> QED
      BY <3>1, <3>3, <3>4, <3>8
  <2>3. ASSUME NEW t3 \in RowsOf(r, "t3_only")
        PROVE  \E t1 \in RowsOf(r, "live_merged") :
                 /\ t1.day = t3.day /\ t1.slot = t3.slot
                 /\ <<t1, t3>> \in _section_5d_tier_agreement(r) <=> ~t1.verdict.failed /\ ~t3.verdict.failed
    <3>1. PICK t1 \in results : /\ t1.source = "live_merged" /\ t1.run = r
                                /\ t1.day = t3.day /\ t1.slot = t3.slot
      BY <1>1 DEF LabelsStand, RowsOf
    <3>2. t1 \in RowsOf(r, "live_merged")
      BY <3>1 DEF RowsOf
    <3>3. <<t1, t3>> \in _section_5d_tier_agreement(r) <=> ~t1.verdict.failed /\ ~t3.verdict.failed
      BY <3>1, <3>2 DEF _section_5d_tier_agreement
    <3> QED
      BY <3>1, <3>2, <3>3
  <2>4. ASSUME NEW t1 \in RowsOf(r, "live_merged"), NEW b \in RowsOf(r, "base"),
               t1.day = b.day, t1.slot = b.slot
        PROVE  <<t1, b>> \in _section_4_divergence(r) <=> t1.verdict.action # b.verdict.action
    <3>1. RowsOf(r, "base") # {} /\ b \in {d \in results : d.source = "base"}
      BY DEF RowsOf
    <3> QED
      BY <2>4, <3>1 DEF _section_4_divergence
  <2>5. ASSUME NEW p \in _section_4_divergence(r) \cup _section_7_top_decisions(r)
        PROVE  p[2].run = r \/ \E d \in results : d.run # r /\ d.day = p[1].day
    BY DEF _section_4_divergence, _section_7_top_decisions
  <2>6. /\ SumFunction(Matrix(r)) = Cardinality(_section_5d_tier_agreement(r))
        /\ Cardinality(Agreeing(Band(r, TRUE))) + Cardinality(Agreeing(Band(r, FALSE)))
             = SumFunction([action \in Actions |-> Matrix(r)[<<action, action>>]])
    BY <1>1, MatrixAddsUp
  <2> QED
    BY <2>2, <2>3, <2>4, <2>5, <2>6 DEF SectionsAgree, Portfolios
<1> QED
  BY <1>2, <1>3 DEF ReportTellsTheRun

-----------------------------------------------------------------------------
(* The steps that leave the tables alone.                                  *)

LEMMA FreshDay ==
  ASSUME NEW n
  PROVE  /\ DOMAIN DayOf(n).live = {} /\ DOMAIN DayOf(n).t3 = {} /\ DOMAIN DayOf(n).base = {}
         /\ DayOf(n).day = n /\ DOMAIN DayOf(n) = {"live", "t3", "base", "day"}
BY DEF DayOf

LEMMA Nothing == Cardinality({}) = 0 /\ IsFiniteSet({})
BY FS_EmptySet

\* What is about the tables stays true as long as they stay as they are.
LEMMA Unwritten ==
  ASSUME ReportInv, UNCHANGED <<results, curve>>
  PROVE  LabelsStand' /\ (summaries' = summaries => Summed')
         /\ \A r \in Nat, source \in Portfolios : Even(r, source)'
<1>1. \A r, source : RowsOf(r, source)' = RowsOf(r, source) /\ PointsOf(r, source)' = PointsOf(r, source)
  BY DEF RowsOf, PointsOf
<1>2. LabelsStand'
  BY DEF ReportInv, LabelsStand
<1>3. ASSUME summaries' = summaries PROVE Summed'
  BY <1>1, <1>3 DEF ReportInv, Summed
<1>4. \A r \in Nat, source \in Portfolios : Even(r, source)'
  BY <1>1 DEF ReportInv, Even
<1> QED
  BY <1>2, <1>3, <1>4

LEMMA InitReport == ReportInit => ReportInv
<1> SUFFICES ASSUME ReportInit PROVE ReportInv
  OBVIOUS
<1>1. RowsTyped
  BY FreshDay, Nothing DEF ReportInit, RowsTyped, T3Budget
<1>2. InHand
  BY DEF ReportInit, InHand
<1>3. Counted
  BY ReportAssumption DEF ReportInit, Counted, T3Budget
<1>4. Summed /\ LabelsStand
  BY DEF ReportInit, Summed, LabelsStand
<1>5. ASSUME NEW r \in Nat, NEW source \in Portfolios PROVE Even(r, source)
  BY DEF ReportInit, Even, PointsOf, RowsOf
<1> QED
  BY <1>1, <1>2, <1>3, <1>4, <1>5 DEF ReportInv

LEMMA StartRun ==
  ASSUME ReportInv, NEW days \in 1 .. ReportDays, NEW labels \in BOOLEAN, NEW base \in BOOLEAN,
         NEW sampled, start_run(days, labels, base, sampled)
  PROVE  ReportInv'
<1> USE DEF start_run
<1>1. /\ replay'.run = replay.run + 1 /\ replay'.pc = "day" /\ replay'.days = days
      /\ replay'.of = DayOf(1) /\ replay'.labels = labels /\ replay'.base = base
      /\ DOMAIN replay' = {"run", "pc", "days", "of", "sampled", "labels", "base", "skipped", "spent"}
  OBVIOUS
<1>2. RowsTyped'
  BY <1>1, FreshDay DEF ReportInv, RowsTyped, T3Budget
<1>3. /\ \A d \in results : d.run # replay'.run
      /\ \A c \in curve : c.run # replay'.run
      /\ replay'.run \notin DOMAIN summaries
  BY <1>1 DEF ReportInv, RowsTyped
<1>4. InHand'
  BY <1>1, <1>3, FreshDay, ReportAssumption DEF InHand
<1>5. Counted'
  <2>1. RowsOf(replay.run, "t3_only")' = {} /\ RowsOf(replay.run, "live_merged")' = {}
    BY <1>3 DEF RowsOf
  <2>2. Called(replay.of.t3)' = {} /\ DOMAIN replay'.of.t3 = {}
    BY <1>1, FreshDay DEF Called
  <2>3. budget'.used = 0 /\ budget'.calls = 0 /\ budget'.overBudget = 0 /\ budget'.unsampled = 0
    BY DEF T3Budget
  <2>4. 0 <= CapDollars /\ 0 = PerCall * 0
    BY ReportAssumption
  <2>5. /\ Cardinality(RowsOf(replay.run, "t3_only")') = 0 /\ Cardinality(Called(replay.of.t3)') = 0
        /\ Cardinality(RowsOf(replay.run, "live_merged")') = 0 /\ Cardinality(DOMAIN replay'.of.t3) = 0
    BY <2>1, <2>2, Nothing, Zenon
  <2> QED
    BY <2>3, <2>4, <2>5 DEF Counted
<1> QED
  BY <1>2, <1>4, <1>5, Unwritten DEF ReportInv

\* The fields after a step to the next day.
LEMMA DayAfter ==
  ASSUME RowsTyped, NEW n, replay' = Following(n)
  PROVE  /\ replay'.run = replay.run /\ replay'.days = replay.days
         /\ replay'.labels = replay.labels /\ replay'.base = replay.base
         /\ replay'.of = DayOf(replay.of.day + 1)
         /\ replay'.pc = IF replay.of.day = replay.days THEN "done" ELSE "day"
         /\ DOMAIN replay' = DOMAIN replay
BY DEF RowsTyped, Following

LEMMA SkippedDay == ASSUME ReportInv, skip_day PROVE ReportInv'
<1>0. /\ replay.pc = "day" /\ replay' = Following(1)
      /\ UNCHANGED <<results, curve, summaries, budget>>
  BY DEF skip_day
<1>1. /\ replay'.run = replay.run /\ replay'.days = replay.days
      /\ replay'.labels = replay.labels /\ replay'.base = replay.base
      /\ replay'.of = DayOf(replay.of.day + 1)
      /\ replay'.pc = IF replay.of.day = replay.days THEN "done" ELSE "day"
      /\ DOMAIN replay' = DOMAIN replay
  BY <1>0, DayAfter DEF ReportInv
<1>2. RowsTyped'
  BY <1>0, <1>1, FreshDay DEF ReportInv, RowsTyped
<1>3. InHand'
  BY <1>0, <1>1, FreshDay, ReportAssumption DEF ReportInv, InHand, RowsTyped
<1>4. Counted'
  <2>1. DOMAIN replay.of.t3 = {} /\ Called(replay.of.t3) = {}
    BY <1>0 DEF ReportInv, InHand, Called
  <2>2. DOMAIN replay'.of.t3 = {} /\ Called(replay.of.t3)' = {}
    BY <1>1, FreshDay DEF Called
  <2>3. \A source : RowsOf(replay.run, source)' = RowsOf(replay.run, source)
    BY <1>0, <1>1 DEF RowsOf
  <2> QED
    BY <1>0, <1>1, <2>1, <2>2, <2>3 DEF ReportInv, Counted
<1> QED
  BY <1>0, <1>2, <1>3, <1>4, Unwritten DEF ReportInv

LEMMA DecideDay ==
  ASSUME ReportInv, NEW candidates \in SUBSET Slots, decide_day(candidates) PROVE ReportInv'
<1>0. PICK live \in [candidates -> T1Verdicts] :
        /\ replay.pc = "day"
        /\ replay' = [replay EXCEPT !.of.live = live, !.pc = IF replay.labels THEN "label" ELSE "base"]
        /\ UNCHANGED <<results, curve, summaries, budget>>
  BY DEF decide_day
<1>1. /\ replay'.run = replay.run /\ replay'.days = replay.days
      /\ replay'.labels = replay.labels /\ replay'.base = replay.base
      /\ replay'.of.live = live /\ replay'.of.t3 = replay.of.t3
      /\ replay'.of.base = replay.of.base /\ replay'.of.day = replay.of.day
      /\ replay'.pc = IF replay.labels THEN "label" ELSE "base"
      /\ DOMAIN replay' = DOMAIN replay /\ DOMAIN replay'.of = DOMAIN replay.of
  BY <1>0 DEF ReportInv, RowsTyped
<1>2. RowsTyped'
  BY <1>0, <1>1 DEF ReportInv, RowsTyped
<1>3. InHand'
  BY <1>0, <1>1 DEF ReportInv, InHand, RowsTyped
<1>4. Counted'
  <2>1. \A source : RowsOf(replay.run, source)' = RowsOf(replay.run, source)
    BY <1>0, <1>1 DEF RowsOf
  <2>2. Called(replay.of.t3)' = Called(replay.of.t3)
    BY <1>1 DEF Called
  <2> QED
    BY <1>0, <1>1, <2>1, <2>2 DEF ReportInv, Counted
<1> QED
  BY <1>0, <1>2, <1>3, <1>4, Unwritten DEF ReportInv

\* One more label: it is counted as called, over budget or unsampled.
LEMMA LabelSlotKeeps == ASSUME ReportInv, LabelSlot PROVE ReportInv'
<1> DEFINE slot == Min(Unlabelled)
           t3 == replay.of.t3
           Next_(verdict) == replay' = [replay EXCEPT !.of.t3 = Labelled_(slot, verdict)]
<1>1. replay.pc = "label" /\ Unlabelled # {} /\ UNCHANGED <<results, curve, summaries>>
  BY DEF LabelSlot
<1>2. slot \in DOMAIN replay.of.live \ DOMAIN t3
  <2>1. Unlabelled \in SUBSET Nat
    BY <1>1, ReportAssumption DEF Unlabelled, ReportInv, InHand
  <2>2. \E n \in Unlabelled : \A m \in Unlabelled : n <= m
    BY <1>1, <2>1, LeastNatural
  <2>3. slot \in Unlabelled
    BY <2>2 DEF Min
  <2> HIDE DEF slot
  <2> QED
    BY <2>3 DEF Unlabelled
<1>3. PICK verdict \in T3Verdicts \cup {NoFill} :
        /\ Next_(verdict)
        /\ \/ verdict = NoFill /\ budget' = [budget EXCEPT !.unsampled = @ + 1]
           \/ verdict = NoFill /\ ~has_capacity /\ budget' = [budget EXCEPT !.overBudget = @ + 1]
           \/ verdict \in T3Verdicts /\ has_capacity /\ budget' = record_call(verdict)
  BY DEF LabelSlot
<1>4. /\ replay'.run = replay.run /\ replay'.days = replay.days
      /\ replay'.labels = replay.labels /\ replay'.base = replay.base
      /\ replay'.of.live = replay.of.live /\ replay'.of.t3 = Labelled_(slot, verdict)
      /\ replay'.of.base = replay.of.base /\ replay'.of.day = replay.of.day
      /\ replay'.pc = "label"
      /\ DOMAIN replay' = DOMAIN replay /\ DOMAIN replay'.of = DOMAIN replay.of
  <2> HIDE DEF slot
  <2> QED
    BY <1>1, <1>3 DEF ReportInv, RowsTyped
<1> HIDE DEF slot, Next_
<1>5. /\ DOMAIN replay'.of.t3 = DOMAIN t3 \cup {slot}
      /\ \A s \in DOMAIN t3 : replay'.of.t3[s] = t3[s]
      /\ replay'.of.t3[slot] = verdict
  BY <1>2, <1>4 DEF Labelled_
<1>6. replay.labels /\ DOMAIN t3 \subseteq DOMAIN replay.of.live /\ DOMAIN replay.of.live \subseteq Slots
  BY <1>1 DEF ReportInv, InHand
<1>7. DOMAIN budget' = DOMAIN budget
  BY <1>3 DEF record_call
<1>8. RowsTyped'
  BY <1>1, <1>4, <1>7 DEF ReportInv, RowsTyped
<1>9. InHand'
  <2>1. \A s \in DOMAIN replay'.of.t3 : replay'.of.t3[s] \in T3Verdicts \cup {NoFill}
    BY <1>1, <1>3, <1>5 DEF ReportInv, InHand
  <2> QED
    BY <1>1, <1>2, <1>4, <1>5, <1>6, <2>1 DEF ReportInv, InHand, RowsTyped
<1>10. Counted'
  <2>1. IsFiniteSet(DOMAIN t3) /\ IsFiniteSet(Called(t3)) /\ Called(t3) \subseteq DOMAIN t3
    <3>1. DOMAIN t3 \in SUBSET Slots /\ Called(t3) \in SUBSET DOMAIN t3
      BY <1>6 DEF Called
    <3> QED
      BY <3>1, FS_Subset, ReportAssumption
  <2>2. Cardinality(DOMAIN replay'.of.t3) = Cardinality(DOMAIN t3) + 1
        /\ Cardinality(DOMAIN t3) \in Nat /\ Cardinality(Called(t3)) \in Nat
    <3>1. slot \notin DOMAIN t3
      BY <1>2
    <3>2. Cardinality(DOMAIN t3 \cup {slot}) = Cardinality(DOMAIN t3) + 1
      <4> HIDE DEF t3
      <4> QED
        BY <2>1, <3>1, FS_AddElement
    <3>3. Cardinality(DOMAIN t3) \in Nat /\ Cardinality(Called(t3)) \in Nat
      <4> HIDE DEF t3
      <4> QED
        BY <2>1, FS_CardinalityType
    <3> QED
      BY <1>5, <3>2, <3>3
  <2>3. Called(replay.of.t3)' = IF verdict = NoFill THEN Called(t3) ELSE Called(t3) \cup {slot}
    BY <1>2, <1>5 DEF Called
  <2>4. Cardinality(Called(replay.of.t3)') = Cardinality(Called(t3)) + IF verdict = NoFill THEN 0 ELSE 1
    <3>1. slot \notin Called(t3)
      BY <1>2, <2>1
    <3>2. Cardinality(Called(t3) \cup {slot}) = Cardinality(Called(t3)) + 1
      <4> HIDE DEF t3
      <4> QED
        BY <2>1, <3>1, FS_AddElement
    <3> QED
      BY <2>2, <2>3, <3>2
  <2>5. \A source : RowsOf(replay.run, source)' = RowsOf(replay.run, source)
                    /\ Cardinality(RowsOf(replay.run, source)) \in Nat
    BY <1>1, <1>4, RowsAreFinite DEF RowsOf, ReportInv
  <2>6. /\ budget.calls = Cardinality(RowsOf(replay.run, "t3_only")) + Cardinality(Called(t3))
        /\ budget.calls + budget.overBudget + budget.unsampled =
             Cardinality(RowsOf(replay.run, "live_merged")) + Cardinality(DOMAIN t3)
        /\ budget.used \in Nat /\ budget.calls \in Nat /\ budget.overBudget \in Nat /\ budget.unsampled \in Nat
        /\ budget.used <= CapDollars /\ budget.used = PerCall * budget.calls
        /\ budget.overBudget > 0 => budget.used + PerCall > CapDollars
        /\ PerCall \in Nat /\ CapDollars \in Nat
    BY <1>1, <1>6, ReportAssumption DEF ReportInv, Counted
  <2>7. NoFill \notin T3Verdicts
    BY ReportAssumption
  <2>8. /\ budget'.used \in Nat /\ budget'.calls \in Nat /\ budget'.overBudget \in Nat /\ budget'.unsampled \in Nat
        /\ budget'.used <= CapDollars /\ budget'.used = PerCall * budget'.calls
        /\ budget'.overBudget > 0 => budget'.used + PerCall > CapDollars
        /\ budget'.calls = budget.calls + IF verdict = NoFill THEN 0 ELSE 1
        /\ budget'.calls + budget'.overBudget + budget'.unsampled = budget.calls + budget.overBudget + budget.unsampled + 1
    <3>1. CASE verdict = NoFill /\ budget' = [budget EXCEPT !.unsampled = @ + 1]
      <4>1. /\ budget'.used = budget.used /\ budget'.calls = budget.calls
            /\ budget'.overBudget = budget.overBudget /\ budget'.unsampled = budget.unsampled + 1
        BY <3>1 DEF ReportInv, RowsTyped
      <4> QED
        BY <2>6, <3>1, <4>1
    <3>2. CASE verdict = NoFill /\ ~has_capacity /\ budget' = [budget EXCEPT !.overBudget = @ + 1]
      <4>1. /\ budget'.used = budget.used /\ budget'.calls = budget.calls
            /\ budget'.overBudget = budget.overBudget + 1 /\ budget'.unsampled = budget.unsampled
        BY <3>2 DEF ReportInv, RowsTyped
      <4>2. budget.used + PerCall > CapDollars
        BY <2>6, <3>2 DEF has_capacity
      <4> QED
        BY <2>6, <3>2, <4>1, <4>2
    <3>3. CASE verdict \in T3Verdicts /\ has_capacity /\ budget' = record_call(verdict)
      <4>1. /\ budget'.used = budget.used + PerCall /\ budget'.calls = budget.calls + 1
            /\ budget'.overBudget = budget.overBudget /\ budget'.unsampled = budget.unsampled
        BY <3>3 DEF ReportInv, RowsTyped, record_call
      <4>2. budget.used + PerCall <= CapDollars
        BY <3>3 DEF has_capacity
      <4>3. PerCall * (budget.calls + 1) = PerCall * budget.calls + PerCall
        BY <2>6
      <4> QED
        BY <2>6, <2>7, <3>3, <4>1, <4>2, <4>3
    <3> QED
      BY <1>3, <3>1, <3>2, <3>3
  <2>9. budget'.calls = Cardinality(RowsOf(replay.run, "t3_only")') + Cardinality(Called(replay.of.t3)')
    BY <2>2, <2>4, <2>5, <2>6, <2>8
  <2>10. budget'.calls + budget'.overBudget + budget'.unsampled =
           Cardinality(RowsOf(replay.run, "live_merged")') + Cardinality(DOMAIN replay'.of.t3)
    BY <2>2, <2>5, <2>6, <2>8
  <2> QED
    BY <1>4, <1>6, <2>8, <2>9, <2>10 DEF Counted
<1> QED
  BY <1>1, <1>8, <1>9, <1>10, Unwritten DEF ReportInv

LEMMA LabelsDoneKeeps == ASSUME ReportInv, LabelsDone PROVE ReportInv'
<1>0. /\ replay.pc = "label" /\ Unlabelled = {} /\ replay' = [replay EXCEPT !.pc = "base"]
      /\ UNCHANGED <<results, curve, summaries, budget>>
  BY DEF LabelsDone
<1>1. /\ replay'.run = replay.run /\ replay'.days = replay.days
      /\ replay'.labels = replay.labels /\ replay'.base = replay.base
      /\ replay'.of = replay.of /\ replay'.pc = "base" /\ DOMAIN replay' = DOMAIN replay
  BY <1>0 DEF ReportInv, RowsTyped
<1>2. RowsTyped'
  BY <1>0, <1>1 DEF ReportInv, RowsTyped
<1>3. InHand'
  <2>1. DOMAIN replay.of.t3 = DOMAIN replay.of.live
    BY <1>0 DEF Unlabelled, ReportInv, InHand
  <2> QED
    BY <1>0, <1>1, <2>1 DEF ReportInv, InHand
<1>4. Counted'
  <2>1. \A source : RowsOf(replay.run, source)' = RowsOf(replay.run, source)
    BY <1>0, <1>1 DEF RowsOf
  <2>2. Called(replay.of.t3)' = Called(replay.of.t3)
    BY <1>1 DEF Called
  <2> QED
    BY <1>0, <1>1, <2>1, <2>2 DEF ReportInv, Counted
<1> QED
  BY <1>0, <1>2, <1>3, <1>4, Unwritten DEF ReportInv

LEMMA BaseTicks == ASSUME ReportInv, run_day_base PROVE ReportInv'
<1>0. PICK base \in [IF replay.base THEN Slots ELSE {} -> BaseVerdicts] :
        /\ replay.pc = "base" /\ replay' = [replay EXCEPT !.of.base = base, !.pc = "write"]
        /\ UNCHANGED <<results, curve, summaries, budget>>
  BY DEF run_day_base
<1>1. /\ replay'.run = replay.run /\ replay'.days = replay.days
      /\ replay'.labels = replay.labels /\ replay'.base = replay.base
      /\ replay'.of.live = replay.of.live /\ replay'.of.t3 = replay.of.t3
      /\ replay'.of.base = base /\ replay'.of.day = replay.of.day /\ replay'.pc = "write"
      /\ DOMAIN replay' = DOMAIN replay /\ DOMAIN replay'.of = DOMAIN replay.of
  BY <1>0 DEF ReportInv, RowsTyped
<1>2. RowsTyped'
  BY <1>0, <1>1 DEF ReportInv, RowsTyped
<1>3. InHand'
  BY <1>0, <1>1 DEF ReportInv, InHand, RowsTyped
<1>4. Counted'
  <2>1. \A source : RowsOf(replay.run, source)' = RowsOf(replay.run, source)
    BY <1>0, <1>1 DEF RowsOf
  <2>2. Called(replay.of.t3)' = Called(replay.of.t3)
    BY <1>1 DEF Called
  <2> QED
    BY <1>0, <1>1, <2>1, <2>2 DEF ReportInv, Counted
<1> QED
  BY <1>0, <1>2, <1>3, <1>4, Unwritten DEF ReportInv

LEMMA Completes == ASSUME ReportInv, complete_replay PROVE ReportInv'
<1>0. /\ replay.pc = "done" /\ replay' = [replay EXCEPT !.pc = "over"]
      /\ UNCHANGED <<results, curve, budget>>
  BY DEF complete_replay
<1>1. replay'.run = replay.run /\ replay'.labels = replay.labels /\ replay'.base = replay.base
      /\ replay'.of = replay.of /\ replay'.pc = "over" /\ DOMAIN replay' = DOMAIN replay
  BY <1>0 DEF ReportInv, RowsTyped
<1>2. /\ DOMAIN summaries' = DOMAIN summaries \cup {replay.run}
      /\ summaries'[replay.run].t3 = budget
      /\ \A r \in DOMAIN summaries : r # replay.run => summaries'[r] = summaries[r]
  BY DEF complete_replay
<1>3. RowsTyped'
  BY <1>0, <1>1, <1>2 DEF ReportInv, RowsTyped
<1>4. InHand' /\ Counted'
  BY <1>0, <1>1 DEF ReportInv, InHand, Counted
<1>5. Summed'
  <2>1. \A r, source : RowsOf(r, source)' = RowsOf(r, source)
    BY <1>0 DEF RowsOf
  <2>0. \A source : Cardinality(RowsOf(replay.run, source)) \in Nat
    BY RowsAreFinite DEF ReportInv
  <2>2. DOMAIN replay.of.t3 = {} /\ Called(replay.of.t3) = {}
    BY <1>0 DEF ReportInv, InHand, Called
  <2>3. /\ budget.calls = Cardinality(RowsOf(replay.run, "t3_only"))
        /\ budget.calls + budget.overBudget + budget.unsampled > 0 =>
              budget.calls + budget.overBudget + budget.unsampled = Cardinality(RowsOf(replay.run, "live_merged"))
        /\ budget.overBudget > 0 => budget.used + PerCall > CapDollars
    BY <1>0, <2>0, <2>2, Nothing DEF ReportInv, Counted
  <2> QED
    BY <1>2, <2>1, <2>3 DEF ReportInv, Summed
<1> QED
  BY <1>0, <1>3, <1>4, <1>5, Unwritten DEF ReportInv

LEMMA Dies == ASSUME ReportInv, replay_dies PROVE ReportInv'
<1>0. replay' = [replay EXCEPT !.pc = "over"] /\ UNCHANGED <<results, curve, summaries, budget>>
  BY DEF replay_dies
<1>1. replay'.run = replay.run /\ replay'.labels = replay.labels /\ replay'.base = replay.base
      /\ replay'.of = replay.of /\ replay'.pc = "over" /\ DOMAIN replay' = DOMAIN replay
  BY <1>0 DEF ReportInv, RowsTyped
<1>2. RowsTyped' /\ InHand' /\ Counted'
  BY <1>0, <1>1 DEF ReportInv, RowsTyped, InHand, Counted
<1> QED
  BY <1>0, <1>2, Unwritten DEF ReportInv

LEMMA NoStep == ASSUME ReportInv, UNCHANGED reportVars PROVE ReportInv'
<1>0. UNCHANGED <<results, curve, summaries, replay, budget>>
  BY DEF reportVars
<1>1. RowsTyped'
  BY <1>0 DEF ReportInv, RowsTyped
<1>2. InHand'
  BY <1>0 DEF ReportInv, InHand
<1>3. Counted'
  <2>1. \A source : RowsOf(replay.run, source)' = RowsOf(replay.run, source)
    BY <1>0 DEF RowsOf
  <2>2. Called(replay.of.t3)' = Called(replay.of.t3)
    BY <1>0 DEF Called
  <2> QED
    BY <1>0, <2>1, <2>2 DEF ReportInv, Counted
<1> QED
  BY <1>0, <1>1, <1>2, <1>3, Unwritten DEF ReportInv

-----------------------------------------------------------------------------
(* The transaction of a day.                                               *)

\* The rows of one side: as many as there are verdicts, and none of them there yet.
LEMMA SideOf ==
  ASSUME ReportInv, replay.pc = "write", NEW source \in Sources,
         NEW verdicts, DOMAIN verdicts \subseteq Slots, \A s \in DOMAIN verdicts : verdicts[s] \in Verdicts,
         NEW fills, \A s \in DOMAIN fills : fills[s] \in Profits
  PROVE  LET side == SideRows(source, verdicts, fills)
         IN  /\ IsFiniteSet(side) /\ Cardinality(side) = Cardinality(DOMAIN verdicts)
             /\ side \cap results = {}
             /\ \A d \in side : /\ d.run = replay.run /\ d.day = replay.of.day /\ d.slot \in DOMAIN verdicts
                                /\ d.source = source /\ d.verdict \in Verdicts
                                /\ d.regime = RegimeOf[d.day] /\ d.pl \in Profits
             /\ \A s \in DOMAIN verdicts : \E d \in side : d.slot = s
<1> DEFINE side == SideRows(source, verdicts, fills)
           V == DOMAIN verdicts
           row(s) == [run |-> replay.run, day |-> replay.of.day, slot |-> s, source |-> source, verdict |-> verdicts[s],
                      regime |-> RegimeOf[replay.of.day], pl |-> IF s \in DOMAIN fills THEN fills[s] ELSE NoFill]
           f == [s \in V |-> row(s)]
<1>1. side = {row(s) : s \in V}
  BY DEF SideRows
<1>2. \A s \in V : /\ row(s).run = replay.run /\ row(s).day = replay.of.day /\ row(s).slot = s
                   /\ row(s).source = source /\ row(s).verdict = verdicts[s]
                   /\ row(s).regime = RegimeOf[replay.of.day] /\ row(s).pl \in Profits
  BY DEF Profits
<1> HIDE DEF row, side
<1>3. f \in [V -> side] /\ (\A y \in side : \E x \in V : f[x] = y) /\ \A x, y \in V : f[x] = f[y] => x = y
  BY <1>1, <1>2
<1>4. IsFiniteSet(V)
  BY FS_Subset, ReportAssumption
<1>5. IsFiniteSet(side) /\ Cardinality(side) = Cardinality(V)
  <2> HIDE DEF f, V
  <2> QED
    BY <1>3, <1>4, OntoSize
<1>6. \A d \in side : /\ d.run = replay.run /\ d.day = replay.of.day /\ d.slot \in V
                      /\ d.source = source /\ d.verdict \in Verdicts
                      /\ d.regime = RegimeOf[d.day] /\ d.pl \in Profits
  BY <1>1, <1>2
<1>7. side \cap results = {}
  <2>1. replay.of.day \in Int /\ \A d \in results : d.run = replay.run => d.day < replay.of.day
    BY ReportAssumption DEF ReportInv, InHand
  <2> QED
    BY <1>6, <2>1
<1>8. \A s \in V : \E d \in side : d.slot = s
  BY <1>1, <1>2
<1> QED
  BY <1>5, <1>6, <1>7, <1>8 DEF side

\* A new point has the profit of the rows that came with it.
LEMMA EvenAgain ==
  ASSUME ReportInv, replay.pc = "write", NEW r \in Nat, r = replay.run, NEW source \in Portfolios,
         NEW side, IsFiniteSet(side), side \cap results = {}, \A d \in side : d.pl \in Profits,
         RowsOf(r, source)' = RowsOf(r, source) \cup side,
         PointsOf(r, source)' = PointsOf(r, source) \cup {Point(source, side)}
  PROVE  Even(r, source)'
<1> DEFINE p == Point(source, side)
           R == RowsOf(r, source)
<1>1. p.day = replay.of.day /\ p.equity = LastEquity(r, NameOf(source)) + Profit(side)
  BY DEF Point
<1>2. LastEquity(r, NameOf(source)) = StartCash + Profit(R)
  BY EquityIsProfit
<1>3. IsFiniteSet(R) /\ R \cap side = {} /\ \A d \in R \cup side : d.pl \in Profits
  BY RowsAreFinite DEF ReportInv, RowsTyped
<1>4. Profit(R) \in Int /\ Profit(side) \in Int /\ StartCash \in Int
  <2>1. Profit(R) \in Int
    <3>1. R \in SUBSET R /\ \A d \in R : d.pl \in Profits
      BY <1>3
    <3> HIDE DEF R
    <3> QED
      BY <1>3, <3>1, ProfitOf
  <2>2. Profit(side) \in Int
    <3>1. side \in SUBSET side
      OBVIOUS
    <3> QED
      BY <3>1, ProfitOf
  <2> QED
    BY <2>1, <2>2, ReportAssumption
<1>5. Profit(R \cup side) = Profit(R) + Profit(side)
  <2> HIDE DEF R
  <2> QED
    BY <1>3, ProfitAdds
<1>6. p.equity = StartCash + Profit(R \cup side)
  <2> HIDE DEF R, p
  <2> QED
    BY <1>1, <1>2, <1>4, <1>5
<1>7. \A e \in PointsOf(r, source) : e.day < p.day
  <2>1. \A c \in curve : c.run = replay.run => c.day < replay.of.day
    BY DEF ReportInv, InHand
  <2> QED
    BY <1>1, <2>1 DEF PointsOf
<1>8. p \in PointsOf(r, source)' /\ \A e \in PointsOf(r, source)' : e = p \/ e.day < p.day
  BY <1>7
<1>9. p.equity = StartCash + Profit(RowsOf(r, source)')
  BY <1>6
<1> DEFINE P == PointsOf(r, source)'
           S == RowsOf(r, source)'
<1>10. \E c \in P : (\A e \in P : e = c \/ e.day < c.day) /\ c.equity = StartCash + Profit(S)
  <2> HIDE DEF p, P, S
  <2> QED
    BY <1>8, <1>9 DEF P, S
<1>11. Profit(RowsOf(r, source))' = Profit(S)
  BY DEF Profit
<1> QED
  BY <1>8, <1>10, <1>11 DEF Even

LEMMA WriteDay == ASSUME ReportInv, write_day_results PROVE ReportInv'
<1> DEFINE t3 == [s \in {x \in DOMAIN replay.of.t3 : replay.of.t3[x] # NoFill} |-> replay.of.t3[s]]
           L(fills) == SideRows("live_merged", replay.of.live, fills)
           B(fills) == SideRows("base", replay.of.base, fills)
           labels == SideRows("t3_only", t3, << >>)
<1>1. PICK liveFills \in FillsOf(replay.of.live), baseFills \in FillsOf(replay.of.base) :
        /\ results' = results \cup L(liveFills) \cup B(baseFills) \cup labels
        /\ curve' = curve \cup {Point("live_merged", L(liveFills))}
                          \cup IF replay.base THEN {Point("base", B(baseFills))} ELSE {}
  BY DEF write_day_results
<1>2. replay.pc = "write" /\ replay' = Following(0) /\ UNCHANGED <<summaries, budget>>
  BY DEF write_day_results
<1> DEFINE live == L(liveFills)
           base == B(baseFills)
<1>3. /\ DOMAIN replay.of.live \subseteq Slots /\ DOMAIN replay.of.base \subseteq Slots
      /\ DOMAIN replay.of.t3 \subseteq DOMAIN replay.of.live /\ DOMAIN t3 = Called(replay.of.t3)
      /\ DOMAIN t3 \subseteq DOMAIN replay.of.t3
      /\ \A s \in DOMAIN replay.of.live : replay.of.live[s] \in Verdicts
      /\ \A s \in DOMAIN replay.of.base : replay.of.base[s] \in Verdicts
      /\ \A s \in DOMAIN t3 : t3[s] \in Verdicts
  BY <1>2 DEF ReportInv, InHand, Called, Verdicts
<1>4. /\ \A s \in DOMAIN liveFills : liveFills[s] \in Profits
      /\ \A s \in DOMAIN baseFills : baseFills[s] \in Profits
  BY DEF FillsOf, Profits
<1> DEFINE Is(side, source, verdicts) ==
             /\ IsFiniteSet(side) /\ Cardinality(side) = Cardinality(DOMAIN verdicts)
             /\ side \cap results = {}
             /\ \A d \in side : /\ d.run = replay.run /\ d.day = replay.of.day /\ d.slot \in DOMAIN verdicts
                                /\ d.source = source /\ d.verdict \in Verdicts
                                /\ d.regime = RegimeOf[d.day] /\ d.pl \in Profits
             /\ \A s \in DOMAIN verdicts : \E d \in side : d.slot = s
<1>5. Is(live, "live_merged", replay.of.live)
  <2>1. "live_merged" \in Sources
    BY DEF Sources
  <2>2. /\ DOMAIN replay.of.live \subseteq Slots /\ \A s \in DOMAIN replay.of.live : replay.of.live[s] \in Verdicts
        /\ \A s \in DOMAIN liveFills : liveFills[s] \in Profits
    BY <1>3, <1>4
  <2> QED
    BY <1>2, <2>1, <2>2, SideOf
<1>6. Is(base, "base", replay.of.base)
  <2>1. "base" \in Sources
    BY DEF Sources
  <2>2. /\ DOMAIN replay.of.base \subseteq Slots /\ \A s \in DOMAIN replay.of.base : replay.of.base[s] \in Verdicts
        /\ \A s \in DOMAIN baseFills : baseFills[s] \in Profits
    BY <1>3, <1>4
  <2> QED
    BY <1>2, <2>1, <2>2, SideOf
<1>7. Is(labels, "t3_only", t3)
  <2>1. "t3_only" \in Sources /\ DOMAIN t3 \subseteq Slots /\ \A s \in DOMAIN << >> : << >>[s] \in Profits
    BY <1>3 DEF Sources
  <2> HIDE DEF t3
  <2> QED
    BY <1>2, <1>3, <2>1, SideOf
<1> HIDE DEF t3, L, B, labels
<1>8. /\ replay'.run = replay.run /\ replay'.days = replay.days
      /\ replay'.labels = replay.labels /\ replay'.base = replay.base
      /\ replay'.of = DayOf(replay.of.day + 1)
      /\ replay'.pc = IF replay.of.day = replay.days THEN "done" ELSE "day"
      /\ DOMAIN replay' = DOMAIN replay
  BY <1>2, DayAfter DEF ReportInv
<1>9. /\ results' = results \cup live \cup base \cup labels
      /\ curve' = curve \cup {Point("live_merged", live)} \cup IF replay.base THEN {Point("base", base)} ELSE {}
  BY <1>1
<1>10. \A source, side : /\ Point(source, side).run = replay.run /\ Point(source, side).day = replay.of.day
                         /\ Point(source, side).name = NameOf(source)
  BY DEF Point
<1>11. /\ replay.run \in Nat /\ replay.of.day \in 1 .. ReportDays /\ replay.days \in 1 .. ReportDays
       /\ replay.of.day <= replay.days /\ replay.run \notin DOMAIN summaries
  <2>1. /\ replay.days \in 1 .. ReportDays /\ replay.of.day \in 1 .. replay.days + 1
        /\ replay.of.day # replay.days + 1 /\ replay.run \notin DOMAIN summaries
    BY <1>2 DEF ReportInv, InHand
  <2> QED
    BY <2>1, ReportAssumption DEF ReportInv, RowsTyped
<1> HIDE DEF live, base
<1>12. /\ RowsOf(replay.run, "live_merged")' = RowsOf(replay.run, "live_merged") \cup live
       /\ RowsOf(replay.run, "base")' = RowsOf(replay.run, "base") \cup base
       /\ RowsOf(replay.run, "t3_only")' = RowsOf(replay.run, "t3_only") \cup labels
       /\ \A r, source : r # replay.run => RowsOf(r, source)' = RowsOf(r, source)
  BY <1>5, <1>6, <1>7, <1>8, <1>9 DEF RowsOf
<1>13. RowsTyped'
  <2>1. IsFiniteSet(results')
    <3>1. IsFiniteSet(results)
      BY DEF ReportInv, RowsTyped
    <3> QED
      BY <1>5, <1>6, <1>7, <1>9, <3>1, FS_Union
  <2>2. \A d \in results' :
          /\ d.run \in Nat /\ d.run <= replay'.run /\ d.day \in 1 .. ReportDays /\ d.slot \in Slots
          /\ d.source \in Sources /\ d.verdict \in Verdicts
          /\ d.regime = RegimeOf[d.day] /\ d.pl \in Profits
    <3>1. \A d \in results : /\ d.run \in Nat /\ d.run <= replay.run /\ d.day \in 1 .. ReportDays /\ d.slot \in Slots
                             /\ d.source \in Sources /\ d.verdict \in Verdicts
                             /\ d.regime = RegimeOf[d.day] /\ d.pl \in Profits
      BY DEF ReportInv, RowsTyped
    <3>2. \A d \in live \cup base \cup labels :
             /\ d.run \in Nat /\ d.run <= replay.run /\ d.day \in 1 .. ReportDays /\ d.slot \in Slots
             /\ d.source \in Sources /\ d.verdict \in Verdicts
             /\ d.regime = RegimeOf[d.day] /\ d.pl \in Profits
      BY <1>3, <1>5, <1>6, <1>7, <1>11 DEF Sources
    <3> QED
      BY <1>8, <1>9, <3>1, <3>2
  <2>3. \A c \in curve' : c.run \in Nat /\ c.run <= replay'.run /\ c.day \in Nat
    <3>1. \A c \in curve : c.run \in Nat /\ c.run <= replay.run /\ c.day \in Nat
      BY DEF ReportInv, RowsTyped
    <3> QED
      BY <1>8, <1>9, <1>10, <1>11, <3>1
  <2> QED
    BY <1>2, <1>8, <2>1, <2>2, <2>3, FreshDay DEF ReportInv, RowsTyped
<1>14. InHand'
  <2>1. \A d \in results' : d.run = replay.run => d.day < replay.of.day + 1
    <3>1. \A d \in results : d.day \in Int /\ (d.run = replay.run => d.day < replay.of.day)
      BY <1>2 DEF ReportInv, InHand, RowsTyped
    <3> QED
      BY <1>5, <1>6, <1>7, <1>9, <1>11, <3>1
  <2>2. \A c \in curve' : c.run = replay.run => c.day < replay.of.day + 1
    <3>1. \A c \in curve : c.day \in Int /\ (c.run = replay.run => c.day < replay.of.day)
      BY <1>2 DEF ReportInv, InHand, RowsTyped
    <3> QED
      BY <1>9, <1>10, <1>11, <3>1
  <2> QED
    BY <1>2, <1>8, <1>11, <2>1, <2>2, FreshDay DEF InHand
<1>15. Counted'
  <2>1. DOMAIN replay'.of.t3 = {} /\ Called(replay.of.t3)' = {}
    BY <1>8, FreshDay DEF Called
  <2>2. Cardinality(RowsOf(replay.run, "t3_only")') = Cardinality(RowsOf(replay.run, "t3_only")) + Cardinality(Called(replay.of.t3))
    <3>1. RowsOf(replay.run, "t3_only") \cap labels = {} /\ IsFiniteSet(RowsOf(replay.run, "t3_only"))
      BY <1>7, RowsAreFinite DEF ReportInv
    <3>2. IsFiniteSet(labels) /\ Cardinality(labels) = Cardinality(Called(replay.of.t3))
      BY <1>3, <1>7
    <3>3. Cardinality(RowsOf(replay.run, "t3_only") \cup labels)
            = Cardinality(RowsOf(replay.run, "t3_only")) + Cardinality(labels)
      BY <3>1, <3>2, DisjointSize
    <3> QED
      BY <1>12, <3>2, <3>3
  <2>3. Cardinality(RowsOf(replay.run, "live_merged")') = Cardinality(RowsOf(replay.run, "live_merged")) + Cardinality(DOMAIN replay.of.live)
    <3>1. RowsOf(replay.run, "live_merged") \cap live = {} /\ IsFiniteSet(RowsOf(replay.run, "live_merged"))
      BY <1>5, RowsAreFinite DEF ReportInv
    <3> QED
      BY <1>5, <1>12, <3>1, DisjointSize
  <2>4. \A source : Cardinality(RowsOf(replay.run, source)) \in Nat
    BY RowsAreFinite DEF ReportInv
  <2>5. IsFiniteSet(DOMAIN replay.of.live) /\ IsFiniteSet(Called(replay.of.t3))
    <3>1. DOMAIN replay.of.live \in SUBSET Slots /\ Called(replay.of.t3) \in SUBSET Slots
      BY <1>3
    <3> QED
      BY <3>1, FS_Subset, ReportAssumption
  <2>6. Cardinality(DOMAIN replay.of.live) \in Nat /\ Cardinality(Called(replay.of.t3)) \in Nat
    BY <2>5, FS_CardinalityType
  <2>7. replay.labels => DOMAIN replay.of.t3 = DOMAIN replay.of.live
    BY <1>2 DEF ReportInv, InHand
  <2>8. Counted
    BY DEF ReportInv
  <2>9. budget.calls = Cardinality(RowsOf(replay.run, "t3_only")') + Cardinality({})
    BY <1>2, <2>2, <2>4, <2>6, <2>8, Nothing DEF Counted
  <2>10. IF replay.labels
         THEN budget.calls + budget.overBudget + budget.unsampled =
                Cardinality(RowsOf(replay.run, "live_merged")') + Cardinality({})
         ELSE budget.calls = 0 /\ budget.overBudget = 0 /\ budget.unsampled = 0
    BY <1>2, <2>3, <2>4, <2>6, <2>7, <2>8, Nothing DEF Counted
  <2> QED
    BY <1>2, <1>8, <2>1, <2>8, <2>9, <2>10 DEF Counted
<1>16. Summed'
  <2>1. \A r \in DOMAIN summaries : \A source : RowsOf(r, source)' = RowsOf(r, source)
    BY <1>11, <1>12
  <2> QED
    BY <1>2, <2>1 DEF ReportInv, Summed
<1>17. LabelsStand'
  <2> SUFFICES ASSUME NEW t \in results', t.source = "t3_only"
               PROVE  \E t1 \in results' : /\ t1.source = "live_merged" /\ t1.run = t.run
                                           /\ t1.day = t.day /\ t1.slot = t.slot
    BY DEF LabelsStand
  <2>1. CASE t \in results
    BY <1>9, <2>1 DEF ReportInv, LabelsStand
  <2>2. CASE t \in labels
    <3>1. t.slot \in DOMAIN replay.of.live
      BY <1>3, <1>7, <2>2
    <3> QED
      BY <1>5, <1>7, <1>9, <2>2, <3>1
  <2> QED
    BY <1>5, <1>6, <1>9, <2>1, <2>2
<1>18. ASSUME NEW r \in Nat, NEW source \in Portfolios PROVE Even(r, source)'
  <2>1. CASE r # replay.run
    <3>1. PointsOf(r, source)' = PointsOf(r, source)
      BY <1>9, <1>10, <2>1 DEF PointsOf
    <3>2. RowsOf(r, source)' = RowsOf(r, source)
      BY <1>12, <2>1
    <3>3. Profit(RowsOf(r, source))' = Profit(RowsOf(r, source))
      BY <3>2 DEF Profit
    <3> QED
      BY <3>1, <3>2, <3>3 DEF ReportInv, Even
  <2>2. CASE r = replay.run /\ source = "live_merged"
    <3>1. PointsOf(r, source)' = PointsOf(r, source) \cup {Point(source, live)}
      BY <1>9, <1>10, <2>2 DEF PointsOf, NameOf
    <3>2. RowsOf(r, source)' = RowsOf(r, source) \cup live
      BY <1>8, <1>12, <2>2
    <3>3. IsFiniteSet(live) /\ live \cap results = {} /\ \A d \in live : d.pl \in Profits
      BY <1>5
    <3> QED
      BY <1>2, <2>2, <3>1, <3>2, <3>3, EvenAgain
  <2>3. CASE r = replay.run /\ source = "base" /\ replay.base
    <3>1. PointsOf(r, source)' = PointsOf(r, source) \cup {Point(source, base)}
      BY <1>9, <1>10, <2>3 DEF PointsOf, NameOf
    <3>2. RowsOf(r, source)' = RowsOf(r, source) \cup base
      BY <1>8, <1>12, <2>3
    <3>3. IsFiniteSet(base) /\ base \cap results = {} /\ \A d \in base : d.pl \in Profits
      BY <1>6
    <3> QED
      BY <1>2, <2>3, <3>1, <3>2, <3>3, EvenAgain
  <2>4. CASE r = replay.run /\ source = "base" /\ ~replay.base
    <3>1. PointsOf(r, source)' = PointsOf(r, source)
      BY <1>9, <1>10, <2>4 DEF PointsOf, NameOf
    <3>2. base = {}
      <4>1. DOMAIN replay.of.base = {}
        BY <1>2, <2>4 DEF ReportInv, InHand
      <4> QED
        BY <1>6, <4>1
    <3>3. RowsOf(r, source)' = RowsOf(r, source)
      BY <1>8, <1>12, <2>4, <3>2
    <3>4. Profit(RowsOf(r, source))' = Profit(RowsOf(r, source))
      BY <3>3 DEF Profit
    <3> QED
      BY <3>1, <3>3, <3>4 DEF ReportInv, Even
  <2> QED
    BY <2>1, <2>2, <2>3, <2>4 DEF Portfolios
<1> QED
  BY <1>13, <1>14, <1>15, <1>16, <1>17, <1>18 DEF ReportInv

-----------------------------------------------------------------------------
(* The theorem.                                                            *)

LEMMA ReportStep == ASSUME ReportInv, [ReportNext]_reportVars PROVE ReportInv'
<1>1. ASSUME NEW days \in 1 .. ReportDays, NEW labels \in BOOLEAN, NEW base \in BOOLEAN,
             NEW sampled, start_run(days, labels, base, sampled)
      PROVE  ReportInv'
  BY <1>1, StartRun
<1>2. ASSUME NEW candidates \in SUBSET Slots, decide_day(candidates) PROVE ReportInv'
  BY <1>2, DecideDay
<1>3. ASSUME NoMoreRuns \/ UNCHANGED reportVars PROVE ReportInv'
  BY <1>3, NoStep DEF NoMoreRuns
<1> QED
  BY <1>1, <1>2, <1>3, SkippedDay, LabelSlotKeeps, LabelsDoneKeeps, BaseTicks, WriteDay, Completes, Dies DEF ReportNext

\* The tables of a report, each queried on its own, agree with each other and
\* with the database of all runs, and what a summary says of the labels it
\* paid for is what the rows show: persistence.py and comparison.py, for any
\* number of runs, days and slots, with deaths at any point.
THEOREM ReportsTellTheRun == ReportSpec => []ReportTellsTheRun
<1>1. ReportInit => ReportInv
  BY InitReport
<1>2. ReportInv /\ [ReportNext]_reportVars => ReportInv'
  BY ReportStep
<1>3. ReportInv => ReportTellsTheRun
  BY TheReportTells
<1> QED
  BY <1>1, <1>2, <1>3, PTL DEF ReportSpec
=============================================================================
