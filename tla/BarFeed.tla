------------------------------ MODULE BarFeed ------------------------------
(***************************************************************************)
(* From the market-data stream to the signal engine: the minute bars that  *)
(* AlpacaMarketStream hands to BarAggregator, the five-minute bars that    *)
(* TradingPlatform keeps per symbol, the evaluations they cause, and the   *)
(* pre-market context that DailyRoutine computes from them at the open.    *)
(*                                                                         *)
(* Time is counted in minutes since midnight of the first day.  The bar of *)
(* minute m covers m to m+1 and is published when that minute is over.     *)
(* The read loop awaits one message after another and swallows what the    *)
(* callbacks raise, so one received bar with everything it causes is one   *)
(* step.  A minute may have no bar: no trade, a malformed message, or a    *)
(* stream that was down.  Every minute bar has one share of volume, so the *)
(* volume of a five-minute bar is its bar_count.                           *)
(***************************************************************************)
EXTENDS Integers, Sequences, FiniteSets, FiniteSetsExt

CONSTANTS
  Symbol,        \* the watchlist
  NONE,          \* Python's None
  MaxPrice,      \* bound: the largest price
  DayLen,        \* minutes of a day
  Window,        \* minutes of a five-minute bar
  BackfillTime, SessionOpen, SignalStart, SessionClose,  \* minutes of the day
  BarCapacity,   \* maxlen of SymbolState.bars
  Horizon,       \* bound: the last minute
  MaxLate,       \* bound: out-of-order bars of a symbol in a process's life
  MaxDelay       \* bound: minutes from the start of a bar to its processing

ASSUME BarFeedAssumption ==
  /\ {DayLen, Window, BarCapacity} \subseteq Nat \ {0}
  /\ {BackfillTime, SessionOpen, SignalStart, SessionClose, MaxPrice,
      Horizon, MaxLate, MaxDelay} \subseteq Nat
  /\ SessionOpen <= SignalStart /\ SignalStart <= SessionClose /\ SessionClose <= DayLen
  /\ \A t \in {DayLen, SessionOpen, SignalStart, SessionClose} : t % Window = 0
  /\ NONE \notin Int

VARIABLES
  now,
  received,            \* history: per symbol, the bars since boot in arrival order
  buffers, window_start,          \* BarAggregator, per symbol
  bars, premarket_bars,           \* SymbolState, per symbol
  decisions,           \* history: per symbol, the evaluations since boot
  daily_df,            \* symbols whose daily bars have been loaded
  premarket_ctx,       \* SymbolState.premarket_ctx
  backfill_done_for, pm_done_for, \* locals of _daily_routine_loop: a day or NONE
  booted               \* minute the process came up

streamVars  == <<received, buffers, window_start, bars, premarket_bars, decisions>>
routineVars == <<daily_df, premarket_ctx, backfill_done_for, pm_done_for>>
vars == <<now, booted, streamVars, routineVars>>

----------------------------------------------------------------------------
(* The clock and the bars.                                                 *)

Minute == 0..(Horizon - 1)
Price == 1..MaxPrice
Day(m) == m \div DayLen
TimeOfDay(m) == m % DayLen
_window_start_for(m) == m - (m % Window)
is_rth(m) == TimeOfDay(m) >= SessionOpen /\ TimeOfDay(m) < SessionClose
is_premarket(m) == TimeOfDay(m) < SessionOpen

MinuteBar == [minute : Minute, price : Price]
FiveMinBar == [timestamp : Minute, open : Price, high : Price, low : Price,
               close : Price, bar_count : Nat \ {0}]
Decision == [window : Minute, at : Nat]
PremarketContext == [day : Nat, premarket_volume : Nat, open_window : Minute]

PricesOf(mbars) == {mbars[i].price : i \in DOMAIN mbars}

\* BarAggregator._emit: the five-minute bar of a buffer.
Aggregate(w, mbars) ==
  [timestamp |-> w, open |-> mbars[1].price, close |-> mbars[Len(mbars)].price,
   high |-> Max(PricesOf(mbars)), low |-> Min(PricesOf(mbars)),
   bar_count |-> Len(mbars)]

\* mutant: a deque without maxlen
AppendUnbounded(rows, row) == Append(rows, row)

\* deque(maxlen=BarCapacity).append
AppendBounded(rows, row) ==
  IF Len(rows) < BarCapacity THEN Append(rows, row) ELSE Append(Tail(rows), row)

Init ==
  /\ now = 0 /\ booted = 0
  /\ received = [s \in Symbol |-> <<>>]
  /\ buffers = [s \in Symbol |-> <<>>]
  /\ window_start = [s \in Symbol |-> NONE]
  /\ bars = [s \in Symbol |-> <<>>]
  /\ premarket_bars = [s \in Symbol |-> <<>>]
  /\ decisions = [s \in Symbol |-> <<>>]
  /\ daily_df = {}
  /\ premarket_ctx = [s \in Symbol |-> NONE]
  /\ backfill_done_for = NONE /\ pm_done_for = NONE

----------------------------------------------------------------------------
(* TradingPlatform._on_5min_bar: store the row; evaluate the signal of a   *)
(* row inside the session whose window starts after signal_start_time.     *)

StoreRow(s, row) ==
  IF is_rth(row.timestamp)
    THEN /\ bars' = [bars EXCEPT ![s] = AppendBounded(@, row)]
         /\ UNCHANGED premarket_bars
    ELSE /\ premarket_bars' = [premarket_bars EXCEPT ![s] = Append(@, row)]
         /\ UNCHANGED bars

Evaluates(row) == is_rth(row.timestamp) /\ TimeOfDay(row.timestamp) >= SignalStart

Evaluate(s, row) ==
  IF Evaluates(row)
    THEN decisions' = [decisions EXCEPT ![s] =
           Append(@, [window |-> row.timestamp, at |-> now])]
    ELSE UNCHANGED decisions

_on_5min_bar(s, row) == StoreRow(s, row) /\ Evaluate(s, row)

----------------------------------------------------------------------------
(* BarAggregator.on_minute_bar: four outcomes.                             *)

OpenFirst(s, bar) ==
  /\ window_start[s] = NONE
  /\ buffers' = [buffers EXCEPT ![s] = Append(@, bar)]
  /\ window_start' = [window_start EXCEPT ![s] = _window_start_for(bar.minute)]
  /\ UNCHANGED <<bars, premarket_bars, decisions>>

Extend(s, bar) ==
  /\ window_start[s] = _window_start_for(bar.minute)
  /\ buffers' = [buffers EXCEPT ![s] = Append(@, bar)]
  /\ UNCHANGED <<window_start, bars, premarket_bars, decisions>>

\* mutant: the buffer of the closed window is not cleared
KeepsOldBuffer(buffer, bar) == Append(buffer, bar)
NextBuffer(buffer, bar) == <<bar>>

\* mutant: a late bar reopens its window instead of being dropped
RollBack(s, bar) ==
  /\ window_start[s] # NONE /\ window_start[s] # _window_start_for(bar.minute)
  /\ _on_5min_bar(s, Aggregate(window_start[s], buffers[s]))
  /\ buffers' = [buffers EXCEPT ![s] = NextBuffer(@, bar)]
  /\ window_start' = [window_start EXCEPT ![s] = _window_start_for(bar.minute)]

RollOver(s, bar) ==
  /\ window_start[s] # NONE /\ window_start[s] < _window_start_for(bar.minute)
  /\ _on_5min_bar(s, Aggregate(window_start[s], buffers[s]))
  /\ buffers' = [buffers EXCEPT ![s] = NextBuffer(@, bar)]
  /\ window_start' = [window_start EXCEPT ![s] = _window_start_for(bar.minute)]

DropLate(s, bar) ==
  /\ window_start[s] # NONE /\ window_start[s] > _window_start_for(bar.minute)
  /\ UNCHANGED <<buffers, window_start, bars, premarket_bars, decisions>>

on_minute_bar(s, bar) ==
  \/ OpenFirst(s, bar)
  \/ Extend(s, bar)
  \/ RollOver(s, bar)
  \/ DropLate(s, bar)

\* The positions at which a bar arrived after a younger one.
LateIn(seq) == {i \in DOMAIN seq : \E j \in 1..(i - 1) : seq[j].minute > seq[i].minute}

\* One bar from the stream.  It was published after the process connected,
\* and no bar is published twice.
Receive(s, m, p) ==
  LET bar == [minute |-> m, price |-> p]
  IN  /\ booted <= m /\ m < now /\ now <= m + MaxDelay
      /\ \A i \in DOMAIN received[s] : received[s][i].minute # m
      /\ received' = [received EXCEPT ![s] = Append(@, bar)]
      /\ Cardinality(LateIn(received'[s])) <= MaxLate
      /\ on_minute_bar(s, bar)
      /\ UNCHANGED <<now, booted, routineVars>>

----------------------------------------------------------------------------
(* DailyRoutine: the backfill of daily bars and the pre-market contexts.   *)
(* It polls every 30 seconds; a failing backfill is retried at the next    *)
(* poll, so either may run late, but the contexts follow the backfill.     *)

RunBaselineBackfill(loaded) ==
  /\ backfill_done_for # Day(now) /\ TimeOfDay(now) >= BackfillTime
  /\ daily_df' = daily_df \cup loaded
  /\ backfill_done_for' = Day(now)
  /\ UNCHANGED <<now, booted, streamVars, premarket_ctx, pm_done_for>>

\* mutant: every row outside the session counts as pre-market
OutsideSession(s) == DOMAIN premarket_bars[s]

\* _filter_to_premarket of a symbol's frame: all its rows outside the session
\* are in premarket_bars, and all those in the session are in bars.
PmRows(s) == {i \in DOMAIN premarket_bars[s] : is_premarket(premarket_bars[s][i].timestamp)}

\* The volume of the rows, share by share.
PmVolume(s) ==
  Cardinality({share \in PmRows(s) \X (1..Horizon) :
                 share[2] <= premarket_bars[s][share[1]].bar_count})

\* compute_premarket_context: None without any usable row; the open is that of
\* the first session row of the frame, else the last pre-market close.
PremarketContextOf(s) ==
  IF PmRows(s) = {} /\ bars[s] = <<>> THEN NONE
  ELSE [day |-> Day(now), premarket_volume |-> PmVolume(s),
        open_window |-> IF bars[s] = <<>> THEN premarket_bars[s][Max(PmRows(s))].timestamp
                        ELSE bars[s][1].timestamp]

FrameIsEmpty(s) == premarket_bars[s] = <<>> /\ bars[s] = <<>>

ComputePremarketContexts ==
  /\ backfill_done_for = Day(now) /\ pm_done_for # Day(now)
  /\ TimeOfDay(now) >= SessionOpen
  /\ premarket_ctx' = [s \in Symbol |->
       IF FrameIsEmpty(s) \/ s \notin daily_df THEN premarket_ctx[s] ELSE PremarketContextOf(s)]
  /\ pm_done_for' = Day(now)
  /\ UNCHANGED <<now, booted, streamVars, daily_df, backfill_done_for>>

----------------------------------------------------------------------------

Tick ==
  /\ now < Horizon
  /\ now' = now + 1
  /\ UNCHANGED <<booted, streamVars, routineVars>>

\* The process is stopped or killed and boots again: all of this is in memory.
Restart ==
  /\ booted' = now
  /\ received' = [s \in Symbol |-> <<>>]
  /\ buffers' = [s \in Symbol |-> <<>>]
  /\ window_start' = [s \in Symbol |-> NONE]
  /\ bars' = [s \in Symbol |-> <<>>]
  /\ premarket_bars' = [s \in Symbol |-> <<>>]
  /\ decisions' = [s \in Symbol |-> <<>>]
  /\ daily_df' = {}
  /\ premarket_ctx' = [s \in Symbol |-> NONE]
  /\ backfill_done_for' = NONE /\ pm_done_for' = NONE
  /\ UNCHANGED now

Next ==
  \/ \E s \in Symbol, m \in Minute, p \in Price : Receive(s, m, p)
  \/ \E loaded \in SUBSET Symbol : RunBaselineBackfill(loaded)
  \/ ComputePremarketContexts
  \/ Tick
  \/ Restart

Spec == Init /\ [][Next]_vars

----------------------------------------------------------------------------
(* What the feed promises.                                                 *)

BarsInOrder(rows) ==
  \A i, j \in DOMAIN rows : i < j => rows[i].timestamp < rows[j].timestamp

TypeOK ==
  /\ now \in 0..Horizon /\ booted \in 0..now
  /\ received \in [Symbol -> Seq(MinuteBar)]
  /\ buffers \in [Symbol -> Seq(MinuteBar)]
  /\ window_start \in [Symbol -> Minute \cup {NONE}]
  /\ bars \in [Symbol -> Seq(FiveMinBar)]
  /\ premarket_bars \in [Symbol -> Seq(FiveMinBar)]
  /\ decisions \in [Symbol -> Seq(Decision)]
  /\ daily_df \subseteq Symbol
  /\ premarket_ctx \in [Symbol -> PremarketContext \cup {NONE}]
  /\ backfill_done_for \in Nat \cup {NONE} /\ pm_done_for \in Nat \cup {NONE}
  /\ \A s \in Symbol : Len(bars[s]) <= BarCapacity

\* The reference: the bars no younger window preceded, grouped by window.
AcceptedIn(seq) ==
  {i \in DOMAIN seq : \A j \in 1..(i - 1) :
     _window_start_for(seq[j].minute) <= _window_start_for(seq[i].minute)}
WindowsIn(seq) == {_window_start_for(seq[i].minute) : i \in AcceptedIn(seq)}
ClosedWindowsIn(seq) == {w \in WindowsIn(seq) : \E v \in WindowsIn(seq) : w < v}
ReferenceBar(seq, w) ==
  LET here == {i \in AcceptedIn(seq) : _window_start_for(seq[i].minute) = w}
      prices == {seq[i].price : i \in here}
  IN  [timestamp |-> w, open |-> seq[Min(here)].price, close |-> seq[Max(here)].price,
       high |-> Max(prices), low |-> Min(prices), bar_count |-> Cardinality(here)]
Newest(windows, n) == {w \in windows : Cardinality({v \in windows : v > w}) < n}

\* The rows the signal engine sees are exactly what the received minute bars
\* add up to, window by window and in order, except those the deque has pushed
\* out: no minute is counted twice, attributed to a neighbour or lost when a
\* window rolls over, whatever arrives late or not at all.
RowsMatchReceived ==
  \A s \in Symbol :
    LET closed == ClosedWindowsIn(received[s])
        session == {w \in closed : is_rth(w)}
    IN  /\ Range(bars[s]) = {ReferenceBar(received[s], w) : w \in Newest(session, BarCapacity)}
        /\ Range(premarket_bars[s]) = {ReferenceBar(received[s], w) : w \in closed \ session}
        /\ BarsInOrder(bars[s]) /\ BarsInOrder(premarket_bars[s])

\* A signal is evaluated on a window only when every minute of it is over, and
\* the windows a symbol is evaluated on only go forward: no decision looks
\* ahead or is taken twice.
ClosedBeforeEvaluated ==
  \A s \in Symbol : \A i \in DOMAIN decisions[s] :
    /\ decisions[s][i].window + Window <= decisions[s][i].at
    /\ \A j \in 1..(i - 1) : decisions[s][j].window < decisions[s][i].window

\* A context never claims more pre-market volume than the stream has delivered
\* since boot in pre-market minutes up to its day.
DeliveredIn(seq, day) ==
  {i \in DOMAIN seq : is_premarket(seq[i].minute) /\ Day(seq[i].minute) <= day}
VolumeWasReceived ==
  \A s \in Symbol : premarket_ctx[s] # NONE =>
    premarket_ctx[s].premarket_volume <= Cardinality(DeliveredIn(received[s], premarket_ctx[s].day))

=============================================================================
