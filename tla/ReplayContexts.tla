---------------------------- MODULE ReplayContexts ----------------------------
(***************************************************************************)
(* What the replay lets a decision know: the slices of a day's frames that *)
(* build_tick_context and run_day_base_ticks take at a tick.               *)
(*                                                                         *)
(* Time is counted in minutes, DayLen of them to a day, days from 0. A bar *)
(* is the minute it begins at, as the feed labels it; an article the       *)
(* minute of its publication, its score the minute it was scored. A daily  *)
(* close is its day.                                                       *)
(***************************************************************************)
EXTENDS Naturals, FiniteSetsExt

CONSTANTS DayLen, Open, Close, \* minutes of a day, of its session
          BarLen,              \* minutes between ticks, and in a bar of five
          LastDay,             \* the run covers days 1 to LastDay
          NewsLookback, NewsLag, NewsMax,
          SentimentAge, RvolBars, PmDays,
          NoTick               \* nothing evaluated yet

ASSUME ContextAssumption == /\ {DayLen, Open, Close, BarLen, LastDay, NewsLookback, NewsLag,
                                 NewsMax, SentimentAge} \subseteq Nat
                            /\ 0 < Open /\ Open < Close /\ Close <= DayLen /\ 0 < BarLen
                            /\ NewsLookback <= DayLen   \* LLM_NEWS_LOOKBACK_HOURS: a day

VARIABLES data,      \* what the feeds hold of all days when the replay runs
          at,        \* the minute evaluated
          context,   \* what the model's context was built of
          basis      \* what the base signals were built of
contextVars == <<data, at, context, basis>>

Day(m) == m \div DayLen
Minute(m) == m % DayLen
Minutes == 0 .. (LastDay + 1) * DayLen - 1
Session(m) == Open <= Minute(m) /\ Minute(m) < Close

tick_times_for_day(d) == {m \in Minutes : Day(m) = d /\ Session(m) /\ ((Minute(m) - Open) % BarLen) = 0}

(* SPY trades in every bar of every session of the run; a bar holds the    *)
(* minutes from its label on.                                              *)
spy_5min == {m \in Minutes : Day(m) \in 1 .. LastDay /\ Session(m) /\ ((Minute(m) - Open) % BarLen) = 0}
MinutesOf(bars) == UNION {b .. b + BarLen - 1 : b \in bars}
----------------------------------------------------------------------------
(* The newest n of a set of minutes.                                       *)
Newest(s, n) == {m \in s : Cardinality({k \in s : k > m}) < n}
Prefix(s, m) == {k \in s : Day(k) = Day(m) /\ k <= m}

(* Nothing bounds the time of publication from above.                      *)
filter_visible_at_NoLag(items, m) == {a \in items : a + NewsLookback >= m}

filter_visible_at(items, m) == {a \in items : a + NewsLag <= m /\ a + NewsLookback >= m}

(* The news of the day before and of the day are loaded.                   *)
news_items(d) == {a \in data.articles : Day(a) \in {d - 1, d}}

_slice_daily_before(d) == {k \in 0 .. LastDay : k < d}
_resolve_vix_level(d) == LET known == {k \in data.vix : k <= d} IN IF known = {} THEN {} ELSE {Max(known)}
_derive_pm_volume_history(d) ==
    LET days == {k \in 0 .. LastDay : k < d /\ \E m \in data.minutes : Day(m) = k /\ Minute(m) < Open}
    IN  Newest(days, PmDays)

(* The pre-market bars of the day and the open of the first bar of its     *)
(* session, whichever that is.                                             *)
compute_premarket_context(d) ==
    LET session == {m \in data.minutes : Day(m) = d /\ Session(m)}
    IN  [bars |-> {m \in data.minutes : Day(m) = d /\ Minute(m) < Open},
         open |-> IF session = {} THEN {} ELSE {Min(session)}]

build_tick_context(m) ==
    LET d == Day(m)
        news == Newest(filter_visible_at(news_items(d), m), NewsMax)
    IN  [minutes |-> Prefix(data.minutes, m),
         news |-> news,
         scores |-> {data.scored[a] : a \in news},
         spy |-> MinutesOf(Prefix(spy_5min, m)),
         baseline |-> MinutesOf(Newest(spy_5min, RvolBars)),
         vix |-> _resolve_vix_level(d),
         dailies |-> _slice_daily_before(d) \union _derive_pm_volume_history(d),
         premarket |-> compute_premarket_context(d)]

latest_sentiment(m) == Newest({s \in {data.scored[a] : a \in data.articles} : s <= m /\ s + SentimentAge >= m}, 1)

(* The bars of five minutes of the whole session are cut at the tick; the  *)
(* one that begins at the tick holds the minutes behind it.                *)
five_min(m) == {k \in data.minutes : Day(k) = Day(m) /\ Session(k) /\ k - ((Minute(k) - Open) % BarLen) <= m}

base_inputs(m) == [minutes |-> five_min(m),
                   sentiment |-> latest_sentiment(m),
                   dailies |-> _slice_daily_before(Day(m)),
                   premarket |-> compute_premarket_context(Day(m))]
----------------------------------------------------------------------------
(* One minute may have no trade, two articles are published and scored     *)
(* later, and the last closes of the VIX may not be out yet.               *)
Halts == {0} \union DayLen + Open .. DayLen + Close - 1
Publications == {{}} \union {{a, b} : a, b \in DayLen .. (LastDay + 1) * DayLen - 1}

DataOf(halted, articles, delay, out) ==
    [minutes |-> Minutes \ {m \in Minutes : halted <= m /\ m < halted + BarLen},
     articles |-> articles, scored |-> [a \in articles |-> a + delay], vix |-> 0 .. out]

ContextsInit ==
    /\ \E halted \in Halts, articles \in Publications, delay \in {0, BarLen}, out \in 0 .. LastDay :
          data = DataOf(halted, articles, delay, out)
    /\ at = NoTick /\ context = NoTick /\ basis = NoTick

run_day_ticks == /\ \E m \in Minutes :
                       /\ m \in tick_times_for_day(Day(m))
                       /\ Day(m) \in 1 .. LastDay
                       /\ at # NoTick => m > at
                       /\ at' = m
                       /\ context' = build_tick_context(m)
                 /\ basis' = NoTick
                 /\ UNCHANGED data

run_day_base_ticks == /\ at # NoTick
                      /\ basis = NoTick
                      /\ basis' = base_inputs(at)
                      /\ UNCHANGED <<data, at, context>>

ContextsNext == run_day_ticks \/ run_day_base_ticks

ContextsSpec == ContextsInit /\ [][ContextsNext]_contextVars
----------------------------------------------------------------------------
(* A decision knows nothing of what comes after its tick but the minute    *)
(* that begins with it and, of SPY, the bar of five minutes that does: its *)
(* close and volume are of up to a bar's length later. Of SPY it knows all *)
(* of the session so far. It knows no other day but the closes before and  *)
(* the VIX of the day, of its pre-market nothing later, and where nothing  *)
(* was traded since the open, the first price to come. Of the news of the  *)
(* hours it looks back it misses none but for newer ones, though only two  *)
(* days were loaded. The base signals it is compared with know its bars    *)
(* and up to a bar of five minutes more.                                   *)
(*                                                                         *)
(* Two things are left out. The average that SPY's volume is compared with *)
(* is that of the last bars of the run, at every tick, and an article's    *)
(* score is known whenever it was made (baseline, scores).                 *)
ContextsArePast ==
    context # NoTick =>
        /\ \A m \in context.minutes : m <= at
        /\ \A m \in context.spy : m < at + BarLen
        /\ \A m \in Minutes : Day(m) = Day(at) /\ Session(m) /\ m <= at => m \in context.spy
        /\ \A k \in context.dailies : k < Day(at)
        /\ \A k \in context.vix : k <= Day(at)
        /\ \A m \in context.premarket.bars : m < at
        /\ \A m \in context.premarket.open :
              m <= at \/ {k \in context.minutes : Day(k) = Day(at) /\ Session(k)} = {}
        /\ \A a \in context.news : a + NewsLag <= at
        /\ \A a \in data.articles : a + NewsLag <= at /\ a + NewsLookback >= at =>
              a \in context.news \/ Cardinality({b \in context.news : b > a}) = NewsMax
        /\ basis # NoTick =>
              /\ {m \in context.minutes : Session(m)} \subseteq basis.minutes
              /\ \A m \in basis.minutes : m < at + BarLen
              /\ \A s \in basis.sentiment : s <= at
=============================================================================
