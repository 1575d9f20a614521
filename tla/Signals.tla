------------------------------ MODULE Signals ------------------------------
(* The rule-based decision on one five-minute bar: the technical signal of   *)
(* analysis/indicators.py and strategy/signals/, and its combination with    *)
(* sentiment and walls in strategy/signal_engine.py.                         *)
(*                                                                           *)
(* A frame holds what the code compares, not the prices behind it: distances *)
(* of the last close from a level in per mille of the level (gaps and walls  *)
(* in tenths of a percent), NONE where the code has None or NaN.             *)
EXTENDS Integers

CONSTANT NONE

Frame ==
    [minute : Int, rthBars : Int, adx : Int, di : Int, rsi : Int, hist : Int \X Int,
     overSma20 : Int, overVwap : Int, volumeSpike : BOOLEAN, sentiment : Int \cup {NONE},
     walls : {NONE} \cup ((SUBSET Int) \X (SUBSET Int)), wallsRequired : BOOLEAN,
     earningsToday : BOOLEAN, history : [bars : Int, overSma200 : Int, adx : Int],
     session : [dailyBars : Int, premarket : BOOLEAN, opened : BOOLEAN, gap : Int,
                wideGap : BOOLEAN, overLow : Int, overHigh : Int, volume : Int,
                baseline : Nat, threshold : Int]]

TechnicalSignal == [signal : {"Buy", "Sell", "Hold"}, confidence : Int,
                    setup : {"none", "gap_and_go", "pullback"}]
DailyContext == [regime : {"bull", "bear", "neutral"}, is_trending : BOOLEAN]
PremarketContext == [gap : Int, wideGap : BOOLEAN, rvol : Int, overLow : Int \cup {NONE},
                     overHigh : Int \cup {NONE}, is_unusual_volume : BOOLEAN]

(* None is told apart from everything the code computes.                     *)
ASSUME SignalsAssumption ==
    /\ NONE \notin Int
    /\ NONE \notin (SUBSET Int) \X (SUBSET Int)
    /\ NONE \notin TechnicalSignal
    /\ NONE \notin DailyContext
    /\ NONE \notin PremarketContext

EXTREME_RVOL_THRESHOLD == 10
RSI_OVERSOLD   == 35
RSI_OVERBOUGHT == 65
ADX_TREND_MIN  == 20

AtMost(cap, n) == IF n > cap THEN cap ELSE n
Bonus(condition, points) == IF condition THEN points ELSE 0

Signal(action, confidence, setup) ==
    [signal |-> action, confidence |-> AtMost(100, confidence), setup |-> setup]
HoldSignal == Signal("Hold", 0, "none")

(* compute_daily_context of at least 200 daily bars: half a percent around   *)
(* the 200-day mean is neutral.                                              *)
regime(overSma200) == IF overSma200 > 5 THEN "bull"
                      ELSE IF overSma200 < -5 THEN "bear" ELSE "neutral"

compute_daily_context(history) ==
    IF history.bars < 200 THEN NONE
    ELSE [regime |-> regime(history.overSma200), is_trending |-> history.adx > ADX_TREND_MIN]

(* compute_premarket_context: levels of the pre-market bars, NONE (NaN) when *)
(* there are none; the gap of the open, or of the last pre-market price; and *)
(* its volume over the mean of the baseline, 0 without one.                  *)
compute_premarket_context(s) ==
    LET level(d) == IF s.premarket THEN d ELSE NONE
        rvol == IF s.baseline = 0 \/ ~s.premarket THEN 0 ELSE s.volume \div s.baseline
    IN  IF s.dailyBars < 15 \/ ~(s.premarket \/ s.opened) THEN NONE
        ELSE [gap |-> s.gap, wideGap |-> s.wideGap, rvol |-> rvol,
              overLow |-> level(s.overLow), overHigh |-> level(s.overHigh),
              is_unusual_volume |-> rvol >= s.threshold]

(* What generate_signal is given.                                            *)
Daily(f) == compute_daily_context(f.history)
Pm(f) == compute_premarket_context(f.session)

InGapAndGoWindow(f) == f.minute \in 5 .. 30

(* One side of check_gap_and_go: `gap` and the distances from the level that *)
(* must hold and from the level whose break confirms, all counted in the     *)
(* direction of the trade.                                                   *)
GapAndGo(action, gap, overHold, overBreak, aligned, pm) ==
    IF gap < 10 \/ overHold = NONE \/ overHold < -2 THEN NONE
    ELSE Signal(action,
                70 + Bonus(pm.rvol >= EXTREME_RVOL_THRESHOLD, 10)
                   + Bonus(overBreak # NONE /\ overBreak > 0, 10)
                   + Bonus(aligned, 10),
                "gap_and_go")

Neg(n) == IF n = NONE THEN NONE ELSE -n

check_gap_and_go(f) ==
    LET pm == Pm(f)
        regimeIs(r) == Daily(f) # NONE /\ Daily(f).regime = r
    IN  IF ~pm.is_unusual_volume \/ ~InGapAndGoWindow(f) THEN NONE
        ELSE IF pm.gap >= 10
        THEN GapAndGo("Buy", pm.gap, pm.overLow, pm.overHigh, regimeIs("bull"), pm)
        ELSE GapAndGo("Sell", -pm.gap, Neg(pm.overHigh), Neg(pm.overLow),
                      regimeIs("bear"), pm)

(* compute_intraday_indicators leaves every column empty below 50 bars.      *)
compute_intraday_indicators(f) == f.rthBars >= 50

Warm(f) == Daily(f) # NONE /\ compute_intraday_indicators(f)

BuyPullback(f) ==
    /\ Daily(f).regime = "bull" /\ Daily(f).is_trending
    /\ f.overSma20 > 0
    /\ f.rsi < RSI_OVERSOLD
    /\ f.hist[1] < 0 /\ f.hist[2] > 0
    /\ f.overVwap > -3

SellPullback_SameSideOfVwap(f) ==  \* mutant: the bound of the buy side, not mirrored
    /\ Daily(f).regime = "bear" /\ Daily(f).is_trending
    /\ f.overSma20 < 0
    /\ f.rsi > RSI_OVERBOUGHT
    /\ f.hist[1] > 0 /\ f.hist[2] < 0
    /\ f.overVwap > -3

SellPullback(f) ==
    /\ Daily(f).regime = "bear" /\ Daily(f).is_trending
    /\ f.overSma20 < 0
    /\ f.rsi > RSI_OVERBOUGHT
    /\ f.hist[1] > 0 /\ f.hist[2] < 0
    /\ f.overVwap < 3

PullbackConfidence(f, diAgrees, gapHolds) ==
    60 + Bonus(f.adx > ADX_TREND_MIN, 15) + Bonus(diAgrees, 15)
       + Bonus(f.volumeSpike, 10) + Bonus(gapHolds, 15)

(* check_pullback: NONE when nothing matched, Hold while the indicators warm *)
(* up and against a gap of more than half a daily range.                     *)
check_pullback(f) ==
    LET pm  == Pm(f)
        has == pm # NONE
    IN  IF ~Warm(f) THEN HoldSignal
        ELSE IF BuyPullback(f)
        THEN IF has /\ pm.gap < 0 /\ pm.wideGap THEN HoldSignal
             ELSE Signal("Buy",
                    PullbackConfidence(f, f.di > 0,
                        has /\ pm.gap > 3 /\ pm.overLow # NONE /\ pm.overLow > 0),
                    "pullback")
        ELSE IF SellPullback(f)
        THEN IF has /\ pm.gap > 0 /\ pm.wideGap THEN HoldSignal
             ELSE Signal("Sell",
                    PullbackConfidence(f, f.di < 0,
                        has /\ pm.gap < -3 /\ pm.overHigh # NONE /\ pm.overHigh < 0),
                    "pullback")
        ELSE NONE

(* generate_signal: nothing before 9:35; gap-and-go comes first.             *)
generate_signal(f) ==
    LET gng == IF Pm(f) = NONE THEN NONE ELSE check_gap_and_go(f)
        pb  == check_pullback(f)
    IN  IF f.minute < 5 THEN HoldSignal
        ELSE IF gng # NONE THEN gng
        ELSE IF pb # NONE THEN pb ELSE HoldSignal

-----------------------------------------------------------------------------
SentimentMin(setup) == IF setup = "pullback" THEN 5 ELSE 3

_wall_status(walls, is_buy) ==
    IF walls = NONE THEN "absent"
    ELSE LET support == walls[1]
             resistance == walls[2]
         IN  IF is_buy
             THEN IF \E d \in resistance : 0 < d /\ d <= 3 THEN "blocking"
                  ELSE IF \E d \in support : -10 <= d /\ d <= 0 THEN "aligned"
                  ELSE "absent"
             ELSE IF \E d \in support : -3 <= d /\ d < 0 THEN "blocking"
                  ELSE IF \E d \in resistance : 0 <= d /\ d <= 10 THEN "aligned"
                  ELSE "absent"

SentimentAgrees(score, setup, is_buy) ==
    /\ score # NONE
    /\ IF is_buy THEN score >= SentimentMin(setup) ELSE score <= -SentimentMin(setup)

(* evaluate_trade                                                            *)
evaluate_trade(sentiment, tech, walls, require_walls_for_pullback) ==
    LET is_buy == tech.signal = "Buy"
        status == _wall_status(walls, is_buy)
        gates  == /\ SentimentAgrees(sentiment, tech.setup, is_buy)
                  /\ status # "blocking"
                  /\ tech.setup = "pullback" /\ require_walls_for_pullback => status = "aligned"
    IN  [action     |-> IF tech.signal # "Hold" /\ gates THEN tech.signal ELSE "Hold",
         setup      |-> tech.setup,
         confidence |-> tech.confidence,
         walls      |-> IF tech.signal = "Hold" THEN "n/a" ELSE status]

(* _evaluate_and_execute up to the decision: a gap-and-go on an earnings day *)
(* is vetoed before anything else is asked.                                  *)
Vetoed(tech, earningsToday) ==
    tech.signal # "Hold" /\ tech.setup = "gap_and_go" /\ earningsToday

(* _trade_to_llm_decision of the replay: the action and the confidence pass. *)
_trade_to_llm_decision(td) == [action |-> td.action, confidence |-> td.confidence]
=============================================================================
