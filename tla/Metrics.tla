------------------------------ MODULE Metrics ------------------------------
(* strategy/llm/metrics.py: what became of a decision, computed from the     *)
(* one-minute bars after it. Bars are [minute, low, high, close], minutes    *)
(* counted from the decision; returns and excursions are price differences,  *)
(* which the code divides by the decision's price.                           *)
EXTENDS Integers, Sequences, FiniteSetsExt

CONSTANTS
    None,
    Horizons,    \* the minutes after which a return is taken, ascending
    EodMinute    \* 15:55, in minutes from the decision

ASSUME MetricsAssumption == Horizons \in Seq(Int) /\ EodMinute \in Int

direction(side) == IF side = "sell" THEN -1 ELSE 1
Adverse(side, b) == IF side = "sell" THEN b.high ELSE b.low
Favorable(side, b) == IF side = "sell" THEN b.low ELSE b.high

StopIsHit(d, b) == /\ d.side # "hold" /\ d.stop # None
                   /\ IF d.side = "sell" THEN b.high >= d.stop ELSE b.low <= d.stop
TargetIsHit(d, b) == /\ d.side # "hold" /\ d.target # None
                     /\ IF d.side = "sell" THEN b.low <= d.target ELSE b.high >= d.target

(* Outcomes read the bars at or after the decision, in their order; a set of *)
(* places stands for some of them, 0 for no bar.                             *)
Relevant(bars) == {i \in DOMAIN bars : bars[i].minute >= 0}
First(places) == IF places = {} THEN 0 ELSE Min(places)
MinuteOf(bars, i) == IF i = 0 THEN None ELSE bars[i].minute

Move(d, price) == direction(d.side) * (price - d.price)

(* The worst (sign = -1) or best (sign = 1) excursion, 0 if there was none,  *)
(* with the minute of the first bar that reached it.                         *)
Excess(d, b, sign) ==
    sign * Move(d, IF sign = -1 THEN Adverse(d.side, b) ELSE Favorable(d.side, b))

Most(d, bars, sign) == Max({Excess(d, bars[i], sign) : i \in Relevant(bars)} \cup {0})

Excursion(d, bars, sign) ==
    LET most    == Most(d, bars, sign)
        reached == {i \in Relevant(bars) : Excess(d, bars[i], sign) = most}
    IN  [by |-> sign * most,
         minute |-> IF most = 0 THEN 0 ELSE MinuteOf(bars, First(reached))]

ReturnAt(d, bars, h) ==
    LET i == First({j \in Relevant(bars) : bars[j].minute >= h})
    IN  IF i = 0 THEN None ELSE Move(d, bars[i].close)

EodReturn(d, bars) ==
    LET before == {i \in Relevant(bars) : bars[i].minute <= EodMinute}
    IN  IF before = {} THEN None ELSE Move(d, bars[Max(before)].close)

first_touch_LastWins(d, s, t) ==  \* mutant: a later touch overwrites the first
    IF d.side = "hold" THEN "n/a"
    ELSE IF s = 0 /\ t = 0 THEN "neither"
    ELSE IF s >= t THEN "stop" ELSE "target"

(* The stop is looked at before the target of the same bar.                  *)
first_touch(d, s, t) ==
    IF d.side = "hold" THEN "n/a"
    ELSE IF s = 0 /\ t = 0 THEN "neither"
    ELSE IF s # 0 /\ (t = 0 \/ s <= t) THEN "stop" ELSE "target"

(* The number of horizons the bars reach over; one more when they reach the  *)
(* close ("final").                                                          *)
FinalHorizon == Len(Horizons) + 1

horizon_complete(last) ==
    IF last >= EodMinute THEN FinalHorizon
    ELSE Max({0} \cup {i \in DOMAIN Horizons : last >= Horizons[i]})

EmptyOutcome(d) ==
    [returns |-> [h \in DOMAIN Horizons |-> None], eod |-> None, mae |-> None, mfe |-> None,
     stopAt |-> None, targetAt |-> None,
     first_touch |-> IF d.side = "hold" THEN "n/a" ELSE "neither",
     horizon_complete |-> 0]

compute_outcome(d, bars) ==
    LET s == First({i \in Relevant(bars) : StopIsHit(d, bars[i])})
        t == First({i \in Relevant(bars) : TargetIsHit(d, bars[i])})
    IN  IF Relevant(bars) = {} THEN EmptyOutcome(d)
        ELSE [returns |-> [h \in DOMAIN Horizons |-> ReturnAt(d, bars, Horizons[h])],
              eod |-> EodReturn(d, bars),
              mae |-> Excursion(d, bars, -1), mfe |-> Excursion(d, bars, 1),
              stopAt |-> MinuteOf(bars, s), targetAt |-> MinuteOf(bars, t),
              first_touch |-> first_touch(d, s, t),
              horizon_complete |-> horizon_complete(bars[Max(Relevant(bars))].minute)]

Distance(a, b) == IF a < b THEN b - a ELSE a - b

(* _compute_target_price of the backfill: the ratio is the configured one.   *)
_compute_target_price(side, price, stop, tp_atr, stop_atr) ==
    price + direction(side) * ((Distance(price, stop) * tp_atr) \div stop_atr)

(* compute_realized_r, in hundredths.                                        *)
compute_realized_r(d, outcome) ==
    LET risk == Distance(d.price, d.stop)
    IN  IF d.side = "hold" \/ d.stop = None THEN None
        ELSE IF outcome.first_touch = "stop" THEN -100
        ELSE IF outcome.first_touch = "target" THEN d.tpMultiple \div d.stopMultiple
        ELSE IF outcome.eod = None \/ risk = 0 THEN None
        ELSE (100 * outcome.eod) \div risk
=============================================================================
