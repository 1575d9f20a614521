----------------------------- MODULE Evaluation -----------------------------
(* One evaluation of one ticker: the rule-based decision on a bar, then the  *)
(* shadow path beside it (context, advice of the language models, policy,    *)
(* shadow row and synthetic order) and the outcome the backfill computes     *)
(* from the minute bars that follow, however many of them it finds.          *)
(* Composes Signals, Tiers, Policy and Metrics.                              *)
EXTENDS Signals, Tiers, Policy, Metrics

CONSTANTS
    Frames,        \* what the indicators may show on a bar
    Situations,    \* what the shadow path may find: position, quotes, market
    Answers,       \* what a client may answer, before validation
    Analyses,      \* the analysis that comes with an advice
    Healths,       \* health states
    Tables,        \* bucket tables
    Bars,          \* minute bars
    MaxBars        \* bound: bars an outcome is computed from

(* What the code compares; ratios, prices and returns are scaled to integers. *)
Situation == [market : [spy : Int, vix : Int \cup {NONE}, breadth : Int], cap : STRING,
              minutes : Int, position : Int, flags : SUBSET STRING, pm_rvol : Int,
              ratio : Int, spread : Int, capacity : BOOLEAN]

ASSUME EvaluationAssumption ==
    /\ Frames \subseteq Frame
    /\ Situations \subseteq Situation
    /\ Answers \subseteq [action : STRING, confidence : Int, stop : Int, tp : Int]
    /\ \A t \in Tables : \A key \in DOMAIN t : t[key] \in BucketStats
    /\ Bars \subseteq [minute : Int, low : Int, high : Int, close : Int]
    /\ MaxBars \in Nat

VARIABLES
    stage,         \* "bar", "judged", "asked", "decided", "logged"
    frame, trade,  \* what the rule-based path saw and decided
    input,         \* the PolicyInput, with the first tier's own advice
    final,         \* the FinalTradeDecision
    plan, later    \* the decision as the backfill reads it, and its bars

evaluationVars == <<stage, frame, trade, input, final, plan, later>>

Nothing == NONE
OpenActions == {"Buy", "Sell"}

-----------------------------------------------------------------------------
(* classify_regime: returns and breadth in per mille, the VIX ratio in       *)
(* percent of its median, NONE when unknown.                                 *)
classify_regime(m) ==
    IF m.spy <= -70 /\ m.vix # NONE /\ m.vix >= 175 THEN "crash"
    ELSE IF m.spy >= 30 /\ m.breadth >= 20 /\ (m.vix # NONE => m.vix <= 130) THEN "trending_up"
    ELSE IF m.spy <= -30 /\ m.breadth <= -20 THEN "trending_down"
    ELSE "choppy"

(* build_llm_context, in the fields that decide anything later.              *)
build_llm_context(s) ==
    [market_regime_label |-> classify_regime(s.market), market_cap_bucket |-> s.cap,
     minutes_since_open |-> s.minutes, position_qty |-> s.position,
     catalyst_flags |-> s.flags, pm_rvol |-> s.pm_rvol]

(* _volume_to_percentile, of a ratio in hundredths.                          *)
_volume_to_percentile(ratio) ==
    IF ratio <= 50 THEN 10
    ELSE IF ratio >= 300 THEN 95
    ELSE IF ratio <= 100 THEN 10 + ((ratio - 50) * 40) \div 50
    ELSE 50 + ((ratio - 100) * 45) \div 200

build_market_features(s) ==
    LET percentile == _volume_to_percentile(s.ratio)
    IN  [spread_bps |-> s.spread, rvol_percentile |-> percentile,
         has_red_flag |-> s.spread > 50 \/ percentile < 20 \/ s.ratio < 70]

-----------------------------------------------------------------------------
EvaluationInit ==
    /\ stage = "bar"
    /\ frame = Nothing /\ trade = Nothing /\ input = Nothing
    /\ final = Nothing /\ plan = Nothing /\ later = <<>>

(* _evaluate_and_execute up to the shadow path.                              *)
EvaluateRules(f) ==
    LET tech == generate_signal(f)
    IN  /\ stage = "bar"
        /\ stage' = "judged"
        /\ frame' = f
        /\ trade' = IF Vetoed(tech, f.earningsToday) THEN Nothing
                    ELSE evaluate_trade(f.sentiment, tech, f.walls, f.wallsRequired)
        /\ UNCHANGED <<input, final, plan, later>>

(* _run_llm_shadow up to the advice. It reads nothing of what the rules       *)
(* decided on the bar, so the two are followed one at a time.                *)
Ask(s, first, second) ==
    LET ctx == build_llm_context(s)
        t1  == IF first \in Errors THEN first ELSE Validated(first)
        t2  == IF second \in Errors \cup {NoClient} THEN second ELSE Validated(second)
    IN  /\ stage = "bar"
        /\ stage' = "asked"
        /\ input' = [ctx |-> ctx, features |-> build_market_features(s), first |-> t1,
                     advisory |-> evaluate(ctx, t1, t2, s.capacity, 50, 75, 3)]
        /\ UNCHANGED <<frame, trade, final, plan, later>>

(* The bucket lookup and policy_decide.                                      *)
Decide(analysis, health, table) ==
    LET key  == bucket_key_for(input.ctx.market_regime_label, input.ctx.market_cap_bucket,
                               analysis.catalyst_quality, input.ctx.minutes_since_open,
                               input.advisory.action)
        full == [ctx |-> input.ctx, features |-> input.features, first |-> input.first,
                 advisory |-> input.advisory, analysis |-> analysis, health |-> health,
                 bucket |-> hierarchical_lookup(key, table)]
    IN  /\ stage = "asked"
        /\ stage' = "decided"
        /\ input' = full
        /\ final' = decide(full)
        /\ UNCHANGED <<frame, trade, plan, later>>

(* The shadow row and, for a trade, the synthetic order with its stop; the   *)
(* backfill takes entry and stop from them and the target from the config.   *)
Log(price, daily_atr) ==
    LET side == IF final.action = "Buy" THEN "buy" ELSE "sell"
        stop == price - direction(side) * ((final.stop * daily_atr) \div 100)
    IN  /\ stage = "decided" /\ final.action \in OpenActions
        /\ stage' = "logged"
        /\ plan' = [side |-> side, price |-> price, stop |-> stop,
                    target |-> _compute_target_price(side, price, stop, 200, 150),
                    stopMultiple |-> final.stop, tpMultiple |-> final.tp]
        /\ input' = Nothing /\ final' = Nothing
        /\ UNCHANGED <<frame, trade, later>>

(* A minute bar that a later backfill would find; minutes may be missing.    *)
NextBar(b) ==
    /\ stage = "logged" /\ Len(later) < MaxBars
    /\ later # <<>> => b.minute > later[Len(later)].minute
    /\ later' = Append(later, b)
    /\ UNCHANGED <<stage, frame, trade, input, final, plan>>

EvaluationNext ==
    \/ \E f \in Frames : EvaluateRules(f)
    \/ \E s \in Situations, first \in Answers \cup Errors,
          second \in Answers \cup Errors \cup {NoClient} : Ask(s, first, second)
    \/ \E a \in Analyses, h \in Healths, t \in Tables : Decide(a, h, t)
    \/ Log(100, 10)
    \/ \E b \in Bars : NextBar(b)

EvaluationSpec == EvaluationInit /\ [][EvaluationNext]_evaluationVars

-----------------------------------------------------------------------------
(* The market seen in a mirror: every distance changes its sign, lows and    *)
(* highs and the two sides of walls change places.                           *)
MirrorAction(a) == IF a = "Buy" THEN "Sell" ELSE IF a = "Sell" THEN "Buy" ELSE a

MirrorWalls(w) == IF w = NONE THEN NONE ELSE <<{-d : d \in w[2]}, {-d : d \in w[1]}>>

MirrorSession(s) == [s EXCEPT !.gap = -@, !.overLow = -s.overHigh, !.overHigh = -s.overLow]

Mirror(f) == [f EXCEPT !.session = MirrorSession(@), !.walls = MirrorWalls(@), !.sentiment = Neg(@),
                       !.history.overSma200 = -@,
                       !.overSma20 = -@, !.rsi = 100 - @, !.hist = <<-@[1], -@[2]>>,
                       !.di = -@, !.overVwap = -@]

Combined(f) == evaluate_trade(f.sentiment, generate_signal(f), f.walls, f.wallsRequired)

(* A falling market is judged exactly as a rising one: the buy and the sell  *)
(* side of gap-and-go, pullback, sentiment and walls, written out twice in   *)
(* the code, give mirrored decisions of equal confidence.                    *)
MirrorImage ==
    frame # Nothing =>
        LET there == Combined(Mirror(frame))
            here  == Combined(frame)
        IN  /\ there.action = MirrorAction(here.action)
            /\ there.confidence = here.confidence
            /\ there.walls = here.walls

(* Whatever the second tier answers and the policy finds, an account without *)
(* a position only trades in the direction the first tier itself advised;    *)
(* its failure and a disagreement of the two trade nothing.                  *)
TradesOnlyAsFirstAdvised ==
    stage = "decided" /\ final.action \in OpenActions /\ input.ctx.position_qty = 0
        => input.first \notin Errors /\ input.first.action = final.action

Worse(f, g) == /\ f.spread_bps >= g.spread_bps
               /\ f.rvol_percentile <= g.rvol_percentile
               /\ g.has_red_flag => f.has_red_flag

FeaturesOf(s) == build_market_features(s)

(* The policy only ever tightens: with worse liquidity or a lower expectancy *)
(* of the bucket, all else equal, the size never grows; a new position keeps *)
(* the demanded ratio of reward to risk and no stop nearer than advised.     *)
PolicyOnlyTightens ==
    stage = "decided" =>
        /\ \A s \in Situations :
             Worse(FeaturesOf(s), input.features) =>
                 Rank(decide([input EXCEPT !.features = FeaturesOf(s)]).qty_tier)
                     <= Rank(final.qty_tier)
        /\ Rank(decide([input EXCEPT !.bucket.expected_r_lower_ci = @ - 20]).qty_tier)
               <= Rank(final.qty_tier)
        /\ final.action \in OpenActions /\ input.ctx.position_qty = 0 =>
               /\ final.tp >= PolicyConfig.min_reward_to_risk * final.stop
               /\ final.stop >= input.advisory.stop

Settled(before, after) == before # None => after = before

Verdict == compute_outcome(plan, later)

(* What a backfill has decided from some bars stands when it is computed     *)
(* again from more: touches, horizon returns and, once final, the return at  *)
(* the close; excursions only widen. An outcome written too early is         *)
(* incomplete, never wrong.                                                  *)
VerdictStands ==
    [][plan # Nothing =>
         LET o == Verdict
             n == Verdict'
         IN  /\ Settled(o.stopAt, n.stopAt) /\ Settled(o.targetAt, n.targetAt)
             /\ o.first_touch # "neither" => n.first_touch = o.first_touch
             /\ \A h \in DOMAIN Horizons : Settled(o.returns[h], n.returns[h])
             /\ o.horizon_complete = FinalHorizon => Settled(o.eod, n.eod)
             /\ o.mae # None => n.mae.by <= o.mae.by /\ n.mfe.by >= o.mfe.by]_evaluationVars
=============================================================================
