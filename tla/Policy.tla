------------------------------- MODULE Policy -------------------------------
(* strategy/llm/policy.py: the deterministic gates between the advice of the *)
(* language models and a trade. Stops and R are in hundredths, targets in     *)
(* hundredths of those (so that the ratio of reward to risk is exact),       *)
(* spreads in basis points, volume percentiles in percent.                   *)
EXTENDS Integers, FiniteSetsExt

CONSTANT PolicyConfig    \* a record of the tunable parameters

ASSUME PolicyAssumption ==
    /\ PolicyConfig.sample_min_for_normal_tier \in Nat \ {0}
    /\ PolicyConfig.sample_min_for_max_tier >= PolicyConfig.sample_min_for_normal_tier
    /\ PolicyConfig.expected_r_for_max_tier > 0
    /\ PolicyConfig.min_reward_to_risk \in Nat \ {0}
    /\ {PolicyConfig.sample_min_for_max_tier, PolicyConfig.expected_r_for_max_tier,
        PolicyConfig.spread_bps_red_flag, PolicyConfig.rvol_percentile_red_flag,
        PolicyConfig.liquidity_max_spread_bps, PolicyConfig.liquidity_min_rvol_percentile,
        PolicyConfig.stop_atr_clamp_choppy} \subseteq Int

Tiers == <<"zero", "tiny", "normal", "max">>
Rank(tier) == CHOOSE i \in DOMAIN Tiers : Tiers[i] = tier

_TIER_DOWNGRADE(tier) == Tiers[Max({1, Rank(tier) - 1})]

BucketStats == [sample_count : Int, expected_r_lower_ci : Int]

(* BucketStats.empty                                                         *)
EmptyBucket == [sample_count |-> 0, expected_r_lower_ci |-> 0]

(* Step 6. A tier of zero is the rejection for negative expectancy.          *)
_tier_from_bucket(bucket) ==
    IF bucket.sample_count < PolicyConfig.sample_min_for_normal_tier THEN "tiny"
    ELSE IF bucket.expected_r_lower_ci <= 0 THEN "zero"
    ELSE IF /\ bucket.expected_r_lower_ci > PolicyConfig.expected_r_for_max_tier
            /\ bucket.sample_count > PolicyConfig.sample_min_for_max_tier
    THEN "max" ELSE "normal"

(* Step 7.                                                                   *)
RedFlag(features) ==
    \/ features.spread_bps > PolicyConfig.spread_bps_red_flag
    \/ features.rvol_percentile < PolicyConfig.rvol_percentile_red_flag
    \/ features.has_red_flag

_apply_red_flag_downgrade(tier, features) ==
    IF RedFlag(features) THEN _TIER_DOWNGRADE(tier) ELSE tier

(* Step 7.5.                                                                 *)
Untradeable(features) ==
    \/ features.spread_bps > PolicyConfig.liquidity_max_spread_bps
    \/ features.rvol_percentile < PolicyConfig.liquidity_min_rvol_percentile

_clamp_stop_target_BeforeWidening(advisory, label) ==  \* mutant: the ratio is taken from the advised stop
    LET stop == IF label = "choppy"
                THEN Max({advisory.stop, PolicyConfig.stop_atr_clamp_choppy})
                ELSE advisory.stop
        least == advisory.stop * PolicyConfig.min_reward_to_risk
    IN  <<stop, Max({advisory.tp, least})>>

(* Step 8: <<stop, target>>; the stop only widens and the target only rises. *)
_clamp_stop_target(advisory, label) ==
    LET stop == IF label = "choppy"
                THEN Max({advisory.stop, PolicyConfig.stop_atr_clamp_choppy})
                ELSE advisory.stop
        least == stop * PolicyConfig.min_reward_to_risk
    IN  <<stop, Max({advisory.tp, least})>>

-----------------------------------------------------------------------------
(* The bucket key <<regime, cap, catalyst, time of day, long or short>>.     *)
_time_of_day_bucket(minutes) ==
    IF minutes < 31 THEN "open_drive"
    ELSE IF minutes < 91 THEN "morning"
    ELSE IF minutes < 271 THEN "midday"
    ELSE IF minutes < 361 THEN "power_hour" ELSE "close"

bucket_key_for(label, cap, quality, minutes, action) ==
    <<label, cap, quality, _time_of_day_bucket(minutes),
      IF action = "Buy" THEN "long" ELSE "short">>

_bucket_key_from_input(in) ==
    bucket_key_for(in.ctx.market_regime_label, in.ctx.market_cap_bucket,
                   in.analysis.catalyst_quality, in.ctx.minutes_since_open,
                   in.advisory.action)

_collapse_time_of_day(key) ==
    [key EXCEPT ![4] = IF @ = "open_drive" THEN "morning"
                       ELSE IF @ \in {"power_hour", "close"} THEN "afternoon" ELSE @]

_collapse_cap_size(key) ==
    [key EXCEPT ![2] = IF @ \in {"mega", "large"} THEN "large_cap"
                       ELSE IF @ \in {"mid", "small", "micro"} THEN "small_cap" ELSE @]

(* hierarchical_lookup over a table of buckets: the first of the three keys  *)
(* with enough samples, else what the coarsest one holds.                    *)
Ladder(key) == LET coarser == _collapse_time_of_day(key)
               IN  <<key, coarser, _collapse_cap_size(coarser)>>

BucketAt(table, key) == IF key \in DOMAIN table THEN table[key] ELSE EmptyBucket

hierarchical_lookup(key, table) ==
    LET enough == {i \in 1 .. 3 : BucketAt(table, Ladder(key)[i]).sample_count
                                      >= PolicyConfig.sample_min_for_normal_tier}
    IN  BucketAt(table, Ladder(key)[IF enough = {} THEN 3 ELSE Min(enough)])

-----------------------------------------------------------------------------
Final(in, action, tier, stopTarget, reason) ==
    [action |-> action, qty_tier |-> tier, stop |-> stopTarget[1], tp |-> stopTarget[2],
     reason |-> reason, bucket_key |-> _bucket_key_from_input(in),
     liquidity_rejected |-> reason = "liquidity_reject"]

Advised(in) == <<in.advisory.stop, in.advisory.tp>>

_make_hold(in, reason) == Final(in, "Hold", "zero", Advised(in), reason)

(* A position that is held: the mapping of the position action.              *)
_translate_position_action(in) ==
    LET pa == in.analysis.position_action
        side == IF in.ctx.position_qty > 0 THEN "Buy" ELSE "Sell"
    IN  IF pa \in {"HOLD", "NO_OPINION", "TIGHTEN_STOP"} THEN _make_hold(in, "none")
        ELSE Final(in, IF pa = "SCALE_UP" THEN side ELSE "Sell", "normal",
                   Advised(in), "none")

(* decide: the first gate that applies names the reason of a Hold.           *)
decide(in) ==
    LET wanted  == _tier_from_bucket(in.bucket)
        tier    == _apply_red_flag_downgrade(wanted, in.features)
    IN  IF in.health # "healthy" THEN _make_hold(in, "health_not_ok")
        ELSE IF in.analysis.trade_readiness = "AVOID" THEN _make_hold(in, "llm_avoid")
        ELSE IF in.analysis.clamp_anomaly THEN _make_hold(in, "clamp_anomaly")
        ELSE IF in.advisory.action = "Hold" THEN _make_hold(in, "none")
        ELSE IF in.ctx.position_qty # 0 THEN _translate_position_action(in)
        ELSE IF wanted = "zero" THEN _make_hold(in, "bucket_negative_expectancy")
        ELSE IF tier = "zero" THEN _make_hold(in, "red_flag_downgrade_to_zero")
        ELSE IF Untradeable(in.features) THEN _make_hold(in, "liquidity_reject")
        ELSE Final(in, in.advisory.action, tier,
                   _clamp_stop_target(in.advisory, in.ctx.market_regime_label), "none")
=============================================================================
