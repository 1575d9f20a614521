------------------------------- MODULE Tiers -------------------------------
(* strategy/llm/signal_engine.py, escalation.py, merge.py and the validators *)
(* of types.py: the advice of one or two language models on one context.     *)
(* An answer of a model is a decision or the name of the error it raised.    *)
EXTENDS Integers, FiniteSetsExt

CONSTANTS
    NoClient,                                   \* the second tier is not configured
    SchemaInvalid, ApiUnavailable, Unexpected   \* what a client may raise

HIGH_QUALITY_CATALYSTS == {"FDA_approval", "M&A", "earnings_beat_with_guidance_raise",
                           "breakthrough_news"}
Errors == {SchemaInvalid, ApiUnavailable, Unexpected}

(* The validators of LLMDecision pull numbers into their bounds before they  *)
(* are checked, and an answer of the wrong shape is an error.                *)
Clamp(low, high, n) == Max({low, Min({high, n})})

Validated(raw) ==
    IF raw.action \notin {"Buy", "Sell", "Hold"} THEN SchemaInvalid
    ELSE [action |-> raw.action, confidence |-> Clamp(0, 100, raw.confidence),
          stop |-> Clamp(100, 300, raw.stop), tp |-> Clamp(10000, 50000, raw.tp),
          provenance |-> "none"]

(* escalation_rule                                                           *)
escalation_rule(ctx, t1, hasCapacity, floor, ceiling, pm_rvol_min) ==
    /\ hasCapacity
    /\ floor <= t1.confidence /\ t1.confidence <= ceiling
    /\ ctx.catalyst_flags \cap HIGH_QUALITY_CATALYSTS # {}
    /\ ctx.pm_rvol > pm_rvol_min

(* What stands for a decision nobody made; LLMDecision's defaults.           *)
SyntheticHold(provenance) ==
    [action |-> "Hold", confidence |-> 0, stop |-> 150, tp |-> 20000,
     provenance |-> provenance]

_make_hold_failure == SyntheticHold("t1_failed")

merge_tiers_SecondWins(t1, t2) ==  \* mutant: the second tier is simply believed
    [t2 EXCEPT !.confidence = Max({t1.confidence, t2.confidence}),
               !.provenance = "t1_t2_agree"]

merge_tiers(t1, t2) ==
    IF t1.action = t2.action
    THEN [t2 EXCEPT !.confidence = Max({t1.confidence, t2.confidence}),
                    !.provenance = "t1_t2_agree"]
    ELSE SyntheticHold("t1_t2_disagree")

Labelled(t1, provenance) == [t1 EXCEPT !.provenance = provenance]

(* evaluate: `first` and `second` are what the clients would answer.         *)
evaluate(ctx, first, second, hasCapacity, floor, ceiling, pm_rvol_min) ==
    IF first \in Errors THEN _make_hold_failure
    ELSE IF second = NoClient THEN Labelled(first, "t1_only")
    ELSE IF ~escalation_rule(ctx, first, hasCapacity, floor, ceiling, pm_rvol_min)
    THEN Labelled(first, IF hasCapacity THEN "t1_only" ELSE "t1_only_budget_exhausted")
    ELSE IF second \in Errors THEN Labelled(first, "t1_fallback_t2")
    ELSE merge_tiers(first, second)
=============================================================================
