----------------------------- MODULE ReplayReport -----------------------------
(***************************************************************************)
(* The results database of the replay and what is read back from it: a run *)
(* of replay_with_llm evaluates its days with tier 1, has tier 3 label the *)
(* same candidates under a budget of dollars, runs the base rules beside   *)
(* them and writes each day in one transaction (persistence.py); the       *)
(* report of sim/comparison.py then compares the three streams of one run. *)
(* The database keeps every run.                                           *)
(*                                                                         *)
(* A slot is a ticker at a tick of a day. The trades behind a decision are *)
(* left to Replay: here its fill has a profit or loss, or it has no fill.  *)
(***************************************************************************)
EXTENDS Integers, FiniteSetsExt

CONSTANTS
    Slots,         \* slots of a day
    ReportDays,    \* trading days a run may cover, from the first
    RegimeOf,      \* market_regime_label of a day
    CapDollars,    \* t3_max_dollars_per_run
    PerCall,       \* per_call_estimate
    StartCash,
    NoFill,        \* a decision without a closed position
    MaxRunDays     \* bound: days of all runs

Actions == {"Buy", "Sell", "Hold"}
Verdict_(action, conf, failed) == [action |-> action, high |-> conf, failed |-> failed]
T1Verdicts == {Verdict_("Buy", TRUE, FALSE), Verdict_("Sell", FALSE, FALSE), Verdict_("Hold", FALSE, TRUE)}
T3Verdicts == {Verdict_("Buy", TRUE, FALSE), Verdict_("Hold", FALSE, TRUE)}
BaseVerdicts == {Verdict_("Buy", TRUE, FALSE), Verdict_("Hold", FALSE, FALSE)}

ASSUME ReportAssumption ==
    /\ ReportDays \in Nat \ {0} /\ MaxRunDays \in Nat
    /\ {CapDollars, PerCall, StartCash} \subseteq Nat
    /\ Slots \subseteq Nat /\ IsFiniteSet(Slots)
    /\ NoFill \notin Int \cup T3Verdicts

VARIABLES
    results,       \* replay_decisions, each with the profit of its fill
    curve,         \* replay_equity_curve: the last point of a day
    summaries,     \* summary_json of completed runs
    replay,        \* the run under way: where it is and what it has of the day
    budget         \* its T3Budget
reportVars == <<results, curve, summaries, replay, budget>>

RunsStarted == {c.run : c \in curve} \cup DOMAIN summaries \cup {replay.run}
T3Budget == [used |-> 0, calls |-> 0, overBudget |-> 0, unsampled |-> 0]
DayOf(n) == [live |-> << >>, t3 |-> << >>, base |-> << >>, day |-> n]

ReportInit ==
    /\ results = {} /\ curve = {} /\ summaries = << >> /\ budget = T3Budget
    /\ replay = [run |-> 0, pc |-> "over", days |-> 0, of |-> DayOf(0), sampled |-> {},
                 labels |-> FALSE, base |-> FALSE, skipped |-> 0, spent |-> 0]
-----------------------------------------------------------------------------
(* start_run, with or without the two optional passes; which slots of the  *)
(* days are sampled follows from their hash and the rate.                  *)
start_run(days, labels, base, sampled) ==
    /\ replay.pc = "over"
    /\ replay.spent + days <= MaxRunDays
    /\ replay' = [run |-> replay.run + 1, pc |-> "day", days |-> days, of |-> DayOf(1), sampled |-> sampled,
                  labels |-> labels, base |-> base, skipped |-> 0, spent |-> replay.spent + days]
    /\ budget' = T3Budget
    /\ UNCHANGED <<results, curve, summaries>>

Following(skipped) ==
    [replay EXCEPT !.of = DayOf(@.day + 1), !.skipped = @ + skipped,
                   !.pc = IF replay.of.day = replay.days THEN "done" ELSE "day"]

skip_day == /\ replay.pc = "day"
            /\ replay' = Following(1)
            /\ UNCHANGED <<results, curve, summaries, budget>>

(* run_day_ticks: the candidates of the pre-filter and the verdicts on them.*)
decide_day(candidates) ==
    /\ replay.pc = "day"
    /\ \E live \in [candidates -> T1Verdicts] :
          replay' = [replay EXCEPT !.of.live = live, !.pc = IF replay.labels THEN "label" ELSE "base"]
    /\ UNCHANGED <<results, curve, summaries, budget>>

Unlabelled == DOMAIN replay.of.live \ (DOMAIN replay.of.t3)
Labelled_(slot, verdict) == [s \in DOMAIN replay.of.t3 \cup {slot} |-> IF s = slot THEN verdict ELSE replay.of.t3[s]]

(* A call is paid for only when it succeeds.                               *)
record_call_OnSuccess(verdict) ==
    [budget EXCEPT !.used = IF verdict.failed THEN @ ELSE @ + PerCall, !.calls = IF verdict.failed THEN @ ELSE @ + 1]

record_call(verdict) == [budget EXCEPT !.used = @ + PerCall, !.calls = @ + 1]

has_capacity == budget.used + PerCall <= CapDollars

(* run_day_t3_ticks of the next candidate, in the order of the ticks: the  *)
(* sample, the budget, the call; a call that fails is labelled a failure.  *)
LabelSlot ==
    /\ replay.pc = "label"
    /\ Unlabelled # {}
    /\ LET slot == Min(Unlabelled)
           Next_(verdict) == replay' = [replay EXCEPT !.of.t3 = Labelled_(slot, verdict)]
       IN  \/ /\ <<replay.of.day, slot>> \notin replay.sampled
              /\ budget' = [budget EXCEPT !.unsampled = @ + 1]
              /\ Next_(NoFill)
           \/ /\ <<replay.of.day, slot>> \in replay.sampled /\ ~has_capacity
              /\ budget' = [budget EXCEPT !.overBudget = @ + 1]
              /\ Next_(NoFill)
           \/ /\ <<replay.of.day, slot>> \in replay.sampled /\ has_capacity
              /\ \E verdict \in T3Verdicts : budget' = record_call(verdict) /\ Next_(verdict)
    /\ UNCHANGED <<results, curve, summaries>>

LabelsDone == /\ replay.pc = "label"
              /\ Unlabelled = {}
              /\ replay' = [replay EXCEPT !.pc = "base"]
              /\ UNCHANGED <<results, curve, summaries, budget>>

(* run_day_base_ticks: every slot, no pre-filter.                          *)
run_day_base == /\ replay.pc = "base"
                /\ \E base \in [IF replay.base THEN Slots ELSE {} -> BaseVerdicts] :
                      replay' = [replay EXCEPT !.of.base = base, !.pc = "write"]
                /\ UNCHANGED <<results, curve, summaries, budget>>

(* The fills one side of a day may have: an action other than Hold may     *)
(* have been filled, and what was filled is closed by the evening.         *)
FillsOf(verdicts) == [{s \in DOMAIN verdicts : verdicts[s].action # "Hold"} -> {NoFill, -1, 2}]

SideRows(source, verdicts, fills) ==
    {[run |-> replay.run, day |-> replay.of.day, slot |-> s, source |-> source, verdict |-> verdicts[s],
      regime |-> RegimeOf[replay.of.day], pl |-> IF s \in DOMAIN fills THEN fills[s] ELSE NoFill] : s \in DOMAIN verdicts}

Profit(set) == SumFunction([d \in {e \in set : e.pl # NoFill} |-> d.pl])
NameOf(source) == IF source = "live_merged" THEN "llm" ELSE source

LastEquity(run, name) ==
    LET points == {c \in curve : c.run = run /\ c.name = name}
    IN  IF points = {} THEN StartCash ELSE (CHOOSE c \in points : \A e \in points : e.day <= c.day).equity

Point(source, side) ==
    [run |-> replay.run, name |-> NameOf(source), day |-> replay.of.day,
     equity |-> LastEquity(replay.run, NameOf(source)) + Profit(side)]

(* write_day_results: one transaction.                                     *)
write_day_results ==
    /\ replay.pc = "write"
    /\ \E liveFills \in FillsOf(replay.of.live), baseFills \in FillsOf(replay.of.base) :
          LET t3 == [s \in {x \in DOMAIN replay.of.t3 : replay.of.t3[x] # NoFill} |-> replay.of.t3[s]]
              live == SideRows("live_merged", replay.of.live, liveFills)
              base == SideRows("base", replay.of.base, baseFills)
          IN  /\ results' = results \cup live \cup base \cup SideRows("t3_only", t3, << >>)
              /\ curve' = curve \cup {Point("live_merged", live)}
                                \cup IF replay.base THEN {Point("base", base)} ELSE {}
    /\ replay' = Following(0)
    /\ UNCHANGED <<summaries, budget>>

RowsOf(run, source) == {d \in results : d.run = run /\ d.source = source}

(* _build_summary_json and complete_run.                                   *)
complete_replay ==
    /\ replay.pc = "done"
    /\ summaries' = [r \in DOMAIN summaries \cup {replay.run} |->
          IF r = replay.run THEN [t3 |-> budget, days |-> replay.days, skipped |-> replay.skipped]
          ELSE summaries[r]]
    /\ replay' = [replay EXCEPT !.pc = "over"]
    /\ UNCHANGED <<results, curve, budget>>

(* A kill, or an error outside the guarded calls.                          *)
replay_dies == /\ replay.pc # "over"
               /\ replay' = [replay EXCEPT !.pc = "over"]
               /\ UNCHANGED <<results, curve, summaries, budget>>

(* The bound of the model: no further run.                                 *)
NoMoreRuns == replay.pc = "over" /\ replay.spent = MaxRunDays /\ UNCHANGED reportVars

ReportNext ==
    \/ \E days \in 1 .. ReportDays, labels, base \in BOOLEAN :
          \E sampled \in IF labels THEN SUBSET ((1 .. days) \X Slots) ELSE {{}} :
             start_run(days, labels, base, sampled)
    \/ skip_day
    \/ \E candidates \in SUBSET Slots : decide_day(candidates)
    \/ LabelSlot \/ LabelsDone \/ run_day_base \/ write_day_results
    \/ complete_replay \/ replay_dies \/ NoMoreRuns

ReportSpec == ReportInit /\ [][ReportNext]_reportVars
-----------------------------------------------------------------------------
(* generate_report, section by section.                                    *)

(* Section 2: how often each source took each action.                      *)
_section_2_decision_summary(run, source) ==
    [action \in Actions |-> Cardinality({d \in RowsOf(run, source) : d.verdict.action = action})]

(* Section 3: the closed fills of a portfolio's decisions, whoever decided. *)
_portfolio_section_AnySource(run, name) ==
    Profit({d \in results : d.run = run})

_portfolio_section(run, name) ==
    Profit(RowsOf(run, IF name = "llm" THEN "live_merged" ELSE name))

(* Section 4: the pairs of different actions on one slot, in a run that    *)
(* has both sides. The base rows are not asked for their run.              *)
_section_4_divergence(run) ==
    IF RowsOf(run, "base") = {} THEN {} ELSE
    {p \in RowsOf(run, "live_merged") \X {d \in results : d.source = "base"} :
        /\ p[1].day = p[2].day /\ p[1].slot = p[2].slot
        /\ p[1].verdict.action # p[2].verdict.action}

_section_5b_regime_stratified(run, source) ==
    [regime \in {RegimeOf[n] : n \in 1 .. ReportDays} |-> Profit({d \in RowsOf(run, source) : d.regime = regime})]

(* Section 5d: T1 and T3 on one slot, without the failures of either.      *)
_section_5d_tier_agreement_AllT3(run) ==
    {p \in RowsOf(run, "live_merged") \X RowsOf(run, "t3_only") :
        p[1].day = p[2].day /\ p[1].slot = p[2].slot /\ ~p[1].verdict.failed}

_section_5d_tier_agreement(run) ==
    {p \in RowsOf(run, "live_merged") \X RowsOf(run, "t3_only") :
        /\ p[1].day = p[2].day /\ p[1].slot = p[2].slot
        /\ ~p[1].verdict.failed /\ ~p[2].verdict.failed}

Matrix(run) == [cell \in Actions \X Actions |->
    Cardinality({p \in _section_5d_tier_agreement(run) : <<p[1].verdict.action, p[2].verdict.action>> = cell})]

(* How often the two agree, by how sure tier 1 was.                        *)
Band(run, high) == {p \in _section_5d_tier_agreement(run) : p[1].verdict.high = high}
Agreeing(pairs) == {p \in pairs : p[1].verdict.action = p[2].verdict.action}

(* Section 7: the divergences with a fill on both sides, furthest first.   *)
_section_7_top_decisions(run) ==
    {p \in RowsOf(run, "live_merged") \X {d \in results : d.source = "base"} :
        p[1].day = p[2].day /\ p[1].slot = p[2].slot /\ p[1].pl # NoFill /\ p[2].pl # NoFill}
-----------------------------------------------------------------------------
(* The tables of one report agree though each is queried on its own: the   *)
(* realized profit of a portfolio is what its equity gained, in total and  *)
(* over the regimes, of each portfolio by itself; every label of tier 3    *)
(* either stands in the matrix or is a failure of one of the two on its    *)
(* slot, and the bands of confidence add up to its diagonal; no divergence *)
(* of the run is missing, and one that is not its own stems from another   *)
(* run over the same day.                                                  *)
SectionsAgree(run) ==
    /\ \A source \in {"live_merged", "base"} :
          /\ LastEquity(run, NameOf(source)) - StartCash = _portfolio_section(run, NameOf(source))
          /\ SumFunction(_section_5b_regime_stratified(run, source)) = _portfolio_section(run, NameOf(source))
    /\ \A t3 \in RowsOf(run, "t3_only") :
          \E t1 \in RowsOf(run, "live_merged") :
             /\ t1.day = t3.day /\ t1.slot = t3.slot
             /\ <<t1, t3>> \in _section_5d_tier_agreement(run) <=> ~t1.verdict.failed /\ ~t3.verdict.failed
    /\ SumFunction(Matrix(run)) = Cardinality(_section_5d_tier_agreement(run))
    /\ Cardinality(Agreeing(Band(run, TRUE))) + Cardinality(Agreeing(Band(run, FALSE)))
          = SumFunction([action \in Actions |-> Matrix(run)[<<action, action>>]])
    /\ \A t1 \in RowsOf(run, "live_merged"), b \in RowsOf(run, "base") :
          t1.day = b.day /\ t1.slot = b.slot =>
             (<<t1, b>> \in _section_4_divergence(run) <=> t1.verdict.action # b.verdict.action)
    /\ \A p \in _section_4_divergence(run) \cup _section_7_top_decisions(run) :
          p[2].run = run \/ \E d \in results : d.run # run /\ d.day = p[1].day

(* What a completed run says of the labels it paid for is what its rows    *)
(* show: each call is a row, failed ones too; what was not called was not  *)
(* sampled or over the cap, which the calls together never exceed.         *)
LabelsAreAccounted ==
    /\ budget.used <= CapDollars /\ budget.used = PerCall * budget.calls
    /\ \A run \in DOMAIN summaries :
          LET t3 == summaries[run].t3
          IN  /\ t3.calls = Cardinality(RowsOf(run, "t3_only"))
              /\ t3.calls + t3.overBudget + t3.unsampled > 0 =>
                    t3.calls + t3.overBudget + t3.unsampled = SumFunction(_section_2_decision_summary(run, "live_merged"))
              /\ t3.overBudget > 0 => t3.used + PerCall > CapDollars

ReportTellsTheRun == LabelsAreAccounted /\ \A run \in RunsStarted : SectionsAgree(run)
=============================================================================
