--------------------------- MODULE DailyRoutine ---------------------------
(* The day of the platform process: the schedule of main.py with its         *)
(* done-for flags, the supervisor of its tasks, the shadow evaluations of    *)
(* the language models with their daily budget, and the follower that       *)
(* attributes outcomes to the decisions they left in the database.          *)
(*                                                                          *)
(* A day is cut at the times of the schedule. The loop looks at the clock   *)
(* once per iteration (`today`, `nowT`) and then awaits its steps one after *)
(* the other, so the clock may be elsewhere when a step begins.             *)
EXTENDS Naturals, Sequences, FiniteSets, FiniteSetsExt

CONSTANTS
    LastDay,         \* days 1 .. LastDay are modelled
    Weekdays,        \* the days of 1 .. LastDay on which the market opens
    MaxPerDay,       \* llm.t2 budget: max_per_day
    MaxAge,          \* the follower looks back this many days
    SlowSteps,       \* steps long enough for other things to happen meanwhile
    MaxEvaluations,  \* bound: evaluations of the run
    MaxMishaps       \* bound: failing steps and inserts, crashes of the process or of
                     \* its bar stream, backfills by hand, all together

ASSUME ScheduleAssumption ==
    /\ LastDay \in Nat \ {0}
    /\ Weekdays \subseteq 1 .. LastDay
    /\ {MaxPerDay, MaxAge, MaxEvaluations, MaxMishaps} \subseteq Nat
    /\ SlowSteps \subseteq {"backfill", "regime", "earnings", "watchlist",
                            "thresholds", "flatten", "journal", "follower"}

VARIABLES
    day, time,       \* the clock (ET)
    up,              \* the process runs
    bars,            \* the AlpacaBars task: "running" or "dead"
    at,              \* the step of the iteration that is being awaited, 0 asleep
    today, nowT,     \* what the iteration read from the clock
    done,            \* the done-for flags, per step
    used,            \* EscalationBudget._used
    evalPc,          \* the shadow evaluation: "idle", awaiting "t1" or "t2"
    decisions,       \* the shadow rows of the table decisions
    outcomes,        \* shadow_outcomes: decision id -> when its bars were fetched
    todo,            \* per backfill: the ids it read and has not yet handled
    pc,              \* per backfill: "idle" or "fetching"
    \* bounds and history, never read by a guard except as a bound
    woke,            \* the loop has woken since the clock last moved
    mishaps, evaluations,
    calls,           \* second-tier calls, per day
    renewals,        \* resets and boots after a call of the same day, per day
    lost,            \* second-tier calls whose row was never written
    flattened,       \* days whose flatten began in its window
    excused          \* days in whose window the loop was down or held up

clock     == <<day, time>>
loop      == <<at, today, nowT, done, woke>>
shadow    == <<used, evalPc, decisions, evaluations, calls, lost>>
follow    == <<outcomes, todo, pc>>
history   == <<renewals, flattened, excused>>
vars == <<clock, up, bars, loop, shadow, follow, mishaps, history>>

Days == 1 .. LastDay

(* Periods of a day: before 08:30, before 09:30, before 15:55, before 16:30 *)
(* and the rest.                                                            *)
Night == 0
Prep == 1
Session == 2
Window == 3
Evening == 4

Steps == <<"backfill", "regime", "earnings", "watchlist", "thresholds",
           "premarket", "budget", "flatten", "journal", "follower">>
StepNames == {Steps[i] : i \in 1 .. Len(Steps)}
StepNumber(s) == CHOOSE i \in 1 .. Len(Steps) : Steps[i] = s

Backfills == {"follower", "script"}
Ids == 1 .. MaxEvaluations

(* Who wrote a row of shadow_outcomes, when its bars were fetched, and what its *)
(* iteration had read from the clock.                                        *)
Outcome == [by : Backfills, day : Days, time : Night .. Evening, began : Days]
-----------------------------------------------------------------------------
(* The conditions of _daily_routine_loop, over what the iteration read.     *)

FlattenIsDue_OnceEver(d, t, flags) ==      \* mutant: a flag that is never reset
    /\ flags["flatten"] = 0
    /\ d \in Weekdays
    /\ t = Window

FlattenIsDue(d, t, flags) ==
    /\ flags["flatten"] # d
    /\ d \in Weekdays
    /\ t = Window

FollowerIsDue_BeforeJournal(d, t, flags) ==      \* mutant: waits for no journal
    /\ flags["follower"] # d
    /\ d \in Weekdays

FollowerIsDue(d, t, flags) ==
    /\ flags["follower"] # d
    /\ d \in Weekdays
    /\ flags["journal"] = d
    /\ t >= Evening

Due(d, t, flags, s) ==
    CASE s = "flatten" -> FlattenIsDue(d, t, flags)
      [] s = "follower" -> FollowerIsDue(d, t, flags)
      [] OTHER ->
          /\ flags[s] # d
          /\ s \in {"backfill", "regime", "premarket", "journal"} => d \in Weekdays
          /\ s \in {"regime", "premarket"} => flags["backfill"] = d
          /\ s \in {"backfill", "earnings", "watchlist", "thresholds"} => t >= Prep
          /\ s = "thresholds" => flags["watchlist"] = d
          /\ s \in {"premarket", "budget"} => t >= Session
          /\ s = "journal" => t >= Evening

(* The next step after number i that the iteration will run, 0 if none. *)
NextStep(i, d, t, flags) ==
    LET later == {j \in i + 1 .. Len(Steps) : Due(d, t, flags, Steps[j])}
    IN  IF later = {} THEN 0 ELSE Min(later)

(* The iteration goes on to step number i, or to sleep. *)
GoTo(i, d, t) ==
    /\ at' = i
    /\ today' = IF i = 0 THEN 0 ELSE d
    /\ nowT' = IF i = 0 THEN 0 ELSE t
    /\ flattened' = flattened \cup
           IF i = StepNumber("flatten") /\ time = Window /\ d = day THEN {day} ELSE {}

InStep(s) == at # 0 /\ Steps[at] = s

(* Other tasks run while the loop sleeps or awaits a slow step. A step that is  *)
(* not slow shares nothing with them, so it is taken as one with its return.   *)
CanInterleave == at # 0 => Steps[at] \in SlowSteps
-----------------------------------------------------------------------------
Init ==
    /\ day = 1 /\ time = Night
    /\ up = TRUE /\ bars = "running"
    /\ at = 0 /\ today = 0 /\ nowT = 0
    /\ done = [s \in StepNames |-> 0]
    /\ woke = FALSE
    /\ used = 0 /\ evalPc = "idle"
    /\ decisions = <<>> /\ evaluations = 0
    /\ calls = [d \in Days |-> 0] /\ lost = 0
    /\ outcomes = <<>>
    /\ todo = [b \in Backfills |-> {}]
    /\ pc = [b \in Backfills |-> "idle"]
    /\ mishaps = 0
    /\ renewals = [d \in Days |-> 0]
    /\ flattened = {} /\ excused = {}

(* The loop sleeps 30 seconds at a time, so it wakes in every period. *)
Tick ==
    /\ CanInterleave
    /\ InStep("follower") => pc["follower"] = "fetching"
    /\ (up /\ at = 0) => woke
    /\ \/ time < Evening /\ time' = time + 1 /\ day' = day
       \/ time = Evening /\ day < LastDay /\ time' = Night /\ day' = day + 1
    /\ woke' = FALSE
    /\ excused' = excused \cup
           IF /\ Window \in {time, time'}
              /\ up => (at # 0 /\ ~(InStep("flatten") /\ today = day))
           THEN {day} ELSE {}
    /\ UNCHANGED <<up, bars, at, today, nowT, done, shadow, follow, renewals,
                   flattened, mishaps>>

(* An iteration of _daily_routine_loop begins. *)
Wake ==
    /\ up /\ at = 0
    /\ GoTo(NextStep(0, day, time, done), day, time)
    /\ woke' = TRUE
    /\ UNCHANGED <<clock, up, bars, done, shadow, follow, renewals, excused, mishaps>>

Flags(s) == [done EXCEPT ![s] = today]

Renew(d) == renewals' = [renewals EXCEPT ![d] = @ + IF calls[d] > 0 THEN 1 ELSE 0]

(* A step returns and its flag is set; the reset of the budget is one of them. *)
StepSucceeds ==
    /\ up /\ at # 0 /\ ~InStep("follower")
    /\ done' = Flags(Steps[at])
    /\ GoTo(NextStep(at, today, nowT, done'), today, nowT)
    /\ IF InStep("budget") THEN used' = 0 /\ Renew(day) ELSE UNCHANGED <<used,
                                                                         renewals>>
    /\ UNCHANGED <<clock, up, bars, woke, evalPc, decisions, evaluations, calls, lost,
                   follow, excused, mishaps>>

(* A step raises: it is logged, its flag stays, and the next iteration tries again. *)
StepRaises ==
    /\ up /\ at # 0 /\ Steps[at] \notin {"budget", "follower"}
    /\ mishaps < MaxMishaps
    /\ mishaps' = mishaps + 1
    /\ GoTo(NextStep(at, today, nowT, done), today, nowT)
    /\ UNCHANGED <<clock, up, bars, woke, done, shadow, follow, renewals, excused>>

(* The process dies, with its flags, its budget and what it was awaiting. *)
Crash ==
    /\ up /\ CanInterleave
    /\ mishaps < MaxMishaps
    /\ mishaps' = mishaps + 1
    /\ up' = FALSE /\ bars' = "dead"
    /\ at' = 0 /\ today' = 0 /\ nowT' = 0
    /\ evalPc' = "idle"
    /\ lost' = lost + IF evalPc = "t2" THEN 1 ELSE 0
    /\ todo' = [todo EXCEPT !["follower"] = {}]
    /\ pc' = [pc EXCEPT !["follower"] = "idle"]
    /\ excused' = excused \cup IF time = Window THEN {day} ELSE {}
    /\ UNCHANGED <<clock, done, woke, used, decisions, evaluations, calls, outcomes,
                   renewals, flattened>>

(* boot, with the attributes and local flags as __init__ leaves them. *)
Boot ==
    /\ ~up
    /\ up' = TRUE /\ bars' = "running"
    /\ done' = [s \in StepNames |-> 0]
    /\ used' = 0 /\ Renew(day)
    /\ woke' = FALSE
    /\ UNCHANGED <<clock, at, today, nowT, evalPc, decisions, evaluations, calls,
                   lost, follow, flattened, excused, mishaps>>

(* The stream's task ends, and with it the evaluation awaited in its callback. *)
BarsDie ==
    /\ up /\ bars = "running" /\ CanInterleave
    /\ mishaps < MaxMishaps
    /\ mishaps' = mishaps + 1
    /\ bars' = "dead"
    /\ evalPc' = "idle"
    /\ lost' = lost + IF evalPc = "t2" THEN 1 ELSE 0
    /\ UNCHANGED <<clock, up, loop, used, decisions, evaluations, calls, follow,
                   history>>

(* _task_supervisor finds the task done and starts another one. *)
Supervise ==
    /\ up /\ bars = "dead" /\ CanInterleave
    /\ bars' = "running"
    /\ UNCHANGED <<clock, up, loop, shadow, follow, mishaps, history>>
-----------------------------------------------------------------------------
(* evaluate: the first tier always, the second when its rule fires and the   *)
(* budget has capacity. Bars are awaited one after the other, so there is    *)
(* one evaluation at a time.                                                *)

HasCapacity_OffByOne == used <= MaxPerDay      \* mutant

HasCapacity == used < MaxPerDay

StartEvaluation ==
    /\ up /\ bars = "running" /\ CanInterleave
    /\ evalPc = "idle"
    /\ evaluations < MaxEvaluations
    /\ evaluations' = evaluations + 1
    /\ evalPc' = "t1"
    /\ UNCHANGED <<clock, up, bars, loop, used, decisions, calls, lost, follow,
                   mishaps, history>>

(* The row of a decision tells whether the second tier was consulted. A Buy   *)
(* or Sell gets the synthetic order that prices it. Either insert may fail,   *)
(* which is swallowed; a Hold, or a ticker without an ATR, has no order.      *)
LogShadow_NotHolds(second) ==      \* mutant: a second opinion that ends in a Hold is not logged
    \/ /\ \E priced \in BOOLEAN :
           decisions' = IF second /\ ~priced THEN decisions
                        ELSE Append(decisions, [day |-> day, second |-> second,
                                                priced |-> priced])
       /\ UNCHANGED <<lost, mishaps>>
    \/ /\ mishaps < MaxMishaps
       /\ mishaps' = mishaps + 1
       /\ lost' = lost + IF second THEN 1 ELSE 0
       /\ UNCHANGED decisions

LogShadow(second) ==
    \/ /\ \E priced \in BOOLEAN :
           decisions' = Append(decisions, [day |-> day, second |-> second,
                                           priced |-> priced])
       /\ UNCHANGED <<lost, mishaps>>
    \/ /\ mishaps < MaxMishaps
       /\ mishaps' = mishaps + 1
       /\ lost' = lost + IF second THEN 1 ELSE 0
       /\ UNCHANGED decisions

(* The first tier fails, or answers and the gates do not fire, or the budget is *)
(* used up: its decision is final.                                           *)
FirstTierDecides ==
    /\ evalPc = "t1" /\ CanInterleave
    /\ LogShadow(FALSE)
    /\ evalPc' = "idle"
    /\ UNCHANGED <<clock, up, bars, loop, used, evaluations, calls, follow, history>>

(* The gates fired: the budget is charged before the call. *)
Escalate ==
    /\ evalPc = "t1" /\ CanInterleave
    /\ HasCapacity
    /\ used' = used + 1
    /\ calls' = [calls EXCEPT ![day] = @ + 1]
    /\ evalPc' = "t2"
    /\ UNCHANGED <<clock, up, bars, loop, decisions, evaluations, lost, follow,
                   mishaps, history>>

(* The second tier answers and is merged with the first, or fails. *)
SecondTierDecides ==
    /\ evalPc = "t2" /\ CanInterleave
    /\ LogShadow(TRUE)
    /\ evalPc' = "idle"
    /\ UNCHANGED <<clock, up, bars, loop, used, evaluations, calls, follow, history>>
-----------------------------------------------------------------------------
(* run_backfill, as the step of the routine and as the script run by hand.   *)

(* Priced decisions without an outcome. *)
Candidates == {i \in DOMAIN decisions : decisions[i].priced /\ i \notin DOMAIN outcomes}

Recent(i) == decisions[i].day + MaxAge >= day

FollowerReads ==
    /\ InStep("follower") /\ pc["follower"] = "idle"
    /\ todo' = [todo EXCEPT !["follower"] = {i \in Candidates : Recent(i)}]
    /\ pc' = [pc EXCEPT !["follower"] = "fetching"]
    /\ UNCHANGED <<clock, up, bars, loop, shadow, outcomes, mishaps, history>>

ScriptReads ==
    /\ pc["script"] = "idle" /\ CanInterleave
    /\ mishaps < MaxMishaps
    /\ mishaps' = mishaps + 1
    /\ todo' = [todo EXCEPT !["script"] = Candidates]
    /\ pc' = [pc EXCEPT !["script"] = "fetching"]
    /\ UNCHANGED <<clock, up, bars, loop, shadow, outcomes, history>>

(* The oldest (ticker, date) group of what a backfill still has to handle. *)
Group(b) ==
    LET oldest == Min({decisions[i].day : i \in todo[b]})
    IN  {i \in todo[b] : decisions[i].day = oldest}

AttributeGroup_Replace(b) ==      \* mutant: INSERT OR REPLACE
    /\ pc[b] = "fetching" /\ todo[b] # {} /\ CanInterleave
    /\ \E S \in SUBSET Group(b) :
        outcomes' = [i \in DOMAIN outcomes \cup S |->
            IF i \in S
            THEN [by |-> b, day |-> day, time |-> time,
                  began |-> IF b = "follower" THEN today ELSE day]
            ELSE outcomes[i]]
    /\ todo' = [todo EXCEPT ![b] = @ \ Group(b)]
    /\ UNCHANGED <<clock, up, bars, loop, shadow, pc, mishaps, history>>

(* The bars of the group arrive; S are the decisions with bars after them. The  *)
(* insert of a decision the other backfill has attributed meanwhile violates   *)
(* the primary key and ends the whole backfill: what came before it is kept.   *)
AttributeGroup(b) ==
    /\ pc[b] = "fetching" /\ todo[b] # {} /\ CanInterleave
    /\ \E S \in SUBSET Group(b) :
        LET taken == S \cap DOMAIN outcomes
            kept == {i \in S : \A j \in taken : i < j}
        IN  /\ outcomes' = [i \in DOMAIN outcomes \cup kept |->
                   IF i \in DOMAIN outcomes THEN outcomes[i]
                   ELSE [by |-> b, day |-> day, time |-> time,
                         began |-> IF b = "follower" THEN today ELSE day]]
            /\ todo' = [todo EXCEPT ![b] = IF taken = {} THEN @ \ Group(b) ELSE {}]
    /\ UNCHANGED <<clock, up, bars, loop, shadow, pc, mishaps, history>>

(* The follower returns. An exception inside it was swallowed, so the step   *)
(* counts as done either way.                                               *)
FollowerEnds ==
    /\ InStep("follower") /\ pc["follower"] = "fetching" /\ todo["follower"] = {}
    /\ pc' = [pc EXCEPT !["follower"] = "idle"]
    /\ done' = Flags("follower")
    /\ GoTo(0, today, nowT)
    /\ UNCHANGED <<clock, up, bars, woke, shadow, outcomes, todo, renewals, excused,
                   mishaps>>

ScriptEnds ==
    /\ pc["script"] = "fetching" /\ todo["script"] = {} /\ CanInterleave
    /\ pc' = [pc EXCEPT !["script"] = "idle"]
    /\ UNCHANGED <<clock, up, bars, loop, shadow, outcomes, todo, mishaps, history>>

Backfill == FollowerReads \/ FollowerEnds \/ ScriptReads \/ ScriptEnds
               \/ \E b \in Backfills : AttributeGroup(b)

Next ==
    \/ Tick \/ Wake \/ StepSucceeds \/ StepRaises
    \/ Crash \/ Boot \/ BarsDie \/ Supervise
    \/ StartEvaluation \/ FirstTierDecides \/ Escalate \/ SecondTierDecides
    \/ Backfill

Spec == Init /\ [][Next]_vars
-----------------------------------------------------------------------------
TypeOK ==
    /\ day \in Days /\ time \in Night .. Evening
    /\ up \in BOOLEAN /\ bars \in {"running", "dead"}
    /\ at \in 0 .. Len(Steps) /\ today \in 0 .. LastDay /\ nowT \in Night .. Evening
    /\ at # 0 => up /\ today # 0
    /\ done \in [StepNames -> 0 .. LastDay]
    /\ woke \in BOOLEAN
    /\ used \in 0 .. MaxPerDay /\ evalPc \in {"idle", "t1", "t2"}
    /\ decisions \in Seq([day : Days, second : BOOLEAN, priced : BOOLEAN])
    /\ evaluations \in 0 .. MaxEvaluations
    /\ Len(decisions) + (IF evalPc = "idle" THEN 0 ELSE 1) <= evaluations
    /\ calls \in [Days -> Nat] /\ lost \in Nat
    /\ DOMAIN outcomes \subseteq DOMAIN decisions
    /\ \A i \in DOMAIN outcomes : outcomes[i] \in Outcome
    /\ todo \in [Backfills -> SUBSET DOMAIN decisions]
    /\ pc \in [Backfills -> {"idle", "fetching"}]
    /\ \A b \in Backfills : pc[b] = "idle" => todo[b] = {}
    /\ mishaps \in 0 .. MaxMishaps
    /\ renewals \in [Days -> Nat]
    /\ flattened \subseteq Days /\ excused \subseteq Days

(* The second tier is called at most max_per_day times a day, and as many     *)
(* times again for each renewal of the budget after a call of that day: a     *)
(* restart, or a reset that earlier steps of the iteration held up            *)
(* (escalation.py, main.py:721).                                             *)
BudgetKept == \A d \in Days : calls[d] <= MaxPerDay * (1 + renewals[d])

(* Every second-tier call is told by one row of the table decisions, unless    *)
(* the process or the stream died during the call or the insert failed; the    *)
(* audit of costs counts those rows (signal_engine.py:138, main.py:1556).     *)
CallsAccounted ==
    SumFunction(calls) =
        Cardinality({i \in DOMAIN decisions : decisions[i].second})
            + lost + (IF evalPc = "t2" THEN 1 ELSE 0)

(* The nightly follower attributes a decision only when the session it was     *)
(* taken in is over, for an outcome is never replaced by a later one. Only the *)
(* script run by hand may do so before, or an iteration that began the day     *)
(* before and was held up past midnight (main.py:770, 847).                   *)
OutcomesSeeTheSession ==
    \A i \in DOMAIN outcomes :
        \/ outcomes[i].day > decisions[i].day
        \/ outcomes[i].time = Evening
        \/ outcomes[i].by = "script"
        \/ outcomes[i].began < decisions[i].day

(* The flatten of a weekday begins between 15:55 and 16:30, unless the process *)
(* was down then or an earlier step of the iteration held the loop up when the *)
(* window opened or closed (main.py:743).                                     *)
FlattenOnTime ==
    \A d \in Weekdays :
        d < day \/ (d = day /\ time = Evening) => d \in flattened \cup excused

Lifecycle == INSTANCE DecisionLifecycle WITH
    Decisions <- Ids,
    Outcomes <- Outcome,
    stage <- [i \in Ids |->
        IF i \notin DOMAIN decisions THEN [is |-> "unlogged"]
        ELSE IF i \in DOMAIN outcomes THEN [is |-> "attributed", outcome |-> outcomes[i]]
        ELSE IF decisions[i].priced THEN [is |-> "priced"] ELSE [is |-> "logged"]]

(* Evaluations, follower and script together keep to the life of a decision:  *)
(* no outcome without a priced row, none replaced, no row undone              *)
(* (main.py:1613, backfill_shadow_outcomes.py:92).                            *)
LifecycleKept == Lifecycle!Spec
=============================================================================
