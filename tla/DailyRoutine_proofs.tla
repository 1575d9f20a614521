------------------------ MODULE DailyRoutine_proofs ------------------------
(***************************************************************************)
(* Theorems about DailyRoutine, for every calendar, budget, number of      *)
(* evaluations and of mishaps, and every choice of the slow steps; then    *)
(* about Evaluation, the one evaluation the day is full of, for every      *)
(* frame, situation, answer, bucket table and policy.                      *)
(***************************************************************************)
EXTENDS DailyRoutine, Evaluation, Sums

USE DEF Night, Prep, Session, Window, Evening, Days, Ids, Backfills

-----------------------------------------------------------------------------
(* The inductive invariants.                                               *)

\* What an iteration read from the clock is not in the future; a flag tells of
\* a day that has come; and the step being awaited was due when it was read.
LoopInv ==
  /\ day \in Days /\ time \in 0..4 /\ up \in BOOLEAN /\ bars \in {"running", "dead"}
  /\ at \in 0..10 /\ today \in 0..LastDay /\ nowT \in 0..4 /\ woke \in BOOLEAN
  /\ done \in [StepNames -> 0..LastDay]
  /\ mishaps \in 0..MaxMishaps /\ renewals \in [Days -> Nat]
  /\ flattened \subseteq Days /\ excused \subseteq Days
  /\ at # 0 => /\ up /\ today # 0 /\ today <= day
               /\ today = day => nowT <= time
               /\ at = 8 => nowT = Window
               /\ at = 10 => nowT = Evening
  /\ \A s \in StepNames : done[s] <= day

Row == [day : Days, second : BOOLEAN, priced : BOOLEAN]

ShadowInv ==
  /\ used \in 0..MaxPerDay /\ evalPc \in {"idle", "t1", "t2"}
  /\ decisions \in Seq(Row)
  /\ evaluations \in 0..MaxEvaluations
  /\ Len(decisions) + (IF evalPc = "idle" THEN 0 ELSE 1) <= evaluations
  /\ calls \in [Days -> Nat] /\ lost \in Nat

\* The follower runs only inside its step, and what a backfill still has to handle
\* was priced.
FollowInv ==
  /\ DOMAIN outcomes \subseteq DOMAIN decisions
  /\ \A i \in DOMAIN outcomes : outcomes[i] \in Outcome
  /\ todo \in [Backfills -> SUBSET DOMAIN decisions]
  /\ pc \in [Backfills -> {"idle", "fetching"}]
  /\ \A b \in Backfills : /\ pc[b] = "idle" => todo[b] = {}
                          /\ \A i \in todo[b] : decisions[i].priced
  /\ pc["follower"] = "fetching" => at = 10

RoutineInv == LoopInv /\ ShadowInv /\ FollowInv

\* What was called today is covered by what is used now and by the renewals;
\* nothing was called on days to come.
BudgetInv ==
  /\ calls[day] <= MaxPerDay * renewals[day] + used
  /\ \A d \in Days : d > day => calls[d] = 0

Excused(d) == d \in flattened \cup excused

\* Today's flatten has begun or is excused as soon as: an iteration that read an
\* earlier hour is held up in the window or later; one that read the window is in
\* the flatten or past it; one that ran in the window is over; the flag says so;
\* or the window is over.
FlattenInv ==
  /\ \A d \in Weekdays : d < day => Excused(d)
  /\ day \in Weekdays =>
       /\ at # 0 /\ time >= Window /\ (today < day \/ nowT < Window) => Excused(day)
       /\ at >= 8 /\ today = day /\ nowT = Window => Excused(day)
       /\ up /\ at = 0 /\ woke /\ time = Window => Excused(day)
       /\ done["flatten"] = day => Excused(day)
       /\ time = Evening => Excused(day)

-----------------------------------------------------------------------------
(* The steps of an iteration.                                              *)

LEMMA StepsByNumber ==
  /\ Len(Steps) = 10 /\ StepNumber("flatten") = 8
  /\ \A n \in 1..10 : /\ Steps[n] \in StepNames
                      /\ Steps[n] = "budget" <=> n = 7
                      /\ Steps[n] = "flatten" <=> n = 8
                      /\ Steps[n] = "follower" <=> n = 10
  /\ "flatten" \in StepNames
<1>1. Len(Steps) = 10
  BY DEF Steps
<1>2. \A n \in 1..10 : /\ Steps[n] = "budget" <=> n = 7
                       /\ Steps[n] = "flatten" <=> n = 8
                       /\ Steps[n] = "follower" <=> n = 10
  BY DEF Steps
<1>3. \A n \in 1..10 : Steps[n] \in StepNames
  BY <1>1 DEF StepNames
<1>4. StepNumber("flatten") = 8
  BY <1>1, <1>2 DEF StepNumber
<1>5. QED
  BY <1>1, <1>2, <1>3, <1>4

\* A set of step numbers that is not empty has a least one.
LEMMA LeastStep ==
  ASSUME NEW S \in SUBSET (1..10), S # {}
  PROVE  Min(S) \in S /\ \A n \in S : Min(S) <= n
<1>1. \E x \in S : \A y \in S : x <= y
  <2>1. PICK e : e \in S
    OBVIOUS
  <2>2. CASE 1 \in S
    BY <2>2
  <2>3. CASE 2 \in S /\ S \cap 1..1 = {}
    BY <2>3
  <2>4. CASE 3 \in S /\ S \cap 1..2 = {}
    BY <2>4
  <2>5. CASE 4 \in S /\ S \cap 1..3 = {}
    BY <2>5
  <2>6. CASE 5 \in S /\ S \cap 1..4 = {}
    BY <2>6
  <2>7. CASE 6 \in S /\ S \cap 1..5 = {}
    BY <2>7
  <2>8. CASE 7 \in S /\ S \cap 1..6 = {}
    BY <2>8
  <2>9. CASE 8 \in S /\ S \cap 1..7 = {}
    BY <2>9
  <2>10. CASE 9 \in S /\ S \cap 1..8 = {}
    BY <2>10
  <2>11. CASE 10 \in S /\ S \cap 1..9 = {}
    BY <2>11
  <2>12. QED
    BY <2>1, <2>2, <2>3, <2>4, <2>5, <2>6, <2>7, <2>8, <2>9, <2>10, <2>11
<1>2. QED
  BY <1>1 DEF Min

\* The next step of an iteration is a later one that is due, and no later one
\* that is due comes before it.
LEMMA NextStepIsDue ==
  ASSUME NEW i \in 0..10, NEW d, NEW t, NEW flags
  PROVE  LET n == NextStep(i, d, t, flags)
         IN  /\ n \in 0..10
             /\ n # 0 => n > i /\ Due(d, t, flags, Steps[n])
             /\ \A j \in i + 1..10 : Due(d, t, flags, Steps[j]) => n # 0 /\ n <= j
<1> DEFINE ahead == {j \in i + 1..Len(Steps) : Due(d, t, flags, Steps[j])}
<1>1. ahead \subseteq 1..10 /\ \A j \in ahead : j > i /\ Due(d, t, flags, Steps[j])
  BY StepsByNumber
<1>2. \A j \in i + 1..10 : Due(d, t, flags, Steps[j]) => j \in ahead
  BY StepsByNumber
<1>3. NextStep(i, d, t, flags) = IF ahead = {} THEN 0 ELSE Min(ahead)
  BY Zenon DEF NextStep
<1>4. CASE ahead = {}
  <2> HIDE DEF ahead
  <2> QED BY <1>2, <1>3, <1>4
<1>5. CASE ahead # {}
  <2> HIDE DEF ahead
  <2> DEFINE m == Min(ahead)
  <2>1. m \in ahead /\ \A j \in ahead : m <= j
    BY <1>1, <1>5, LeastStep
  <2>2. NextStep(i, d, t, flags) = m
    BY <1>3, <1>5
  <2> HIDE DEF m
  <2>3. /\ m \in 1..10 /\ m > i /\ Due(d, t, flags, Steps[m])
        /\ \A j \in i + 1..10 : Due(d, t, flags, Steps[j]) => m <= j
    BY <1>1, <1>2, <2>1
  <2> QED BY <2>2, <2>3
<1>6. QED
  BY <1>4, <1>5

LEMMA Constants ==
  /\ LastDay \in Nat \ {0} /\ Weekdays \subseteq Days
  /\ MaxPerDay \in Nat /\ MaxAge \in Nat /\ MaxEvaluations \in Nat /\ MaxMishaps \in Nat
BY ScheduleAssumption

LEMMA DueStep ==
  ASSUME NEW d, NEW t, NEW flags
  PROVE  /\ Due(d, t, flags, "flatten") <=> FlattenIsDue(d, t, flags)
         /\ Due(d, t, flags, "follower") <=> FollowerIsDue(d, t, flags)
BY DEF Due

\* Where an iteration that read d and t goes next.
LEMMA GoToNext ==
  ASSUME NEW i \in 0..10, NEW d \in Days, NEW t \in 0..4, NEW flags, LoopInv,
         d <= day, d = day => t <= time,
         GoTo(NextStep(i, d, t, flags), d, t)
  PROVE  /\ at' \in 0..10 /\ today' \in 0..LastDay /\ nowT' \in 0..4
         /\ flattened' \subseteq Days /\ flattened \subseteq flattened'
         /\ at' # 0 => /\ today' = d /\ nowT' = t /\ at' > i
                       /\ at' = 8 => nowT' = Window
                       /\ at' = 10 => nowT' = Evening
<1>1. /\ at' = NextStep(i, d, t, flags)
      /\ at' \in 0..10
      /\ at' # 0 => at' > i /\ Due(d, t, flags, Steps[at'])
  BY NextStepIsDue DEF GoTo
<1>2. at' = 8 => t = Window
  BY <1>1, StepsByNumber, DueStep DEF FlattenIsDue
<1>3. at' = 10 => t = Evening
  BY <1>1, StepsByNumber, DueStep DEF FollowerIsDue
<1>4. /\ today' = IF at' = 0 THEN 0 ELSE d
      /\ nowT' = IF at' = 0 THEN 0 ELSE t
      /\ flattened' \subseteq Days /\ flattened \subseteq flattened'
  BY <1>1 DEF GoTo, LoopInv
<1>5. QED
  BY <1>1, <1>2, <1>3, <1>4, Constants

\* To sleep.
LEMMA GoToSleep ==
  ASSUME NEW d, NEW t, LoopInv, GoTo(0, d, t)
  PROVE  at' = 0 /\ today' = 0 /\ nowT' = 0 /\ flattened' = flattened
<1>1. StepNumber("flatten") # 0
  BY StepsByNumber
<1>2. QED
  BY <1>1 DEF GoTo

LEMMA AtSteps ==
  ASSUME LoopInv
  PROVE  /\ InStep("budget") <=> at = 7
         /\ InStep("flatten") <=> at = 8
         /\ InStep("follower") <=> at = 10
<1>1. CASE at = 0
  BY <1>1 DEF InStep
<1>2. CASE at \in 1..10
  <2>1. InStep("budget") <=> Steps[at] = "budget"
    BY <1>2 DEF InStep
  <2>2. InStep("flatten") <=> Steps[at] = "flatten"
    BY <1>2 DEF InStep
  <2>3. InStep("follower") <=> Steps[at] = "follower"
    BY <1>2 DEF InStep
  <2>4. QED
    BY <1>2, <2>1, <2>2, <2>3, StepsByNumber
<1>3. QED
  BY <1>1, <1>2 DEF LoopInv

-----------------------------------------------------------------------------
(* Type correctness.                                                       *)

LEMMA FlagsType ==
  ASSUME LoopInv, at # 0, at # 10, done' = Flags(Steps[at])
  PROVE  /\ done' \in [StepNames -> 0..LastDay]
         /\ \A s \in StepNames : done'[s] <= day
         /\ done'["flatten"] = IF at = 8 THEN today ELSE done["flatten"]
<1>1. at \in 1..10
  BY DEF LoopInv
<1>2. Steps[at] \in StepNames /\ (Steps[at] = "flatten" <=> at = 8) /\ "flatten" \in StepNames
  BY <1>1, StepsByNumber
<1>3. done' = [done EXCEPT ![Steps[at]] = today]
  BY DEF Flags
<1>4. done \in [StepNames -> 0..LastDay] /\ today \in 0..LastDay /\ today <= day
      /\ \A s \in StepNames : done[s] <= day
  BY DEF LoopInv
<1>5. QED
  BY <1>2, <1>3, <1>4

LEMMA LoopSame ==
  ASSUME LoopInv, bars' \in {"running", "dead"}, mishaps' \in 0..MaxMishaps,
         UNCHANGED <<day, time, up, at, today, nowT, done, woke,
                     renewals, flattened, excused>>
  PROVE  LoopInv'
BY DEF LoopInv

LEMMA LoopStep ==
  ASSUME LoopInv, ShadowInv, FollowInv, [Next]_vars
  PROVE  LoopInv'
<1> USE Constants
<1>1. CASE Tick
  <2>1. /\ UNCHANGED <<up, bars, at, today, nowT, done, mishaps, renewals, flattened>>
        /\ woke' = FALSE /\ excused' \subseteq excused \cup {day}
    BY <1>1 DEF Tick
  <2>2. /\ time' \in 0..4 /\ day' \in Days
        /\ day' > day \/ (day' = day /\ time' >= time)
    BY <1>1 DEF Tick, LoopInv
  <2>3. at # 0 => up' /\ today <= day' /\ (today = day' => nowT <= time')
    BY <2>1, <2>2 DEF LoopInv
  <2>4. \A s \in StepNames : done[s] <= day'
    BY <2>2 DEF LoopInv
  <2> QED BY <2>1, <2>2, <2>3, <2>4 DEF LoopInv
<1>2. CASE Wake
  <2>1. 0 \in 0..10 /\ day \in Days /\ time \in 0..4
    BY DEF LoopInv
  <2>2. /\ at' \in 0..10 /\ today' \in 0..LastDay /\ nowT' \in 0..4
        /\ flattened' \subseteq Days
        /\ at' # 0 => /\ today' = day /\ nowT' = time
                      /\ at' = 8 => nowT' = Window
                      /\ at' = 10 => nowT' = Evening
    BY <1>2, <2>1, GoToNext DEF Wake
  <2> QED BY <1>2, <2>2 DEF Wake, LoopInv, clock
<1>3. CASE StepSucceeds
  <2>1. /\ at \in 1..9 /\ today \in Days /\ nowT \in 0..4 /\ today <= day
        /\ today = day => nowT <= time
    BY <1>3, AtSteps DEF StepSucceeds, LoopInv
  <2>2. /\ done' \in [StepNames -> 0..LastDay]
        /\ \A s \in StepNames : done'[s] <= day
    BY <1>3, <2>1, FlagsType DEF StepSucceeds
  <2>3. /\ at' \in 0..10 /\ today' \in 0..LastDay /\ nowT' \in 0..4
        /\ flattened' \subseteq Days
        /\ at' # 0 => /\ today' = today /\ nowT' = nowT
                      /\ at' = 8 => nowT' = Window
                      /\ at' = 10 => nowT' = Evening
    BY <1>3, <2>1, GoToNext DEF StepSucceeds
  <2>4. renewals' \in [Days -> Nat]
    BY <1>3, SMTT(30) DEF StepSucceeds, Renew, LoopInv
  <2>5. UNCHANGED <<day, time, up, bars, woke, excused, mishaps>> /\ up
    BY <1>3 DEF StepSucceeds, clock
  <2> QED BY <2>1, <2>2, <2>3, <2>4, <2>5 DEF LoopInv
<1>4. CASE StepRaises
  <2>1. /\ at \in 1..9 /\ today \in Days /\ nowT \in 0..4 /\ today <= day
        /\ today = day => nowT <= time
    BY <1>4, StepsByNumber DEF StepRaises, LoopInv
  <2>2. /\ at' \in 0..10 /\ today' \in 0..LastDay /\ nowT' \in 0..4
        /\ flattened' \subseteq Days
        /\ at' # 0 => /\ today' = today /\ nowT' = nowT
                      /\ at' = 8 => nowT' = Window
                      /\ at' = 10 => nowT' = Evening
    BY <1>4, <2>1, GoToNext DEF StepRaises
  <2>3. UNCHANGED <<day, time, up, bars, woke, done, excused, renewals>> /\ up
        /\ mishaps' \in 0..MaxMishaps
    BY <1>4 DEF StepRaises, clock, LoopInv
  <2> QED BY <2>1, <2>2, <2>3 DEF LoopInv
<1>5. CASE Crash
  <2>1. /\ UNCHANGED <<day, time, done, woke, renewals, flattened>>
        /\ at' = 0 /\ today' = 0 /\ nowT' = 0
        /\ bars' = "dead" /\ mishaps' = mishaps + 1 /\ mishaps < MaxMishaps
        /\ excused' \subseteq excused \cup {day}
    BY <1>5 DEF Crash, clock
  <2>2. up' \in BOOLEAN
    BY <1>5 DEF Crash
  <2> QED BY <2>1, <2>2 DEF LoopInv
<1>6. CASE Boot
  <2>1. /\ UNCHANGED <<day, time, at, today, nowT, mishaps, flattened, excused>>
        /\ bars' = "running" /\ woke' = FALSE /\ done' = [s \in StepNames |-> 0]
        /\ renewals' \in [Days -> Nat]
    BY <1>6 DEF Boot, Renew, clock, LoopInv
  <2>2. at = 0 /\ up' \in BOOLEAN
    BY <1>6 DEF Boot, LoopInv
  <2>3. /\ done' \in [StepNames -> 0..LastDay]
        /\ \A s \in StepNames : done'[s] <= day'
    BY <2>1 DEF LoopInv
  <2> QED BY <2>1, <2>2, <2>3 DEF LoopInv
<1>7. CASE BarsDie \/ Supervise
  <2>1. /\ UNCHANGED <<day, time, up, at, today, nowT, done, woke,
                       renewals, flattened, excused>>
        /\ bars' \in {"running", "dead"} /\ mishaps' \in 0..MaxMishaps
    BY <1>7 DEF BarsDie, Supervise, LoopInv, clock, loop, history
  <2> QED BY <2>1, LoopSame
<1>8. CASE StartEvaluation \/ Escalate
  <2>1. /\ UNCHANGED <<day, time, up, at, today, nowT, done, woke,
                       renewals, flattened, excused>>
        /\ bars' \in {"running", "dead"} /\ mishaps' \in 0..MaxMishaps
    BY <1>8 DEF StartEvaluation, Escalate, LoopInv, clock, loop, history
  <2> QED BY <2>1, LoopSame
<1>9. CASE FirstTierDecides \/ SecondTierDecides
  <2>1. /\ UNCHANGED <<day, time, up, at, today, nowT, done, woke,
                       renewals, flattened, excused>>
        /\ bars' \in {"running", "dead"} /\ mishaps' \in 0..MaxMishaps
    BY <1>9 DEF FirstTierDecides, SecondTierDecides, LogShadow, LoopInv, clock, loop, history
  <2> QED BY <2>1, LoopSame
<1>10. CASE FollowerEnds
  <2>1. at' = 0 /\ today' = 0 /\ nowT' = 0 /\ flattened' = flattened
    BY <1>10, GoToSleep DEF FollowerEnds
  <2>2. done' \in [StepNames -> 0..LastDay] /\ \A s \in StepNames : done'[s] <= day
    <3>1. at = 10 /\ done' = [done EXCEPT !["follower"] = today]
      BY <1>10, AtSteps DEF FollowerEnds, Flags
    <3>2. today \in 0..LastDay /\ today <= day /\ done \in [StepNames -> 0..LastDay]
          /\ \A s \in StepNames : done[s] <= day
      BY <3>1 DEF LoopInv
    <3> QED BY <3>1, <3>2
  <2>3. UNCHANGED <<day, time, up, bars, woke, excused, mishaps, renewals>>
    BY <1>10 DEF FollowerEnds, clock
  <2> QED BY <2>1, <2>2, <2>3 DEF LoopInv
<1>11. CASE FollowerReads \/ ScriptReads \/ ScriptEnds
  <2>1. /\ UNCHANGED <<day, time, up, at, today, nowT, done, woke,
                       renewals, flattened, excused>>
        /\ bars' \in {"running", "dead"} /\ mishaps' \in 0..MaxMishaps
    BY <1>11 DEF FollowerReads, ScriptReads, ScriptEnds, LoopInv, clock, loop, history
  <2> QED BY <2>1, LoopSame
<1>12. CASE \E b \in Backfills : AttributeGroup(b)
  <2>1. /\ UNCHANGED <<day, time, up, at, today, nowT, done, woke,
                       renewals, flattened, excused>>
        /\ bars' \in {"running", "dead"} /\ mishaps' \in 0..MaxMishaps
    BY <1>12 DEF AttributeGroup, LoopInv, clock, loop, history
  <2> QED BY <2>1, LoopSame
<1>13. CASE UNCHANGED vars
  <2>1. /\ UNCHANGED <<day, time, up, at, today, nowT, done, woke,
                       renewals, flattened, excused>>
        /\ bars' \in {"running", "dead"} /\ mishaps' \in 0..MaxMishaps
    BY <1>13 DEF vars, LoopInv, clock, loop, history
  <2> QED BY <2>1, LoopSame
<1>14. QED
  BY <1>1, <1>2, <1>3, <1>4, <1>5, <1>6, <1>7, <1>8, <1>9, <1>10, <1>11, <1>12, <1>13
     DEF Next, Backfill

\* What a backfill attributes: decisions that were priced and had no outcome, each
\* with an outcome of this moment.
LEMMA Attributes ==
  ASSUME LoopInv, ShadowInv, FollowInv, NEW b \in Backfills, AttributeGroup(b)
  PROVE  \E kept \in SUBSET {i \in DOMAIN decisions : decisions[i].priced
                                                     /\ i \notin DOMAIN outcomes},
            now \in Outcome :
           /\ outcomes' = [i \in DOMAIN outcomes \cup kept |->
                             IF i \in DOMAIN outcomes THEN outcomes[i] ELSE now]
           /\ now.by = b /\ now.day = day /\ now.time = time
           /\ b = "follower" => at = 10 /\ now.began = today
           /\ todo'[b] \subseteq todo[b]
           /\ todo' = [todo EXCEPT ![b] = todo'[b]]
<1> DEFINE now == [by |-> b, day |-> day, time |-> time,
                   began |-> IF b = "follower" THEN today ELSE day]
<1>1. PICK S \in SUBSET Group(b) :
        LET taken == S \cap DOMAIN outcomes
            kept == {i \in S : \A j \in taken : i < j}
        IN  /\ outcomes' = [i \in DOMAIN outcomes \cup kept |->
                              IF i \in DOMAIN outcomes THEN outcomes[i] ELSE now]
            /\ todo' = [todo EXCEPT ![b] = IF taken = {} THEN todo[b] \ Group(b) ELSE {}]
  BY DEF AttributeGroup
<1> DEFINE taken == S \cap DOMAIN outcomes
           kept == {i \in S : \A j \in taken : i < j} \ DOMAIN outcomes
<1>2. S \subseteq todo[b] /\ todo[b] \subseteq DOMAIN decisions
      /\ \A i \in todo[b] : decisions[i].priced
  BY DEF Group, FollowInv
<1>3. kept \in SUBSET {i \in DOMAIN decisions : decisions[i].priced
                                                /\ i \notin DOMAIN outcomes}
  BY <1>2
<1>4. outcomes' = [i \in DOMAIN outcomes \cup kept |->
                     IF i \in DOMAIN outcomes THEN outcomes[i] ELSE now]
  <2> HIDE DEF now
  <2> QED BY <1>1
<1>5. pc[b] = "fetching"
  BY DEF AttributeGroup
<1>6. b = "follower" => at = 10
  BY <1>5 DEF FollowInv
<1>7. now \in Outcome
  <2>1. (IF b = "follower" THEN today ELSE day) \in 1..LastDay
    BY <1>6, Constants DEF LoopInv
  <2> QED BY <2>1 DEF Outcome, LoopInv
<1>8. todo'[b] \subseteq todo[b] /\ todo' = [todo EXCEPT ![b] = todo'[b]]
  <2>1. todo \in [Backfills -> SUBSET DOMAIN decisions]
    BY DEF FollowInv
  <2> QED BY <1>1, <2>1
<1>9. now.by = b /\ now.day = day /\ now.time = time
      /\ (b = "follower" => now.began = today)
  OBVIOUS
<1> HIDE DEF now, kept
<1>10. QED
  BY <1>3, <1>4, <1>6, <1>7, <1>8, <1>9

\* What LogShadow makes of the table of decisions.
LEMMA Logs ==
  ASSUME LoopInv, ShadowInv, NEW second \in BOOLEAN, LogShadow(second)
  PROVE  \/ UNCHANGED decisions /\ lost' = lost + IF second THEN 1 ELSE 0
         \/ \E row \in Row : /\ decisions' = Append(decisions, row)
                             /\ row.day = day /\ row.second = second
                             /\ UNCHANGED lost
<1>1. \A priced \in BOOLEAN : [day |-> day, second |-> second, priced |-> priced] \in Row
  BY DEF Row, LoopInv
<1>2. CASE UNCHANGED decisions /\ lost' = lost + IF second THEN 1 ELSE 0
  BY <1>2
<1>3. ASSUME NEW priced \in BOOLEAN, UNCHANGED lost,
             decisions' = Append(decisions, [day |-> day, second |-> second,
                                             priced |-> priced])
      PROVE  \E row \in Row : /\ decisions' = Append(decisions, row)
                              /\ row.day = day /\ row.second = second
  <2> DEFINE row == [day |-> day, second |-> second, priced |-> priced]
  <2>1. row \in Row /\ row.day = day /\ row.second = second
    BY <1>1
  <2> QED BY <1>3, <2>1
<1>4. QED
  BY <1>2, <1>3 DEF LogShadow

LEMMA LongerTable ==
  ASSUME ShadowInv, NEW row \in Row, decisions' = Append(decisions, row)
  PROVE  /\ decisions' \in Seq(Row) /\ Len(decisions') = Len(decisions) + 1
         /\ DOMAIN decisions = 1..Len(decisions)
         /\ DOMAIN decisions' = 1..Len(decisions) + 1
         /\ \A i \in DOMAIN decisions : decisions'[i] = decisions[i]
         /\ decisions'[Len(decisions) + 1] = row
BY DEF ShadowInv

LEMMA ShadowSame ==
  ASSUME ShadowInv, UNCHANGED <<decisions, evaluations, calls>>,
         evalPc' \in {"idle", evalPc}, used' \in {0, used}, lost' \in Nat
  PROVE  ShadowInv'
BY Constants DEF ShadowInv

LEMMA ShadowStep ==
  ASSUME LoopInv, ShadowInv, FollowInv, [Next]_vars
  PROVE  ShadowInv'
<1>1. CASE Tick \/ Wake \/ StepSucceeds \/ StepRaises
  <2>1. /\ UNCHANGED <<decisions, evaluations, calls, evalPc, lost>>
        /\ used' \in {0, used}
    BY <1>1 DEF Tick, Wake, StepSucceeds, StepRaises, shadow
  <2> QED BY <2>1, ShadowSame DEF ShadowInv
<1>2. CASE Crash \/ Boot \/ BarsDie \/ Supervise
  <2>1. /\ UNCHANGED <<decisions, evaluations, calls>> /\ evalPc' \in {"idle", evalPc}
        /\ used' \in {0, used} /\ lost' \in Nat
    BY <1>2 DEF Crash, Boot, BarsDie, Supervise, shadow, ShadowInv
  <2> QED BY <2>1, ShadowSame
<1>3. CASE StartEvaluation
  BY <1>3, Constants DEF StartEvaluation, ShadowInv
<1>4. CASE Escalate
  <2>1. calls' \in [Days -> Nat]
    BY <1>4 DEF Escalate, ShadowInv, LoopInv
  <2>2. used' \in 0..MaxPerDay
    BY <1>4, Constants DEF Escalate, HasCapacity, ShadowInv
  <2> QED BY <1>4, <2>1, <2>2 DEF Escalate, ShadowInv
<1>5. CASE FirstTierDecides \/ SecondTierDecides
  <2>1. PICK second \in BOOLEAN : LogShadow(second)
    BY <1>5 DEF FirstTierDecides, SecondTierDecides
  <2>2. lost' \in Nat
    BY <2>1 DEF LogShadow, ShadowInv
  <2>3. evalPc # "idle" /\ evalPc' = "idle" /\ UNCHANGED <<used, evaluations, calls>>
    BY <1>5 DEF FirstTierDecides, SecondTierDecides
  <2>4. CASE UNCHANGED decisions
    BY <2>2, <2>3, <2>4, ShadowSame
  <2>5. ASSUME NEW row \in Row, decisions' = Append(decisions, row)
        PROVE  decisions' \in Seq(Row) /\ Len(decisions') = Len(decisions) + 1
    BY <2>5, LongerTable
  <2> QED BY <2>1, <2>2, <2>3, <2>4, <2>5, Logs DEF ShadowInv
<1>6. CASE Backfill
  <2>1. UNCHANGED <<used, evalPc, decisions, evaluations, calls, lost>>
    BY <1>6 DEF Backfill, FollowerReads, FollowerEnds, ScriptReads, ScriptEnds,
                AttributeGroup, shadow
  <2> QED BY <2>1, ShadowSame DEF ShadowInv
<1>7. CASE UNCHANGED vars
  <2>1. UNCHANGED <<used, evalPc, decisions, evaluations, calls, lost>>
    BY <1>7 DEF vars, shadow
  <2> QED BY <2>1, ShadowSame DEF ShadowInv
<1>8. QED
  BY <1>1, <1>2, <1>3, <1>4, <1>5, <1>6, <1>7 DEF Next

\* The backfills are untouched by a step that leaves them, or the follower, behind
\* while the table of decisions only grows.
LEMMA FollowSame ==
  ASSUME FollowInv, UNCHANGED outcomes,
         DOMAIN decisions \subseteq DOMAIN decisions',
         \A i \in DOMAIN decisions : decisions'[i] = decisions[i],
         \/ UNCHANGED <<todo, pc>> /\ (at = 10 /\ pc["follower"] = "fetching" => at' = 10)
         \/ /\ todo' = [todo EXCEPT !["follower"] = {}]
            /\ pc' = [pc EXCEPT !["follower"] = "idle"]
  PROVE  FollowInv'
BY DEF FollowInv

LEMMA FollowStep ==
  ASSUME LoopInv, ShadowInv, FollowInv, [Next]_vars
  PROVE  FollowInv'
<1>1. CASE Tick \/ Boot \/ BarsDie \/ Supervise \/ StartEvaluation \/ Escalate
  <2>1. UNCHANGED <<at, decisions, outcomes, todo, pc>>
    BY <1>1 DEF Tick, Boot, BarsDie, Supervise, StartEvaluation, Escalate,
                shadow, follow, loop
  <2> QED BY <2>1, FollowSame
<1>2. CASE Wake \/ StepSucceeds \/ StepRaises
  <2>1. UNCHANGED <<decisions, outcomes, todo, pc>>
    BY <1>2 DEF Wake, StepSucceeds, StepRaises, shadow, follow
  <2>2. at # 10
    <3>1. CASE Wake
      BY <3>1 DEF Wake
    <3>2. CASE StepSucceeds
      BY <3>2, AtSteps DEF StepSucceeds
    <3>3. CASE StepRaises
      BY <3>3, StepsByNumber DEF StepRaises
    <3> QED BY <1>2, <3>1, <3>2, <3>3
  <2> QED BY <2>1, <2>2, FollowSame
<1>3. CASE Crash
  <2>1. /\ UNCHANGED <<decisions, outcomes>>
        /\ todo' = [todo EXCEPT !["follower"] = {}]
        /\ pc' = [pc EXCEPT !["follower"] = "idle"]
    BY <1>3 DEF Crash
  <2> QED BY <2>1, FollowSame
<1>4. CASE FirstTierDecides \/ SecondTierDecides
  <2>1. UNCHANGED <<at, outcomes, todo, pc>>
    BY <1>4 DEF FirstTierDecides, SecondTierDecides, loop, follow
  <2>2. PICK second \in BOOLEAN : LogShadow(second)
    BY <1>4 DEF FirstTierDecides, SecondTierDecides
  <2>3. CASE UNCHANGED decisions
    BY <2>1, <2>3, FollowSame
  <2>4. ASSUME NEW row \in Row, decisions' = Append(decisions, row)
        PROVE  FollowInv'
    <3>1. /\ DOMAIN decisions \subseteq DOMAIN decisions'
          /\ \A i \in DOMAIN decisions : decisions'[i] = decisions[i]
      <4>1. Len(decisions) \in Nat
        BY DEF ShadowInv
      <4> QED BY <2>4, <4>1, LongerTable
    <3> QED BY <2>1, <3>1, FollowSame
  <2> QED BY <2>2, <2>3, <2>4, Logs
<1>5. CASE FollowerReads \/ ScriptReads
  <2>1. UNCHANGED <<at, decisions, outcomes>>
    BY <1>5 DEF FollowerReads, ScriptReads, loop, shadow
  <2>2. PICK b \in Backfills, ids \in SUBSET Candidates :
          /\ todo' = [todo EXCEPT ![b] = ids]
          /\ pc' = [pc EXCEPT ![b] = "fetching"]
          /\ b = "follower" => at = 10
    <3>1. CASE FollowerReads
      BY <3>1, AtSteps DEF FollowerReads
    <3>2. CASE ScriptReads
      BY <3>2 DEF ScriptReads
    <3> QED BY <1>5, <3>1, <3>2
  <2>3. ids \subseteq DOMAIN decisions /\ \A i \in ids : decisions[i].priced
    BY DEF Candidates
  <2> QED BY <2>1, <2>2, <2>3 DEF FollowInv
<1>6. CASE FollowerEnds \/ ScriptEnds
  <2>1. UNCHANGED <<decisions, outcomes, todo>>
    BY <1>6 DEF FollowerEnds, ScriptEnds, shadow
  <2>2. PICK b \in Backfills :
          /\ todo[b] = {} /\ pc' = [pc EXCEPT ![b] = "idle"]
          /\ b = "script" => at' = at
    BY <1>6 DEF FollowerEnds, ScriptEnds, loop
  <2> QED BY <2>1, <2>2 DEF FollowInv
<1>7. ASSUME NEW b \in Backfills, AttributeGroup(b) PROVE FollowInv'
  <2>1. UNCHANGED <<at, decisions, pc>>
    BY <1>7 DEF AttributeGroup, loop, shadow
  <2>2. PICK kept \in SUBSET {i \in DOMAIN decisions : decisions[i].priced
                                                     /\ i \notin DOMAIN outcomes},
             now \in Outcome :
          /\ outcomes' = [i \in DOMAIN outcomes \cup kept |->
                            IF i \in DOMAIN outcomes THEN outcomes[i] ELSE now]
          /\ todo'[b] \subseteq todo[b]
          /\ todo' = [todo EXCEPT ![b] = todo'[b]]
    BY <1>7, Attributes
  <2>3. /\ DOMAIN outcomes' \subseteq DOMAIN decisions'
        /\ \A i \in DOMAIN outcomes' : outcomes'[i] \in Outcome
    BY <2>1, <2>2 DEF FollowInv
  <2>4. PICK rest : rest \subseteq todo[b] /\ todo' = [todo EXCEPT ![b] = rest]
    BY <2>2
  <2>5. /\ todo' \in [Backfills -> SUBSET DOMAIN decisions']
        /\ \A c \in Backfills : /\ pc'[c] = "idle" => todo'[c] = {}
                                /\ \A i \in todo'[c] : decisions'[i].priced
    BY <2>1, <2>4 DEF FollowInv
  <2> QED BY <2>1, <2>3, <2>5 DEF FollowInv
<1>8. CASE UNCHANGED vars
  <2>1. UNCHANGED <<at, decisions, outcomes, todo, pc>>
    BY <1>8 DEF vars, shadow, follow, loop
  <2> QED BY <2>1, FollowSame
<1>9. QED
  BY <1>1, <1>2, <1>3, <1>4, <1>5, <1>6, <1>7, <1>8 DEF Next, Backfill

\* RoutineInv holds of every behaviour.
THEOREM RoutineInvariant == Spec => []RoutineInv
<1>1. Init => RoutineInv
  <2> SUFFICES ASSUME Init PROVE RoutineInv
    OBVIOUS
  <2>1. LoopInv
    <3>1. at = 0 /\ up \in BOOLEAN /\ woke \in BOOLEAN
      BY DEF Init
    <3>2. /\ done \in [StepNames -> 0..LastDay] /\ \A s \in StepNames : done[s] <= day
          /\ renewals \in [Days -> Nat]
      BY Constants DEF Init
    <3>3. /\ day \in Days /\ time \in 0..4 /\ bars \in {"running", "dead"}
          /\ today \in 0..LastDay /\ nowT \in 0..4 /\ mishaps \in 0..MaxMishaps
          /\ flattened \subseteq Days /\ excused \subseteq Days
      BY Constants DEF Init
    <3> QED BY <3>1, <3>2, <3>3 DEF LoopInv
  <2>2. ShadowInv
    BY Constants DEF Init, ShadowInv
  <2>3. FollowInv
    BY DEF Init, FollowInv
  <2> QED BY <2>1, <2>2, <2>3 DEF RoutineInv
<1>2. RoutineInv /\ [Next]_vars => RoutineInv'
  BY LoopStep, ShadowStep, FollowStep DEF RoutineInv
<1>3. QED
  BY <1>1, <1>2, PTL DEF Spec

\* Type correctness of the day of the process (main.py:260): an iteration awaits a
\* step only while the process is up, a backfill holds nothing when idle, and every
\* evaluation that was logged was started.
THEOREM TypeCorrect == Spec => []TypeOK
<1>1. RoutineInv => TypeOK
  BY StepsByNumber DEF RoutineInv, LoopInv, ShadowInv, FollowInv, Row, TypeOK
<1>2. QED
  BY <1>1, RoutineInvariant, PTL

-----------------------------------------------------------------------------
(* The budget of the second tier.                                          *)

LEMMA Product ==
  ASSUME NEW m \in Nat, NEW n \in Nat
  PROVE  m * n \in Nat /\ m * (n + 1) = m * n + m /\ m * (1 + n) = m * n + m
OBVIOUS

\* A renewal makes room for what was used before it.
LEMMA Renewed ==
  ASSUME RoutineInv, BudgetInv, used' = 0, UNCHANGED <<day, calls>>, Renew(day)
  PROVE  BudgetInv' /\ (BudgetKept => BudgetKept')
<1> DEFINE n == IF calls[day] > 0 THEN 1 ELSE 0
<1>1. /\ day \in Days /\ used \in 0..MaxPerDay /\ MaxPerDay \in Nat
      /\ calls \in [Days -> Nat] /\ renewals \in [Days -> Nat]
  BY Constants DEF RoutineInv, LoopInv, ShadowInv
<1>2. /\ renewals' \in [Days -> Nat] /\ renewals'[day] = renewals[day] + n
      /\ \A d \in Days : renewals'[d] = IF d = day THEN renewals[day] + n ELSE renewals[d]
  BY <1>1 DEF Renew
<1>3. calls[day] <= MaxPerDay * renewals'[day]
  <2>1. /\ MaxPerDay * renewals[day] \in Nat
        /\ MaxPerDay * (renewals[day] + 1) = MaxPerDay * renewals[day] + MaxPerDay
    BY <1>1, Product
  <2>2. CASE calls[day] > 0
    BY <1>1, <1>2, <2>1, <2>2 DEF BudgetInv
  <2>3. CASE calls[day] = 0
    BY <1>1, <1>2, <2>1, <2>3
  <2> QED BY <1>1, <2>2, <2>3
<1>4. BudgetInv'
  <2>1. MaxPerDay * renewals'[day] \in Nat
    BY <1>1, <1>2, Product
  <2> QED BY <1>1, <1>3, <2>1 DEF BudgetInv
<1>5. ASSUME BudgetKept, NEW d \in Days PROVE calls[d] <= MaxPerDay * (1 + renewals'[d])
  <2>1. CASE d = day
    <3>1. /\ MaxPerDay * renewals'[day] \in Nat
          /\ MaxPerDay * (1 + renewals'[day]) = MaxPerDay * renewals'[day] + MaxPerDay
      BY <1>1, <1>2, Product
    <3> QED BY <1>1, <1>3, <2>1, <3>1
  <2>2. CASE d # day
    BY <1>2, <1>5, <2>2 DEF BudgetKept
  <2> QED BY <2>1, <2>2
<1>6. QED
  BY <1>4, <1>5 DEF BudgetKept

\* The second tier is called at most max_per_day times a day, and as many times
\* again for each renewal after a call of that day (escalation.py:35, main.py:721):
\* for every budget and every order of calls, resets, crashes and midnights.
THEOREM BudgetIsKept == Spec => []BudgetKept
<1>1. Init => BudgetInv /\ BudgetKept
  <2> SUFFICES ASSUME Init PROVE BudgetInv /\ BudgetKept
    OBVIOUS
  <2>1. 1 \in Days /\ MaxPerDay \in Nat
    BY Constants
  <2>2. \A d \in Days : calls[d] = 0 /\ renewals[d] = 0
    BY DEF Init
  <2>3. MaxPerDay * 0 = 0 /\ MaxPerDay * (1 + 0) = MaxPerDay
    BY <2>1
  <2>4. day = 1 /\ used = 0
    BY DEF Init
  <2> QED BY <2>1, <2>2, <2>3, <2>4 DEF BudgetInv, BudgetKept
<1>2. RoutineInv /\ BudgetInv /\ BudgetKept /\ [Next]_vars => BudgetInv' /\ BudgetKept'
  <2> SUFFICES ASSUME RoutineInv, BudgetInv, BudgetKept, [Next]_vars
               PROVE  BudgetInv' /\ BudgetKept'
    OBVIOUS
  <2>1. /\ day \in Days /\ used \in 0..MaxPerDay /\ MaxPerDay \in Nat
        /\ calls \in [Days -> Nat] /\ renewals \in [Days -> Nat]
    BY Constants DEF RoutineInv, LoopInv, ShadowInv
  <2>2. CASE Tick
    <3>1. UNCHANGED <<used, calls, renewals>> /\ day' \in Days /\ day' \in {day, day + 1}
      BY <2>1, <2>2, Constants DEF Tick, shadow
    <3>2. MaxPerDay * renewals[day + 1] \in Nat \/ day + 1 \notin Days
      BY <2>1, Product
    <3>3. BudgetInv'
      BY <2>1, <3>1, <3>2 DEF BudgetInv
    <3> QED BY <3>1, <3>3 DEF BudgetKept
  <2>3. CASE StepSucceeds
    <3>1. UNCHANGED <<day, calls>>
      BY <2>3 DEF StepSucceeds, clock
    <3>2. CASE InStep("budget")
      BY <2>3, <3>1, <3>2, Renewed DEF StepSucceeds
    <3>3. CASE ~InStep("budget")
      BY <2>3, <3>1, <3>3 DEF StepSucceeds, BudgetInv, BudgetKept
    <3> QED BY <3>2, <3>3
  <2>4. CASE Boot
    BY <2>4, Renewed DEF Boot, clock
  <2>5. CASE Escalate
    <3>1. /\ UNCHANGED <<day, renewals>> /\ used' = used + 1
          /\ calls' = [calls EXCEPT ![day] = calls[day] + 1]
      BY <2>5 DEF Escalate, clock, history
    <3>2. used + 1 <= MaxPerDay
      BY <2>1, <2>5 DEF Escalate, HasCapacity
    <3>3. /\ MaxPerDay * renewals[day] \in Nat
          /\ MaxPerDay * (1 + renewals[day]) = MaxPerDay * renewals[day] + MaxPerDay
      BY <2>1, Product
    <3>4. calls[day] + 1 <= MaxPerDay * renewals[day] + (used + 1)
      BY <2>1, <3>3 DEF BudgetInv
    <3>5. BudgetInv'
      BY <2>1, <3>1, <3>4 DEF BudgetInv
    <3>6. ASSUME NEW d \in Days PROVE calls'[d] <= MaxPerDay * (1 + renewals'[d])
      <4>1. CASE d = day
        BY <2>1, <3>1, <3>2, <3>3, <3>4, <4>1
      <4>2. CASE d # day
        BY <2>1, <3>1, <4>2 DEF BudgetKept
      <4> QED BY <4>1, <4>2
    <3> QED BY <3>5, <3>6 DEF BudgetKept
  <2>6. CASE Wake \/ StepRaises \/ Crash \/ BarsDie \/ Supervise \/ StartEvaluation
             \/ FirstTierDecides \/ SecondTierDecides \/ Backfill \/ UNCHANGED vars
    <3>1. UNCHANGED <<day, used, calls, renewals>>
      BY <2>6 DEF Wake, StepRaises, Crash, BarsDie, Supervise, StartEvaluation,
                  FirstTierDecides, SecondTierDecides, Backfill, FollowerReads,
                  FollowerEnds, ScriptReads, ScriptEnds, AttributeGroup, vars,
                  clock, shadow, history
    <3> QED BY <3>1 DEF BudgetInv, BudgetKept
  <2>7. QED
    BY <2>2, <2>3, <2>4, <2>5, <2>6 DEF Next
<1>3. QED
  BY <1>1, <1>2, RoutineInvariant, PTL DEF Spec

-----------------------------------------------------------------------------
(* Every call of the second tier is accounted for.                         *)

Consulted == {i \in DOMAIN decisions : decisions[i].second}

InCall == IF evalPc = "t2" THEN 1 ELSE 0

\* The second-tier calls of all days.
AllCalls == SumFunctionOnSet(calls, Days)

Accounted == AllCalls = Cardinality(Consulted) + lost + InCall

LEMMA AccountedIsInvariant == ASSUME ShadowInv PROVE CallsAccounted <=> Accounted
<1>1. DOMAIN calls = Days
  BY DEF ShadowInv
<1>2. SumFunction(calls) = AllCalls
  BY <1>1, Zenon DEF SumFunction, AllCalls
<1> QED
  BY <1>2, Zenon DEF CallsAccounted, Accounted, Consulted, InCall

LEMMA ConsultedRows ==
  ASSUME ShadowInv
  PROVE  IsFiniteSet(Consulted) /\ Cardinality(Consulted) \in Nat
<1>1. DOMAIN decisions = 1..Len(decisions) /\ Len(decisions) \in Nat
  BY DEF ShadowInv
<1>2. IsFiniteSet(1..Len(decisions))
  BY <1>1, FS_Interval
<1>3. Consulted \subseteq 1..Len(decisions)
  BY <1>1 DEF Consulted
<1> QED
  BY <1>2, <1>3, FS_Subset, FS_CardinalityType

\* A row that is appended counts when it tells of a second opinion.
LEMMA OneRowMore ==
  ASSUME ShadowInv, NEW row \in Row, decisions' = Append(decisions, row)
  PROVE  Cardinality(Consulted') = Cardinality(Consulted) + IF row.second THEN 1 ELSE 0
<1> DEFINE n == Len(decisions) + 1
<1>1. /\ DOMAIN decisions = 1..Len(decisions) /\ DOMAIN decisions' = 1..n
      /\ \A i \in DOMAIN decisions : decisions'[i] = decisions[i]
      /\ decisions'[n] = row /\ Len(decisions) \in Nat
  <2>1. Len(decisions) \in Nat
    BY DEF ShadowInv
  <2> QED BY <2>1, LongerTable
<1>2. n \notin Consulted
  BY <1>1 DEF Consulted
<1>3. Consulted' = IF row.second THEN Consulted \cup {n} ELSE Consulted
  BY <1>1 DEF Consulted
<1> HIDE DEF n
<1>4. CASE row.second
  <2>1. Consulted' = Consulted \cup {n}
    BY <1>3, <1>4
  <2>2. Cardinality(Consulted \cup {n}) = Cardinality(Consulted) + 1
    BY <1>2, ConsultedRows, FS_AddElement
  <2> QED BY <1>4, <2>1, <2>2
<1>5. CASE ~row.second
  BY <1>3, <1>5, ConsultedRows
<1> QED
  BY <1>4, <1>5

LEMMA DaysAreFinite == IsFiniteSet(Days)
BY Constants, FS_Interval

LEMMA AllCallsIsSum ==
  ASSUME ShadowInv
  PROVE  AllCalls \in Int
<1>1. calls \in [Days -> Int]
  BY DEF ShadowInv
<1>2. Days \in SUBSET Days
  OBVIOUS
<1> HIDE DEF Days
<1> QED
  BY <1>1, <1>2, DaysAreFinite, SumStep DEF AllCalls

\* Every second-tier call is told by one row of the table decisions, unless the
\* process or the stream died during the call or the insert failed
\* (signal_engine.py:138, main.py:1556): so the audit of costs, which counts the
\* rows, misses nothing else, however calls, crashes and failing inserts interleave.
THEOREM CallsAreAccounted == Spec => []CallsAccounted
<1>1. Init => Accounted
  <2> SUFFICES ASSUME Init PROVE Accounted
    OBVIOUS
  <2>1. calls \in [Days -> Int] /\ \A d \in Days : calls[d] = 0
    BY DEF Init
  <2>2. AllCalls = 0
    <3>1. Days \in SUBSET Days
      OBVIOUS
    <3> HIDE DEF Days
    <3> QED BY <2>1, <3>1, DaysAreFinite, SumOfZeros DEF AllCalls
  <2>3. Consulted = {} /\ lost = 0 /\ InCall = 0
    BY DEF Init, Consulted, InCall
  <2> QED BY <2>2, <2>3, FS_EmptySet DEF Accounted
<1>2. RoutineInv /\ RoutineInv' /\ Accounted /\ [Next]_vars => Accounted'
  <2> SUFFICES ASSUME RoutineInv, RoutineInv', Accounted, [Next]_vars PROVE Accounted'
    OBVIOUS
  <2>1. LoopInv /\ ShadowInv /\ ShadowInv'
    BY DEF RoutineInv
  <2>2. /\ Cardinality(Consulted) \in Nat /\ lost \in Nat /\ InCall \in {0, 1}
        /\ AllCalls \in Int
    BY <2>1, ConsultedRows, AllCallsIsSum DEF ShadowInv, InCall
  <2>3. CASE UNCHANGED <<calls, decisions, lost, InCall>>
    <3>1. Consulted' = Consulted /\ AllCalls' = AllCalls
      BY <2>3 DEF Consulted, AllCalls
    <3> QED BY <2>3, <3>1 DEF Accounted
  <2>4. CASE Tick \/ Wake \/ StepSucceeds \/ StepRaises \/ Boot \/ Supervise
             \/ StartEvaluation \/ Backfill \/ UNCHANGED vars
    <3>1. UNCHANGED <<calls, decisions, lost, InCall>>
      BY <2>4 DEF Tick, Wake, StepSucceeds, StepRaises, Boot, Supervise, StartEvaluation,
                  Backfill, FollowerReads, FollowerEnds, ScriptReads, ScriptEnds,
                  AttributeGroup, vars, shadow, InCall
    <3> QED BY <2>3, <3>1
  <2>5. CASE Crash \/ BarsDie
    <3>1. UNCHANGED <<calls, decisions>> /\ lost' = lost + InCall /\ InCall' = 0
      BY <2>5 DEF Crash, BarsDie, InCall
    <3>2. Consulted' = Consulted /\ AllCalls' = AllCalls
      BY <3>1 DEF Consulted, AllCalls
    <3> QED BY <2>2, <3>1, <3>2 DEF Accounted
  <2>6. CASE FirstTierDecides
    <3>1. InCall = 0 /\ InCall' = 0 /\ UNCHANGED calls /\ LogShadow(FALSE)
      BY <2>6 DEF FirstTierDecides, InCall
    <3>2. UNCHANGED lost
      BY <2>2, <3>1 DEF LogShadow
    <3>3. CASE UNCHANGED decisions
      BY <2>3, <3>1, <3>2, <3>3
    <3>4. ASSUME NEW row \in Row, decisions' = Append(decisions, row), ~row.second
          PROVE  Accounted'
      <4>1. Cardinality(Consulted') = Cardinality(Consulted)
        BY <2>1, <2>2, <3>4, OneRowMore
      <4>2. AllCalls' = AllCalls
        BY <3>1 DEF AllCalls
      <4> QED BY <3>1, <3>2, <4>1, <4>2 DEF Accounted
    <3> QED BY <2>1, <3>1, <3>3, <3>4, Logs
  <2>7. CASE Escalate
    <3>1. InCall = 0 /\ InCall' = 1 /\ UNCHANGED <<decisions, lost>>
      BY <2>7 DEF Escalate, InCall
    <3>2. Consulted' = Consulted
      BY <3>1 DEF Consulted
    <3>3. AllCalls' = AllCalls + 1
      <4>1. PICK f, g : f = calls /\ g = calls'
        OBVIOUS
      <4>2. /\ f \in [Days -> Int] /\ g \in [Days -> Int] /\ day \in Days
            /\ \A d \in Days \ {day} : f[d] = g[d]
            /\ g[day] - f[day] = 1
        BY <2>1, <2>7, <4>1 DEF Escalate, ShadowInv, LoopInv
      <4>3. Days \in SUBSET Days
        OBVIOUS
      <4>4. SumFunctionOnSet(g, Days) - SumFunctionOnSet(f, Days) = g[day] - f[day]
        <5> HIDE DEF Days
        <5> QED BY <4>2, <4>3, DaysAreFinite, SumChange
      <4>5. AllCalls = SumFunctionOnSet(f, Days) /\ AllCalls' = SumFunctionOnSet(g, Days)
        BY <4>1 DEF AllCalls
      <4>6. AllCalls' \in Int
        <5> HIDE DEF Days
        <5>1. SumFunctionOnSet(g, Days) \in Int
          BY <4>2, <4>3, DaysAreFinite, SumStep
        <5> QED BY <4>5, <5>1
      <4> QED BY <2>2, <4>2, <4>4, <4>5, <4>6
    <3> QED BY <2>2, <3>1, <3>2, <3>3 DEF Accounted
  <2>8. CASE SecondTierDecides
    <3>1. InCall = 1 /\ InCall' = 0 /\ UNCHANGED calls /\ LogShadow(TRUE)
      BY <2>8 DEF SecondTierDecides, InCall
    <3>2. AllCalls' = AllCalls
      BY <3>1 DEF AllCalls
    <3>3. CASE UNCHANGED decisions /\ lost' = lost + 1
      <4>1. Consulted' = Consulted
        BY <3>3 DEF Consulted
      <4> QED BY <2>2, <3>1, <3>2, <3>3, <4>1 DEF Accounted
    <3>4. ASSUME NEW row \in Row, decisions' = Append(decisions, row), row.second,
                 UNCHANGED lost
          PROVE  Accounted'
      <4>1. Cardinality(Consulted') = Cardinality(Consulted) + 1
        BY <2>1, <3>4, OneRowMore
      <4> QED BY <2>2, <3>1, <3>2, <3>4, <4>1 DEF Accounted
    <3> QED BY <2>1, <3>1, <3>3, <3>4, Logs
  <2>9. QED
    BY <2>4, <2>5, <2>6, <2>7, <2>8 DEF Next
<1>3. RoutineInv /\ Accounted => CallsAccounted
  BY AccountedIsInvariant DEF RoutineInv
<1>4. QED
  BY <1>1, <1>2, <1>3, RoutineInvariant, PTL DEF Spec

-----------------------------------------------------------------------------
(* The backfills of outcomes.                                              *)

\* A decision is attributed by the nightly follower only when its session is over,
\* unless the iteration began the day before the decision (main.py:770, 847).
THEOREM OutcomesAreLate == Spec => []OutcomesSeeTheSession
<1>1. Init => OutcomesSeeTheSession
  BY DEF Init, OutcomesSeeTheSession
<1>2. RoutineInv /\ OutcomesSeeTheSession /\ [Next]_vars => OutcomesSeeTheSession'
  <2> SUFFICES ASSUME RoutineInv, OutcomesSeeTheSession, [Next]_vars
               PROVE  OutcomesSeeTheSession'
    OBVIOUS
  <2>1. DOMAIN outcomes \subseteq DOMAIN decisions
    BY DEF RoutineInv, FollowInv
  <2>2. CASE FirstTierDecides \/ SecondTierDecides
    <3>1. UNCHANGED outcomes
      BY <2>2 DEF FirstTierDecides, SecondTierDecides, follow
    <3>2. PICK second \in BOOLEAN : LogShadow(second)
      BY <2>2 DEF FirstTierDecides, SecondTierDecides
    <3>3. \A i \in DOMAIN decisions : decisions'[i] = decisions[i]
      <4>1. CASE UNCHANGED decisions
        BY <4>1
      <4>2. ASSUME NEW row \in Row, decisions' = Append(decisions, row)
            PROVE  \A i \in DOMAIN decisions : decisions'[i] = decisions[i]
        BY <4>2, LongerTable DEF RoutineInv
      <4> QED BY <3>2, <4>1, <4>2, Logs DEF RoutineInv
    <3> QED BY <2>1, <3>1, <3>3 DEF OutcomesSeeTheSession
  <2>3. ASSUME NEW b \in Backfills, AttributeGroup(b) PROVE OutcomesSeeTheSession'
    <3>1. UNCHANGED decisions
      BY <2>3 DEF AttributeGroup, shadow
    <3>2. PICK kept \in SUBSET {i \in DOMAIN decisions : decisions[i].priced
                                                       /\ i \notin DOMAIN outcomes},
               now \in Outcome :
            /\ outcomes' = [i \in DOMAIN outcomes \cup kept |->
                              IF i \in DOMAIN outcomes THEN outcomes[i] ELSE now]
            /\ now.by = b /\ now.day = day /\ now.time = time
            /\ b = "follower" => at = 10 /\ now.began = today
      BY <2>3, Attributes DEF RoutineInv
    <3>3. ASSUME NEW i \in kept
          PROVE  \/ now.day > decisions[i].day
                 \/ now.time = Evening
                 \/ now.by = "script"
                 \/ now.began < decisions[i].day
      <4>1. decisions[i].day \in Days
        <5>1. decisions \in Seq(Row) /\ i \in DOMAIN decisions
          BY DEF RoutineInv, ShadowInv
        <5>2. decisions[i] \in Row
          BY <5>1
        <5> QED BY <5>2 DEF Row
      <4>2. CASE b = "follower"
        <5>1. /\ at = 10 /\ today <= day /\ nowT = Evening
              /\ today = day => time = Evening
              /\ day \in Days /\ today \in 0..LastDay
          BY <3>2, <4>2, Constants DEF RoutineInv, LoopInv
        <5> QED BY <3>2, <4>1, <4>2, <5>1, Constants
      <4> QED BY <3>2, <4>2
    <3> QED BY <3>1, <3>2, <3>3 DEF OutcomesSeeTheSession
  <2>4. CASE Tick \/ Wake \/ StepSucceeds \/ StepRaises \/ Crash \/ Boot \/ BarsDie
             \/ Supervise \/ StartEvaluation \/ Escalate \/ UNCHANGED vars
             \/ FollowerReads \/ FollowerEnds \/ ScriptReads \/ ScriptEnds
    <3>1. UNCHANGED <<decisions, outcomes>>
      BY <2>4 DEF Tick, Wake, StepSucceeds, StepRaises, Crash, Boot, BarsDie, Supervise,
                  StartEvaluation, Escalate, vars, FollowerReads, FollowerEnds,
                  ScriptReads, ScriptEnds, shadow, follow
    <3> QED BY <3>1 DEF OutcomesSeeTheSession
  <2>5. QED
    BY <2>2, <2>3, <2>4 DEF Next, Backfill
<1>3. QED
  BY <1>1, <1>2, RoutineInvariant, PTL DEF Spec

-----------------------------------------------------------------------------
(* The flatten of the day.                                                 *)

\* An iteration that read today's window goes to the flatten, unless it has been
\* done today.
LEMMA WindowLeadsToFlatten ==
  ASSUME NEW i \in 0..7, NEW d \in Weekdays, NEW flags, flags["flatten"] # d
  PROVE  NextStep(i, d, Window, flags) # 0 /\ NextStep(i, d, Window, flags) <= 8
<1>1. Due(d, Window, flags, Steps[8])
  <2>1. Steps[8] = "flatten"
    BY StepsByNumber
  <2> QED BY <2>1, DueStep DEF FlattenIsDue
<1>2. 8 \in i + 1..10 /\ i \in 0..10
  OBVIOUS
<1>3. QED
  BY <1>1, <1>2, NextStepIsDue

\* An iteration that goes on, or to sleep, from step i keeps FlattenInv, if the flatten
\* is not passed over: the flag it meets is as FlattenInv says, and step i is not after
\* an unexcused flatten.
LEMMA IterationGoesOn ==
  ASSUME NEW i \in 0..10, NEW d \in Days, NEW t \in 0..4, LoopInv, LoopInv', FlattenInv,
         d <= day, d = day => t <= time,
         GoTo(NextStep(i, d, t, done'), d, t),
         UNCHANGED <<day, time, up, excused>>,
         day \in Weekdays =>
           /\ done'["flatten"] = day => Excused(day)
           /\ time >= Window /\ (d < day \/ t < Window) => Excused(day)
           /\ i >= 8 /\ d = day /\ t = Window => Excused(day)
  PROVE  FlattenInv'
<1>1. flattened \subseteq flattened' /\ (\A x : Excused(x) => Excused(x)')
  BY GoToNext DEF Excused, GoTo
<1>2. /\ at' = NextStep(i, d, t, done')
      /\ at' # 0 => today' = d /\ nowT' = t
  BY DEF GoTo
<1>3. at' \in 0..10 /\ day \in Days /\ time \in 0..4
  BY DEF LoopInv
<1>4. ASSUME day \in Weekdays PROVE
        /\ at' # 0 /\ time >= Window /\ (today' < day \/ nowT' < Window) => Excused(day)'
        /\ at' >= 8 /\ today' = day /\ nowT' = Window => Excused(day)'
        /\ at' = 0 /\ time = Window => Excused(day)'
        /\ done'["flatten"] = day => Excused(day)'
        /\ time = Evening => Excused(day)'
  <2>1. CASE Excused(day)
    BY <1>1, <2>1
  <2>2. CASE ~Excused(day)
    <3>1. /\ done'["flatten"] # day /\ time # Evening
          /\ ~(time >= Window /\ (d < day \/ t < Window))
          /\ i >= 8 => ~(d = day /\ t = Window)
      BY <1>4, <2>2 DEF FlattenInv
    <3>2. CASE d = day /\ t = Window
      <4>1. i \in 0..7
        BY <3>1, <3>2
      <4>2. at' # 0 /\ at' <= 8
        BY <1>2, <1>4, <3>1, <3>2, <4>1, WindowLeadsToFlatten
      <4>3. time = Window
        BY <1>3, <3>1, <3>2
      <4>4. at' = 8 => day \in flattened'
        BY <1>2, <3>2, <4>3, StepsByNumber DEF GoTo
      <4> QED BY <1>2, <1>3, <3>1, <3>2, <4>2, <4>3, <4>4 DEF Excused
    <3>3. CASE ~(d = day /\ t = Window)
      <4>1. time < Window
        BY <1>3, <3>1, <3>3
      <4> QED BY <1>2, <1>3, <3>1, <3>3, <4>1
    <3> QED BY <3>2, <3>3
  <2> QED BY <2>1, <2>2
<1>5. \A x \in Weekdays : x < day => Excused(x)'
  BY <1>1 DEF FlattenInv
<1>6. QED
  BY <1>4, <1>5 DEF FlattenInv, Excused

\* The clock moves: who enters or leaves the window outside the flatten is excused.
LEMMA FlattenTick ==
  ASSUME RoutineInv, FlattenInv, Tick
  PROVE  FlattenInv'
<1>1. /\ UNCHANGED <<up, at, today, nowT, done, flattened>> /\ woke' = FALSE
      /\ up /\ at = 0 => woke
      /\ excused \subseteq excused'
      /\ Window \in {time, time'} /\ ~up => day \in excused'
      /\ Window \in {time, time'} /\ at # 0 /\ ~(InStep("flatten") /\ today = day)
            => day \in excused'
  BY DEF Tick
<1>2. /\ day \in Days /\ time \in 0..4 /\ at \in 0..10
      /\ done["flatten"] <= day /\ done["flatten"] \in 0..LastDay
      /\ at # 0 => /\ today <= day /\ today \in 0..LastDay /\ nowT \in 0..4
                   /\ today = day => nowT <= time
                   /\ at = 8 => nowT = Window
      /\ InStep("flatten") <=> at = 8
  BY AtSteps, StepsByNumber DEF RoutineInv, LoopInv
<1>3. \A d \in Days : Excused(d) => Excused(d)'
  BY <1>1 DEF Excused
<1>4. CASE time < Evening /\ time' = time + 1 /\ day' = day
  <2>1. ASSUME day \in Weekdays PROVE
          /\ at # 0 /\ time' >= Window /\ (today < day \/ nowT < Window) => Excused(day)'
          /\ at >= 8 /\ today = day /\ nowT = Window => Excused(day)'
          /\ done["flatten"] = day => Excused(day)'
          /\ time' = Evening => Excused(day)'
    <3>1. CASE Excused(day)
      BY <1>2, <1>3, <1>4, <3>1
    <3>2. CASE ~Excused(day)
      <4>1. /\ ~(at # 0 /\ time >= Window /\ (today < day \/ nowT < Window))
            /\ ~(at >= 8 /\ today = day /\ nowT = Window)
            /\ ~(up /\ at = 0 /\ woke /\ time = Window)
            /\ done["flatten"] # day
        BY <2>1, <3>2 DEF FlattenInv
      <4>2. ASSUME at # 0, Window \in {time, time'} PROVE day \in excused'
        <5>1. ~(InStep("flatten") /\ today = day)
          BY <1>2, <4>1, <4>2
        <5> QED BY <1>1, <4>2, <5>1
      <4>3. time' = Evening => day \in excused'
        <5>1. time' = Evening => time = Window
          BY <1>2, <1>4
        <5>2. CASE at = 0
          BY <1>1, <4>1, <5>1, <5>2
        <5>3. CASE at # 0
          BY <4>2, <5>1, <5>3
        <5> QED BY <5>2, <5>3
      <4>4. at # 0 /\ time' >= Window => day \in excused'
        <5>1. time' >= Window => Window \in {time, time'}
          BY <1>2, <1>4
        <5> QED BY <4>2, <5>1
      <4> QED BY <1>1, <1>2, <1>4, <4>1, <4>3, <4>4 DEF Excused
    <3> QED BY <3>1, <3>2
  <2>2. \A d \in Weekdays : d < day => Excused(d)'
    BY <1>3, Constants DEF FlattenInv
  <2> QED BY <1>1, <1>4, <2>1, <2>2 DEF FlattenInv, Excused
<1>5. CASE time = Evening /\ day < LastDay /\ time' = Night /\ day' = day + 1
  <2>1. \A d \in Weekdays : d < day' => Excused(d)'
    BY <1>2, <1>3, <1>5, Constants DEF FlattenInv
  <2>2. /\ ~(time' >= Window) /\ time' # Window /\ time' # Evening
        /\ done'["flatten"] # day'
        /\ ~(at' >= 8 /\ today' = day')
    BY <1>1, <1>2, <1>5
  <2> QED BY <2>1, <2>2 DEF FlattenInv, Excused
<1>6. QED
  BY <1>4, <1>5 DEF Tick

LEMMA FlattenStep ==
  ASSUME RoutineInv, FlattenInv, [Next]_vars, LoopInv'
  PROVE  FlattenInv'
<1>1. CASE Tick
  BY <1>1, FlattenTick
<1>2. CASE Wake
  <2>1. /\ 0 \in 0..10 /\ day \in Days /\ time \in 0..4 /\ done' = done
        /\ UNCHANGED <<day, time, up, excused>>
        /\ GoTo(NextStep(0, day, time, done'), day, time)
    BY <1>2 DEF Wake, clock, RoutineInv, LoopInv
  <2>2. day \in Weekdays => (done'["flatten"] = day => Excused(day))
    BY <2>1 DEF FlattenInv
  <2>3. day <= day /\ time <= time /\ ~(day < day)
        /\ ~(time >= Window /\ (day < day \/ time < Window))
    BY <2>1
  <2> QED BY <2>1, <2>2, <2>3, IterationGoesOn DEF RoutineInv
<1>3. CASE StepSucceeds \/ StepRaises
  <2>1. /\ at \in 1..9 /\ today \in Days /\ nowT \in 0..4 /\ today <= day
        /\ today = day => nowT <= time
        /\ at = 8 => nowT = Window
    <3>1. at \in 0..10 /\ at # 0 /\ at # 10
      <4>1. CASE StepSucceeds
        BY <4>1, AtSteps DEF StepSucceeds, RoutineInv, LoopInv
      <4>2. CASE StepRaises
        BY <4>2, StepsByNumber DEF StepRaises, RoutineInv, LoopInv
      <4> QED BY <1>3, <4>1, <4>2
    <3> QED BY <3>1, Constants DEF RoutineInv, LoopInv
  <2>2. /\ UNCHANGED <<day, time, up, excused>>
        /\ GoTo(NextStep(at, today, nowT, done'), today, nowT)
    BY <1>3 DEF StepSucceeds, StepRaises, clock
  <2>3. done'["flatten"] = done["flatten"] \/ (at = 8 /\ done'["flatten"] = today)
    <3>1. CASE StepSucceeds
      BY <2>1, <3>1, FlagsType DEF StepSucceeds, RoutineInv
    <3>2. CASE StepRaises
      BY <3>2 DEF StepRaises
    <3> QED BY <1>3, <3>1, <3>2
  <2>4. day \in Weekdays =>
          /\ done'["flatten"] = day => Excused(day)
          /\ time >= Window /\ (today < day \/ nowT < Window) => Excused(day)
          /\ at >= 8 /\ today = day /\ nowT = Window => Excused(day)
    BY <2>1, <2>3 DEF FlattenInv
  <2> QED BY <2>1, <2>2, <2>4, IterationGoesOn DEF RoutineInv
<1>4. CASE FollowerEnds
  <2>1. /\ at = 10 /\ nowT = Evening /\ at' = 0 /\ flattened' = flattened
        /\ today <= day /\ (today = day => nowT <= time)
        /\ day \in Days /\ today \in 0..LastDay /\ time \in 0..4
    BY <1>4, AtSteps, GoToSleep, SMTT(30) DEF FollowerEnds, RoutineInv, LoopInv
  <2>2. /\ UNCHANGED <<day, time, up, woke, excused>>
        /\ done' = [done EXCEPT !["follower"] = today]
    BY <1>4 DEF FollowerEnds, Flags, clock
  <2>3. done'["flatten"] = done["flatten"]
    BY <2>2, StepsByNumber DEF RoutineInv, LoopInv
  <2>4. day \in Weekdays /\ time >= Window => Excused(day)
    BY <2>1, Constants DEF FlattenInv
  <2> QED BY <2>1, <2>2, <2>3, <2>4 DEF FlattenInv, Excused
<1>5. CASE Crash
  <2>1. /\ up' = FALSE /\ at' = 0 /\ UNCHANGED <<day, time, done, flattened>>
        /\ excused \subseteq excused'
    BY <1>5 DEF Crash, clock
  <2>2. \A d : Excused(d) => Excused(d)'
    BY <2>1 DEF Excused
  <2> QED BY <2>1, <2>2 DEF FlattenInv, Excused
<1>6. CASE Boot
  <2>1. /\ at' = at /\ woke' = FALSE /\ done'["flatten"] = 0 /\ at = 0
        /\ UNCHANGED <<day, time, flattened, excused>>
    BY <1>6, StepsByNumber DEF Boot, clock, RoutineInv, LoopInv
  <2>2. day \in Days
    BY DEF RoutineInv, LoopInv
  <2> QED BY <2>1, <2>2 DEF FlattenInv, Excused
<1>7. CASE BarsDie \/ Supervise \/ StartEvaluation \/ FirstTierDecides \/ Escalate
             \/ SecondTierDecides \/ FollowerReads \/ ScriptReads \/ ScriptEnds
             \/ (\E b \in Backfills : AttributeGroup(b)) \/ UNCHANGED vars
  <2>1. UNCHANGED <<day, time, up, at, today, nowT, done, woke, flattened, excused>>
    BY <1>7 DEF BarsDie, Supervise, StartEvaluation, FirstTierDecides, Escalate,
                SecondTierDecides, FollowerReads, ScriptReads, ScriptEnds,
                AttributeGroup, vars, clock, loop, history
  <2> QED BY <2>1 DEF FlattenInv, Excused
<1>8. QED
  BY <1>1, <1>2, <1>3, <1>4, <1>5, <1>6, <1>7 DEF Next, Backfill

\* The flatten of every weekday begins between 15:55 and 16:30, unless the process was
\* down then or an earlier step of the iteration held the loop up as the window opened
\* or closed (main.py:743): for every calendar and every way the steps fail.
THEOREM FlattenIsOnTime == Spec => []FlattenOnTime
<1>1. Init => FlattenInv
  <2> SUFFICES ASSUME Init PROVE FlattenInv
    OBVIOUS
  <2>1. /\ day = 1 /\ time = Night /\ at = 0 /\ done["flatten"] = 0
        /\ \A d \in Weekdays : d \in Nat /\ d >= 1
    BY StepsByNumber, Constants DEF Init
  <2> QED BY <2>1 DEF FlattenInv
<1>2. RoutineInv /\ RoutineInv' /\ FlattenInv /\ [Next]_vars => FlattenInv'
  BY FlattenStep DEF RoutineInv
<1>3. RoutineInv /\ FlattenInv => FlattenOnTime
  BY DEF RoutineInv, FlattenInv, FlattenOnTime, Excused
<1>4. QED
  BY <1>1, <1>2, <1>3, RoutineInvariant, PTL DEF Spec

-----------------------------------------------------------------------------
(* The life of a decision.                                                 *)

\* How far decision i has come, and the stages of all of them: what Lifecycle
\* sees of the two tables.
StageOf(i) ==
  IF i \notin DOMAIN decisions THEN [is |-> "unlogged"]
  ELSE IF i \in DOMAIN outcomes THEN [is |-> "attributed", outcome |-> outcomes[i]]
  ELSE IF decisions[i].priced THEN [is |-> "priced"] ELSE [is |-> "logged"]

Stage == [i \in Ids |-> StageOf(i)]

LEMMA StageSame ==
  ASSUME UNCHANGED <<decisions, outcomes>>
  PROVE  UNCHANGED Stage
BY DEF Stage, StageOf

\* A row that is appended is the logging of one decision.
LEMMA AppendIsLog ==
  ASSUME RoutineInv, RoutineInv', UNCHANGED outcomes,
         NEW row \in Row, decisions' = Append(decisions, row)
  PROVE  Lifecycle!Next
<1>1. Len(decisions) \in Nat
  BY DEF RoutineInv, ShadowInv
<1>2. PICK n \in Nat : n = Len(decisions) + 1
  BY <1>1
<1>3. /\ DOMAIN decisions = 1..(n - 1) /\ DOMAIN decisions' = 1..n
      /\ \A i \in DOMAIN decisions : decisions'[i] = decisions[i]
      /\ decisions'[n] = row
      /\ Len(decisions') = n
      /\ DOMAIN outcomes \subseteq DOMAIN decisions
  BY <1>1, <1>2, LongerTable DEF RoutineInv, FollowInv
<1>4. n \in Ids
  <2>1. Len(decisions') <= evaluations' /\ evaluations' \in 0..MaxEvaluations
    BY <1>2, <1>3, Constants DEF RoutineInv, ShadowInv
  <2> QED BY <1>1, <1>2, <1>3, <2>1, Constants
<1>5. \A i \in Ids : i # n => StageOf(i)' = StageOf(i)
  <2> SUFFICES ASSUME NEW i \in Ids, i # n PROVE StageOf(i)' = StageOf(i)
    OBVIOUS
  <2>1. i \in DOMAIN decisions <=> i \in DOMAIN decisions'
    BY <1>3, Constants
  <2>2. i \in DOMAIN decisions => decisions'[i] = decisions[i]
    BY <1>3
  <2> QED BY <2>1, <2>2 DEF StageOf
<1>6. StageOf(n) = [is |-> "unlogged"]
  <2>1. n \notin DOMAIN decisions
    BY <1>2, <1>3
  <2> QED BY <2>1 DEF StageOf
<1>7. PICK s \in {Lifecycle!Logged, Lifecycle!Priced} : StageOf(n)' = s
  <2>1. n \in DOMAIN decisions' /\ n \notin DOMAIN outcomes'
    BY <1>2, <1>3
  <2> QED BY <2>1 DEF StageOf, Lifecycle!Logged, Lifecycle!Priced
<1>8. Stage' = [Stage EXCEPT ![n] = s] /\ Stage[n] = [is |-> "unlogged"]
  BY <1>4, <1>5, <1>6, <1>7 DEF Stage
<1>9. Lifecycle!Log(n)
  BY <1>8 DEF Lifecycle!Log, Lifecycle!Unlogged, Stage, StageOf
<1>10. QED
  BY <1>4, <1>9 DEF Lifecycle!Next

\* A group of outcomes that is written is the attribution of those decisions.
LEMMA GroupIsAttribute ==
  ASSUME RoutineInv, RoutineInv', UNCHANGED decisions, NEW now \in Outcome,
         NEW kept \in SUBSET {i \in DOMAIN decisions : decisions[i].priced
                                                     /\ i \notin DOMAIN outcomes},
         outcomes' = [i \in DOMAIN outcomes \cup kept |->
                        IF i \in DOMAIN outcomes THEN outcomes[i] ELSE now]
  PROVE  Lifecycle!Next
<1> DEFINE result == [i \in kept |-> now]
<1>1. kept \in SUBSET Ids
  <2>1. DOMAIN decisions = 1..Len(decisions) /\ Len(decisions) \in 0..MaxEvaluations
    BY Constants DEF RoutineInv, ShadowInv
  <2> QED BY <2>1, Constants
<1>2. \A i \in kept : StageOf(i) = [is |-> "priced"]
  BY DEF StageOf
<1>3. \A i \in kept : StageOf(i)' = [is |-> "attributed", outcome |-> result[i]]
  BY DEF StageOf
<1>4. \A i \in Ids \ kept : StageOf(i)' = StageOf(i)
  BY DEF StageOf
<1>5. result \in [kept -> Outcome]
  OBVIOUS
<1>6. /\ \A i \in kept : Stage[i] = Lifecycle!Priced
      /\ Stage' = [i \in Ids |-> IF i \in kept THEN Lifecycle!Attributed(result[i])
                                 ELSE Stage[i]]
  <2> HIDE DEF result
  <2> QED BY <1>1, <1>2, <1>3, <1>4 DEF Stage, Lifecycle!Priced, Lifecycle!Attributed
<1>7. Lifecycle!Attribute(kept)
  <2> HIDE DEF result
  <2> QED BY <1>5, <1>6 DEF Lifecycle!Attribute, Stage, StageOf
<1>8. QED
  BY <1>1, <1>7 DEF Lifecycle!Next

\* Evaluations, follower and script together implement the life of a decision: no
\* outcome without a priced row, none replaced, no row undone (main.py:1613,
\* backfill_shadow_outcomes.py:92), for every number of evaluations and failures.
THEOREM DailyRoutineRefinesLifecycle == Spec => LifecycleKept
<1>1. Init => Lifecycle!Init
  BY DEF Init, Lifecycle!Init, Lifecycle!Unlogged
<1>2. RoutineInv /\ RoutineInv' /\ [Next]_vars => [Lifecycle!Next]_Stage
  <2> SUFFICES ASSUME RoutineInv, RoutineInv', [Next]_vars
               PROVE  Lifecycle!Next \/ UNCHANGED Stage
    OBVIOUS
  <2>1. CASE FirstTierDecides \/ SecondTierDecides
    <3>1. UNCHANGED outcomes
      BY <2>1 DEF FirstTierDecides, SecondTierDecides, follow
    <3>2. PICK second \in BOOLEAN : LogShadow(second)
      BY <2>1 DEF FirstTierDecides, SecondTierDecides
    <3>3. CASE UNCHANGED decisions
      BY <3>1, <3>3, StageSame
    <3>4. ASSUME NEW row \in Row, decisions' = Append(decisions, row)
          PROVE  Lifecycle!Next
      BY <3>1, <3>4, AppendIsLog
    <3> QED BY <3>2, <3>3, <3>4, Logs DEF RoutineInv
  <2>2. ASSUME NEW b \in Backfills, AttributeGroup(b) PROVE Lifecycle!Next
    <3>1. UNCHANGED decisions
      BY <2>2 DEF AttributeGroup, shadow
    <3> QED BY <2>2, <3>1, Attributes, GroupIsAttribute DEF RoutineInv
  <2>3. CASE Tick \/ Wake \/ StepSucceeds \/ StepRaises \/ Crash \/ Boot \/ BarsDie
             \/ Supervise \/ StartEvaluation \/ Escalate \/ UNCHANGED vars
             \/ FollowerReads \/ FollowerEnds \/ ScriptReads \/ ScriptEnds
    <3>1. UNCHANGED <<decisions, outcomes>>
      BY <2>3 DEF Tick, Wake, StepSucceeds, StepRaises, Crash, Boot, BarsDie, Supervise,
                  StartEvaluation, Escalate, vars, FollowerReads, FollowerEnds,
                  ScriptReads, ScriptEnds, shadow, follow
    <3> QED BY <3>1, StageSame
  <2>4. QED
    BY <2>1, <2>2, <2>3 DEF Next, Backfill
<1>3. QED
  BY <1>1, <1>2, RoutineInvariant, PTL
     DEF Spec, LifecycleKept, Lifecycle!Spec, Stage, StageOf

-----------------------------------------------------------------------------
(* Evaluation: arithmetic.                                                 *)

\* Max of two numbers.
LEMMA GreaterOfTwo ==
  ASSUME NEW a \in Int, NEW b \in Int
  PROVE  /\ Max({a, b}) \in Int /\ Max({a, b}) >= a /\ Max({a, b}) >= b
         /\ Max({a, b}) = a \/ Max({a, b}) = b
<1>1. \E x \in {a, b} : \A y \in {a, b} : x >= y
  <2>1. a >= b \/ b >= a
    OBVIOUS
  <2> QED
    BY <2>1
<1>2. /\ Max({a, b}) \in {a, b} /\ \A y \in {a, b} : Max({a, b}) >= y
  BY <1>1 DEF Max
<1> QED
  BY <1>2

LEMMA LessOfTwo ==
  ASSUME NEW a \in Int, NEW b \in Int
  PROVE  Min({a, b}) \in Int
<1>1. \E x \in {a, b} : \A y \in {a, b} : x <= y
  <2>1. a <= b \/ b <= a
    OBVIOUS
  <2> QED
    BY <2>1
<1>2. Min({a, b}) \in {a, b}
  BY <1>1 DEF Min
<1> QED
  BY <1>2

-----------------------------------------------------------------------------
(* The sizes and how they step down.                                       *)

LEMMA Ranks ==
  Rank("zero") = 1 /\ Rank("tiny") = 2 /\ Rank("normal") = 3 /\ Rank("max") = 4
<1>1. DOMAIN Tiers = {1, 2, 3, 4}
  BY DEF Tiers
<1>2. Tiers[1] = "zero" /\ Tiers[2] = "tiny" /\ Tiers[3] = "normal" /\ Tiers[4] = "max"
  BY DEF Tiers
<1>3. ASSUME NEW i \in {1, 2, 3, 4} PROVE Rank(Tiers[i]) = i
  <2>1. Rank(Tiers[i]) \in {1, 2, 3, 4} /\ Tiers[Rank(Tiers[i])] = Tiers[i]
    BY <1>1 DEF Rank
  <2> QED
    BY <2>1, <1>2
<1> QED
  BY <1>2, <1>3

LEMMA Downgrades ==
  /\ _TIER_DOWNGRADE("zero") = "zero" /\ _TIER_DOWNGRADE("tiny") = "zero"
  /\ _TIER_DOWNGRADE("normal") = "tiny" /\ _TIER_DOWNGRADE("max") = "normal"
<1>1. Max({1, 0}) = 1 /\ Max({1, 1}) = 1 /\ Max({1, 2}) = 2 /\ Max({1, 3}) = 3
  <2>1. ASSUME NEW n \in {0, 1, 2, 3} PROVE Max({1, n}) = IF n = 0 THEN 1 ELSE n
    BY GreaterOfTwo
  <2> QED
    BY <2>1
<1>2. /\ Max({1, 1 - 1}) = 1 /\ Max({1, 2 - 1}) = 1
      /\ Max({1, 3 - 1}) = 2 /\ Max({1, 4 - 1}) = 3
  BY <1>1
<1>3. Tiers[1] = "zero" /\ Tiers[2] = "tiny" /\ Tiers[3] = "normal"
  BY DEF Tiers
<1> QED
  BY <1>2, <1>3, Ranks DEF _TIER_DOWNGRADE

LEMMA BucketTiers ==
  ASSUME NEW bucket PROVE _tier_from_bucket(bucket) \in {"zero", "tiny", "normal", "max"}
BY DEF _tier_from_bucket

LEMMA SizeOf ==
  ASSUME NEW in
  PROVE  decide(in).qty_tier =
           IF decide(in).reason # "none" \/ decide(in).action = "Hold" THEN "zero"
           ELSE IF in.ctx.position_qty # 0 THEN "normal"
           ELSE _apply_red_flag_downgrade(_tier_from_bucket(in.bucket), in.features)
BY Zenon DEF decide, _make_hold, Final, _translate_position_action

SameBut(in, out) ==
  /\ out.ctx = in.ctx /\ out.analysis = in.analysis
  /\ out.advisory = in.advisory /\ out.health = in.health

\* A gate that names a reason before the bucket and the features are looked at.
GatedBefore(in) == \/ in.health # "healthy" \/ in.analysis.trade_readiness = "AVOID"
                   \/ in.analysis.clamp_anomaly \/ in.advisory.action = "Hold"
                   \/ in.ctx.position_qty # 0

LEMMA GatedSize ==
  ASSUME NEW in, NEW out, SameBut(in, out), GatedBefore(in)
  PROVE  decide(out).qty_tier = decide(in).qty_tier
BY Zenon DEF SameBut, GatedBefore, decide, _make_hold, Final, _translate_position_action

LEMMA OpenSize ==
  ASSUME NEW in, ~GatedBefore(in)
  PROVE  decide(in).qty_tier =
           LET tier == _apply_red_flag_downgrade(_tier_from_bucket(in.bucket), in.features)
           IN  IF \/ _tier_from_bucket(in.bucket) = "zero" \/ tier = "zero"
                  \/ Untradeable(in.features)
               THEN "zero" ELSE tier
BY Zenon DEF GatedBefore, decide, _make_hold, Final

LEMMA SameGate ==
  ASSUME NEW in, NEW out, SameBut(in, out) PROVE GatedBefore(out) <=> GatedBefore(in)
BY DEF SameBut, GatedBefore

Features == [spread_bps : Int, rvol_percentile : Int, has_red_flag : BOOLEAN]

LEMMA WorseFlags ==
  ASSUME NEW f \in Features, NEW g \in Features, Worse(f, g)
  PROVE  (RedFlag(g) => RedFlag(f)) /\ (Untradeable(g) => Untradeable(f))
BY PolicyAssumption DEF Worse, RedFlag, Untradeable, Features

LEMMA SmallerSize ==
  ASSUME NEW f, NEW g, RedFlag(g) => RedFlag(f), Untradeable(g) => Untradeable(f),
         NEW t \in {"zero", "tiny", "normal", "max"}, NEW u \in {"zero", "tiny", "normal", "max"},
         Rank(t) <= Rank(u)
  PROVE  LET size(tier, features) ==
               LET flagged == _apply_red_flag_downgrade(tier, features)
               IN  IF tier = "zero" \/ flagged = "zero" \/ Untradeable(features)
                   THEN "zero" ELSE flagged
         IN  Rank(size(t, f)) <= Rank(size(u, g))
BY Ranks, Downgrades DEF _apply_red_flag_downgrade

LEMMA LowerExpectancy ==
  ASSUME NEW b \in BucketStats, NEW c \in BucketStats, b.sample_count = c.sample_count,
         b.expected_r_lower_ci <= c.expected_r_lower_ci
  PROVE  Rank(_tier_from_bucket(b)) <= Rank(_tier_from_bucket(c))
BY Ranks, PolicyAssumption DEF _tier_from_bucket, BucketStats

\* With worse liquidity or a lower expectancy the size never grows.
LEMMA SizeShrinks ==
  ASSUME NEW in, NEW out, SameBut(in, out),
         in.features \in Features, out.features \in Features,
         Worse(out.features, in.features),
         in.bucket \in BucketStats, out.bucket \in BucketStats,
         out.bucket.sample_count = in.bucket.sample_count,
         out.bucket.expected_r_lower_ci <= in.bucket.expected_r_lower_ci
  PROVE  Rank(decide(out).qty_tier) <= Rank(decide(in).qty_tier)
<1> DEFINE t == _tier_from_bucket(out.bucket)
           u == _tier_from_bucket(in.bucket)
<1>1. t \in {"zero", "tiny", "normal", "max"} /\ u \in {"zero", "tiny", "normal", "max"}
  BY BucketTiers
<1>2. Rank(t) <= Rank(u)
  BY LowerExpectancy
<1>3. /\ RedFlag(in.features) => RedFlag(out.features)
      /\ Untradeable(in.features) => Untradeable(out.features)
  BY WorseFlags
<1>4. CASE GatedBefore(in)
  <2>1. decide(in).qty_tier \in {"zero", "normal"}
    BY <1>4, Zenon DEF GatedBefore, decide, _make_hold, Final, _translate_position_action
  <2>2. decide(out).qty_tier = decide(in).qty_tier
    BY <1>4, GatedSize
  <2> QED
    BY <2>1, <2>2, Ranks
<1>5. CASE ~GatedBefore(in)
  <2>1. ~GatedBefore(out)
    BY <1>5, SameGate
  <2> HIDE DEF t, u
  <2> DEFINE size(tier, features) ==
               LET flagged == _apply_red_flag_downgrade(tier, features)
               IN  IF tier = "zero" \/ flagged = "zero" \/ Untradeable(features)
                   THEN "zero" ELSE flagged
  <2>2. Rank(size(t, out.features)) <= Rank(size(u, in.features))
    BY <1>1, <1>2, <1>3, SmallerSize
  <2>3. decide(out).qty_tier = size(t, out.features)
    BY <2>1, OpenSize DEF t
  <2>4. decide(in).qty_tier = size(u, in.features)
    BY <1>5, OpenSize DEF u
  <2> QED
    BY <2>2, <2>3, <2>4
<1> QED
  BY <1>4, <1>5

Provenances == {"none", "t1_failed", "t1_only", "t1_only_budget_exhausted", "t1_fallback_t2",
                "t1_t2_agree", "t1_t2_disagree"}
Advice == [action : {"Buy", "Sell", "Hold"}, confidence : Int, stop : Int, tp : Int,
           provenance : Provenances]

LEMMA StopAndTarget ==
  ASSUME NEW advisory, advisory.stop \in Int, advisory.tp \in Int, NEW label
  PROVE  LET clamped == _clamp_stop_target(advisory, label)
         IN  /\ clamped[1] \in Int /\ clamped[2] \in Int
             /\ clamped[1] >= advisory.stop
             /\ clamped[2] >= PolicyConfig.min_reward_to_risk * clamped[1]
<1> DEFINE stop == IF label = "choppy"
                   THEN Max({advisory.stop, PolicyConfig.stop_atr_clamp_choppy})
                   ELSE advisory.stop
           ratio == PolicyConfig.min_reward_to_risk
<1>1. PolicyConfig.stop_atr_clamp_choppy \in Int /\ ratio \in Int
  BY PolicyAssumption
<1>2. stop \in Int /\ stop >= advisory.stop
  BY <1>1, GreaterOfTwo
<1>3. _clamp_stop_target(advisory, label) = <<stop, Max({advisory.tp, stop * ratio})>>
  BY DEF _clamp_stop_target
<1> HIDE DEF stop, ratio
<1>4. stop * ratio \in Int /\ stop * ratio = ratio * stop
  BY <1>1, <1>2
<1>5. Max({advisory.tp, stop * ratio}) \in Int /\ Max({advisory.tp, stop * ratio}) >= stop * ratio
  BY <1>4, GreaterOfTwo
<1> QED
  BY <1>2, <1>3, <1>4, <1>5 DEF ratio

-----------------------------------------------------------------------------
(* What the tiers advise.                                                  *)

RawAnswer == [action : STRING, confidence : Int, stop : Int, tp : Int]

LEMMA ValidatedType ==
  ASSUME NEW raw \in RawAnswer PROVE Validated(raw) \in Advice \cup Errors
<1>1. /\ Clamp(0, 100, raw.confidence) \in Int /\ Clamp(100, 300, raw.stop) \in Int
      /\ Clamp(10000, 50000, raw.tp) \in Int
  <2>1. PICK c \in Int, st \in Int, tp \in Int :
               c = raw.confidence /\ st = raw.stop /\ tp = raw.tp
    BY DEF RawAnswer
  <2>2. ASSUME NEW low \in Int, NEW high \in Int, NEW n \in Int PROVE Clamp(low, high, n) \in Int
    <3>1. Min({high, n}) \in Int
      BY LessOfTwo
    <3> QED
      BY <3>1, GreaterOfTwo DEF Clamp
  <2>3. Clamp(0, 100, c) \in Int
    BY <2>2
  <2>4. Clamp(100, 300, st) \in Int
    BY <2>2
  <2>5. Clamp(10000, 50000, tp) \in Int
    BY <2>2
  <2> QED
    BY <2>1, <2>3, <2>4, <2>5
<1>2. CASE raw.action \notin {"Buy", "Sell", "Hold"}
  BY <1>2 DEF Validated, Errors
<1>3. CASE raw.action \in {"Buy", "Sell", "Hold"}
  <2>1. "none" \in Provenances
    BY DEF Provenances
  <2>2. Validated(raw) = [action |-> raw.action, confidence |-> Clamp(0, 100, raw.confidence),
                          stop |-> Clamp(100, 300, raw.stop), tp |-> Clamp(10000, 50000, raw.tp),
                          provenance |-> "none"]
    BY <1>3 DEF Validated
  <2> QED
    BY <1>1, <1>3, <2>1, <2>2 DEF Advice
<1> QED
  BY <1>2, <1>3

LEMMA HoldAdvice ==
  ASSUME NEW p \in Provenances
  PROVE  SyntheticHold(p) \in Advice /\ SyntheticHold(p).action = "Hold"
BY DEF SyntheticHold, Advice

\* Whatever the second tier answers, a trade is advised only by the first.
LEMMA AdvisedByFirst ==
  ASSUME NEW first \in Advice \cup Errors, NEW second \in Advice \cup Errors \cup {NoClient},
         NEW ctx, NEW capacity
  PROVE  LET advice == evaluate(ctx, first, second, capacity, 50, 75, 3)
         IN  /\ advice \in Advice
             /\ advice.action \in OpenActions =>
                    first \notin Errors /\ first.action = advice.action
<1> DEFINE advice == evaluate(ctx, first, second, capacity, 50, 75, 3)
<1>1. CASE first \in Errors
  <2>1. advice = SyntheticHold("t1_failed")
    BY <1>1 DEF evaluate, _make_hold_failure, Provenances
  <2> QED
    BY <2>1, HoldAdvice DEF OpenActions, Provenances
<1>2. CASE first \notin Errors
  <2>1. first \in Advice
    BY <1>2
  <2>2. ASSUME NEW p \in Provenances
        PROVE  Labelled(first, p) \in Advice /\ Labelled(first, p).action = first.action
    BY <2>1 DEF Labelled, Advice
  <2>3. ASSUME second \in Advice PROVE /\ merge_tiers(first, second) \in Advice
                                        /\ \/ merge_tiers(first, second).action = first.action
                                           \/ merge_tiers(first, second).action = "Hold"
    <3>1. Max({first.confidence, second.confidence}) \in Int
      BY <2>1, <2>3, GreaterOfTwo DEF Advice
    <3>2. CASE first.action = second.action
      BY <2>1, <2>3, <3>1, <3>2 DEF merge_tiers, Advice, Provenances
    <3>3. CASE first.action # second.action
      BY <3>3, HoldAdvice DEF merge_tiers, Provenances
    <3> QED
      BY <3>2, <3>3
  <2>4. \/ advice \in {Labelled(first, "t1_only"), Labelled(first, "t1_only_budget_exhausted"),
                       Labelled(first, "t1_fallback_t2")}
        \/ second \in Advice /\ advice = merge_tiers(first, second)
    <3>1. second \notin Errors /\ second # NoClient => second \in Advice
      OBVIOUS
    <3>2. \/ advice = Labelled(first, "t1_only") \/ advice = Labelled(first, "t1_only_budget_exhausted")
          \/ advice = Labelled(first, "t1_fallback_t2")
          \/ second \notin Errors /\ second # NoClient /\ advice = merge_tiers(first, second)
      BY <1>2 DEF evaluate
    <3> QED
      BY <3>1, <3>2
  <2> QED
    <3>1. CASE advice \in {Labelled(first, "t1_only"), Labelled(first, "t1_only_budget_exhausted"),
                           Labelled(first, "t1_fallback_t2")}
      BY <1>2, <2>2, <3>1 DEF Provenances
    <3>2. CASE second \in Advice /\ advice = merge_tiers(first, second)
      BY <1>2, <2>3, <3>2 DEF OpenActions
    <3> QED
      BY <2>4, <3>1, <3>2
<1> QED
  BY <1>1, <1>2

-----------------------------------------------------------------------------
(* The market in the mirror.                                               *)

LEMMA NoneIsApart ==
  /\ NONE \notin Int /\ NONE \notin (SUBSET Int) \X (SUBSET Int)
  /\ NONE \notin TechnicalSignal /\ NONE \notin DailyContext /\ NONE \notin PremarketContext
BY SignalsAssumption

LEMMA NegTwice ==
  ASSUME NEW n \in Int \cup {NONE}
  PROVE  /\ Neg(n) \in Int \cup {NONE} /\ Neg(Neg(n)) = n /\ (Neg(n) = NONE <=> n = NONE)
         /\ n # NONE => n \in Int /\ Neg(n) = -n
BY NoneIsApart DEF Neg

LEMMA MirroredSession ==
  ASSUME NEW f \in Frame
  PROVE  LET s == f.session
             m == MirrorSession(s)
         IN  /\ m.gap = -s.gap /\ m.overLow = -s.overHigh /\ m.overHigh = -s.overLow
             /\ m.dailyBars = s.dailyBars /\ m.premarket = s.premarket /\ m.opened = s.opened
             /\ m.wideGap = s.wideGap /\ m.volume = s.volume /\ m.baseline = s.baseline
             /\ m.threshold = s.threshold
BY DEF Frame, MirrorSession

LEMMA MirroredFrame ==
  ASSUME NEW f \in Frame
  PROVE  LET g == Mirror(f)
         IN  /\ g.session = MirrorSession(f.session) /\ g.walls = MirrorWalls(f.walls)
             /\ g.sentiment = Neg(f.sentiment) /\ g.overSma20 = -f.overSma20
             /\ g.rsi = 100 - f.rsi /\ g.hist[1] = -f.hist[1] /\ g.hist[2] = -f.hist[2]
             /\ g.di = -f.di /\ g.overVwap = -f.overVwap
             /\ g.history.overSma200 = -f.history.overSma200
             /\ g.history.bars = f.history.bars /\ g.history.adx = f.history.adx
             /\ g.minute = f.minute /\ g.rthBars = f.rthBars /\ g.adx = f.adx
             /\ g.volumeSpike = f.volumeSpike /\ g.wallsRequired = f.wallsRequired
BY DEF Frame, Mirror

\* The regime changes sides; the trend stays.
LEMMA MirroredDaily ==
  ASSUME NEW f \in Frame
  PROVE  LET g == Mirror(f)
         IN  /\ Daily(g) = NONE <=> Daily(f) = NONE
             /\ Daily(f) # NONE =>
                  /\ Daily(g).regime = "bull" <=> Daily(f).regime = "bear"
                  /\ Daily(g).regime = "bear" <=> Daily(f).regime = "bull"
                  /\ Daily(g).is_trending = Daily(f).is_trending
<1> DEFINE g == Mirror(f)
<1>1. /\ g.history.overSma200 = -f.history.overSma200
      /\ g.history.bars = f.history.bars /\ g.history.adx = f.history.adx
  BY MirroredFrame
<1>2. f.history.overSma200 \in Int /\ f.history.bars \in Int /\ f.history.adx \in Int
  BY DEF Frame
<1> HIDE DEF g
<1>3. /\ regime(g.history.overSma200) = "bull" <=> regime(f.history.overSma200) = "bear"
      /\ regime(g.history.overSma200) = "bear" <=> regime(f.history.overSma200) = "bull"
  BY <1>1, <1>2 DEF regime
<1>4. ASSUME NEW h, h.history.adx \in Int, h.history.bars \in Int,
             h.history.bars >= 200
      PROVE  /\ Daily(h) = [regime |-> regime(h.history.overSma200),
                            is_trending |-> h.history.adx > ADX_TREND_MIN]
             /\ Daily(h) # NONE
  <2>1. Daily(h) = [regime |-> regime(h.history.overSma200),
                    is_trending |-> h.history.adx > ADX_TREND_MIN]
    BY <1>4 DEF Daily, compute_daily_context, ADX_TREND_MIN
  <2>2. regime(h.history.overSma200) \in {"bull", "bear", "neutral"}
    BY DEF regime
  <2>3. Daily(h) \in DailyContext
    BY <2>1, <2>2 DEF DailyContext
  <2> QED
    BY <2>1, <2>3, NoneIsApart
<1>5. CASE f.history.bars < 200
  <2>1. Daily(f) = NONE /\ Daily(g) = NONE
    BY <1>1, <1>5 DEF Daily, compute_daily_context
  <2> QED
    BY <2>1 DEF g
<1>6. CASE f.history.bars >= 200
  BY <1>1, <1>2, <1>3, <1>4, <1>6 DEF g
<1> QED
  BY <1>2, <1>5, <1>6

\* The pre-market context changes the sign of the gap and its levels change places.
LEMMA MirroredPm ==
  ASSUME NEW f \in Frame
  PROVE  LET p == Pm(f)
             q == Pm(Mirror(f))
         IN  \/ p = NONE /\ q = NONE
             \/ /\ p \in PremarketContext /\ q \in PremarketContext
                /\ q.gap = -p.gap /\ q.wideGap = p.wideGap /\ q.rvol = p.rvol
                /\ q.is_unusual_volume = p.is_unusual_volume
                /\ q.overLow = Neg(p.overHigh) /\ q.overHigh = Neg(p.overLow)
<1> DEFINE s == f.session
           m == MirrorSession(s)
           rvol == IF s.baseline = 0 \/ ~s.premarket THEN 0 ELSE s.volume \div s.baseline
           level(d) == IF s.premarket THEN d ELSE NONE
           p == [gap |-> s.gap, wideGap |-> s.wideGap, rvol |-> rvol,
                 overLow |-> level(s.overLow), overHigh |-> level(s.overHigh),
                 is_unusual_volume |-> rvol >= s.threshold]
           q == [gap |-> -s.gap, wideGap |-> s.wideGap, rvol |-> rvol,
                 overLow |-> level(-s.overHigh), overHigh |-> level(-s.overLow),
                 is_unusual_volume |-> rvol >= s.threshold]
<1>1. /\ s.gap \in Int /\ s.overLow \in Int /\ s.overHigh \in Int /\ s.volume \in Int
      /\ s.baseline \in Nat /\ s.threshold \in Int /\ s.dailyBars \in Int
      /\ s.wideGap \in BOOLEAN /\ s.premarket \in BOOLEAN
  BY DEF Frame
<1>2. /\ m.gap = -s.gap /\ m.overLow = -s.overHigh /\ m.overHigh = -s.overLow
      /\ m.dailyBars = s.dailyBars /\ m.premarket = s.premarket /\ m.opened = s.opened
      /\ m.wideGap = s.wideGap /\ m.volume = s.volume /\ m.baseline = s.baseline
      /\ m.threshold = s.threshold
  BY MirroredSession
<1>3. Mirror(f).session = m
  BY MirroredFrame
<1>4. rvol \in Int
  BY <1>1
<1> HIDE DEF s, m
<1>5. CASE s.dailyBars < 15 \/ ~(s.premarket \/ s.opened)
  <2>1. Pm(f) = NONE
    BY <1>5 DEF Pm, compute_premarket_context, s
  <2>2. Pm(Mirror(f)) = NONE
    BY <1>2, <1>3, <1>5 DEF Pm, compute_premarket_context
  <2> QED
    BY <2>1, <2>2
<1>6. CASE ~(s.dailyBars < 15 \/ ~(s.premarket \/ s.opened))
  <2>1. Pm(f) = p
    BY <1>6 DEF Pm, compute_premarket_context, s
  <2>2. Pm(Mirror(f)) = q
    BY <1>2, <1>3, <1>6 DEF Pm, compute_premarket_context
  <2> HIDE DEF rvol
  <2>3. p \in PremarketContext /\ q \in PremarketContext
    BY <1>1, <1>4 DEF PremarketContext
  <2>4. /\ q.gap = -p.gap /\ q.wideGap = p.wideGap /\ q.rvol = p.rvol
        /\ q.is_unusual_volume = p.is_unusual_volume
    OBVIOUS
  <2>5. q.overLow = Neg(p.overHigh) /\ q.overHigh = Neg(p.overLow)
    BY <1>1, NoneIsApart DEF Neg
  <2> HIDE DEF p, q
  <2> QED
    BY <2>1, <2>2, <2>3, <2>4, <2>5
<1> QED
  BY <1>5, <1>6

\* Two signals that are each other's image.
Mirrored(s, t) ==
  \/ s = NONE /\ t = NONE
  \/ /\ s \in TechnicalSignal /\ t \in TechnicalSignal
     /\ t.signal = MirrorAction(s.signal) /\ t.confidence = s.confidence /\ t.setup = s.setup

LEMMA MirroredSignals ==
  ASSUME NEW action \in {"Buy", "Sell", "Hold"}, NEW confidence \in Int,
         NEW setup \in {"none", "gap_and_go", "pullback"}
  PROVE  /\ Signal(action, confidence, setup) \in TechnicalSignal
         /\ Mirrored(Signal(action, confidence, setup),
                     Signal(MirrorAction(action), confidence, setup))
<1>1. AtMost(100, confidence) \in Int
  BY DEF AtMost
<1>2. MirrorAction(action) \in {"Buy", "Sell", "Hold"}
  BY DEF MirrorAction
<1>3. ASSUME NEW a \in {"Buy", "Sell", "Hold"}
      PROVE  /\ Signal(a, confidence, setup) \in TechnicalSignal
             /\ Signal(a, confidence, setup).signal = a
             /\ Signal(a, confidence, setup).confidence = AtMost(100, confidence)
             /\ Signal(a, confidence, setup).setup = setup
  BY <1>1 DEF Signal, TechnicalSignal
<1> QED
  BY <1>2, <1>3 DEF Mirrored

LEMMA MirroredHold == HoldSignal \in TechnicalSignal /\ Mirrored(HoldSignal, HoldSignal)
<1>1. HoldSignal \in TechnicalSignal /\ HoldSignal.signal = "Hold"
  <2>1. HoldSignal \in TechnicalSignal
    BY MirroredSignals DEF HoldSignal
  <2> QED
    BY <2>1 DEF HoldSignal, Signal
<1> QED
  BY <1>1 DEF Mirrored, MirrorAction

LEMMA MirroredGapAndGo ==
  ASSUME NEW p \in PremarketContext, NEW q \in PremarketContext, q.rvol = p.rvol,
         NEW action \in {"Buy", "Sell"}, NEW gap \in Int,
         NEW hold \in Int \cup {NONE}, NEW break \in Int \cup {NONE}, NEW aligned \in BOOLEAN
  PROVE  Mirrored(GapAndGo(action, gap, hold, break, aligned, p),
                  GapAndGo(MirrorAction(action), gap, hold, break, aligned, q))
<1> DEFINE confidence == 70 + Bonus(p.rvol >= EXTREME_RVOL_THRESHOLD, 10)
                            + Bonus(break # NONE /\ break > 0, 10) + Bonus(aligned, 10)
           blocked == gap < 10 \/ hold = NONE \/ hold < -2
<1>1. /\ GapAndGo(action, gap, hold, break, aligned, p)
           = IF blocked THEN NONE ELSE Signal(action, confidence, "gap_and_go")
      /\ GapAndGo(MirrorAction(action), gap, hold, break, aligned, q)
           = IF blocked THEN NONE ELSE Signal(MirrorAction(action), confidence, "gap_and_go")
  BY DEF GapAndGo
<1>2. confidence \in Int
  BY DEF Bonus
<1> HIDE DEF confidence, blocked
<1>3. Mirrored(Signal(action, confidence, "gap_and_go"),
               Signal(MirrorAction(action), confidence, "gap_and_go"))
  BY <1>2, MirroredSignals
<1> QED
  BY <1>1, <1>3 DEF Mirrored

LEMMA MirroredGaps ==
  ASSUME NEW f \in Frame, Pm(f) # NONE
  PROVE  Mirrored(check_gap_and_go(f), check_gap_and_go(Mirror(f)))
<1> DEFINE g == Mirror(f)
           p == Pm(f)
           q == Pm(g)
           bull == Daily(f) # NONE /\ Daily(f).regime = "bull"
           bear == Daily(f) # NONE /\ Daily(f).regime = "bear"
<1>1. /\ p \in PremarketContext /\ q \in PremarketContext
      /\ q.gap = -p.gap /\ q.rvol = p.rvol /\ q.is_unusual_volume = p.is_unusual_volume
      /\ q.overLow = Neg(p.overHigh) /\ q.overHigh = Neg(p.overLow)
  BY MirroredPm
<1>2. /\ p.gap \in Int /\ p.overLow \in Int \cup {NONE} /\ p.overHigh \in Int \cup {NONE}
      /\ q.gap \in Int /\ q.overLow \in Int \cup {NONE} /\ q.overHigh \in Int \cup {NONE}
  BY <1>1 DEF PremarketContext
<1>3. /\ (Daily(g) # NONE /\ Daily(g).regime = "bull") = bear
      /\ (Daily(g) # NONE /\ Daily(g).regime = "bear") = bull
  BY MirroredDaily
<1>4. InGapAndGoWindow(g) <=> InGapAndGoWindow(f)
  BY MirroredFrame DEF InGapAndGoWindow
<1>5. Neg(p.overHigh) = q.overLow /\ Neg(p.overLow) = q.overHigh
      /\ Neg(q.overHigh) = p.overLow /\ Neg(q.overLow) = p.overHigh
  BY <1>1, <1>2, NegTwice
<1>6. check_gap_and_go(f) =
        IF ~p.is_unusual_volume \/ ~InGapAndGoWindow(f) THEN NONE
        ELSE IF p.gap >= 10 THEN GapAndGo("Buy", p.gap, p.overLow, p.overHigh, bull, p)
        ELSE GapAndGo("Sell", -p.gap, q.overLow, q.overHigh, bear, p)
  BY <1>5 DEF check_gap_and_go
<1>7. check_gap_and_go(g) =
        IF ~p.is_unusual_volume \/ ~InGapAndGoWindow(f) THEN NONE
        ELSE IF q.gap >= 10 THEN GapAndGo("Buy", q.gap, q.overLow, q.overHigh, bear, q)
        ELSE GapAndGo("Sell", -q.gap, p.overLow, p.overHigh, bull, q)
  BY <1>1, <1>3, <1>4, <1>5 DEF check_gap_and_go
<1>8. MirrorAction("Buy") = "Sell" /\ MirrorAction("Sell") = "Buy"
  BY DEF MirrorAction
<1>9. bull \in BOOLEAN /\ bear \in BOOLEAN
  OBVIOUS
<1> HIDE DEF g, p, q, bull, bear
<1>10. -q.gap = p.gap /\ -p.gap \in Int
  BY <1>1, <1>2
<1>11. Mirrored(GapAndGo("Buy", p.gap, p.overLow, p.overHigh, bull, p),
                GapAndGo("Sell", p.gap, p.overLow, p.overHigh, bull, q))
  BY <1>1, <1>2, <1>8, <1>9, MirroredGapAndGo
<1>12. Mirrored(GapAndGo("Sell", -p.gap, q.overLow, q.overHigh, bear, p),
                GapAndGo("Buy", -p.gap, q.overLow, q.overHigh, bear, q))
  BY <1>1, <1>2, <1>8, <1>9, <1>10, MirroredGapAndGo
<1>13. ASSUME NEW action, NEW gap \in Int, gap < 10, NEW hold, NEW break, NEW aligned, NEW r
       PROVE  GapAndGo(action, gap, hold, break, aligned, r) = NONE
  BY <1>13 DEF GapAndGo
<1>14. Mirrored(NONE, NONE)
  BY DEF Mirrored
<1>15. CASE ~p.is_unusual_volume \/ ~InGapAndGoWindow(f)
  BY <1>6, <1>7, <1>14, <1>15 DEF g
<1>16. CASE p.is_unusual_volume /\ InGapAndGoWindow(f) /\ p.gap >= 10
  <2>1. ~(q.gap >= 10)
    BY <1>1, <1>2, <1>16
  <2> QED
    BY <1>6, <1>7, <1>10, <1>11, <1>16, <2>1 DEF g
<1>17. CASE p.is_unusual_volume /\ InGapAndGoWindow(f) /\ ~(p.gap >= 10) /\ q.gap >= 10
  BY <1>1, <1>6, <1>7, <1>12, <1>17 DEF g
<1>18. CASE p.is_unusual_volume /\ InGapAndGoWindow(f) /\ ~(p.gap >= 10) /\ ~(q.gap >= 10)
  <2>1. /\ check_gap_and_go(f) = GapAndGo("Sell", -p.gap, q.overLow, q.overHigh, bear, p)
        /\ check_gap_and_go(g) = GapAndGo("Sell", p.gap, p.overLow, p.overHigh, bull, q)
    BY <1>6, <1>7, <1>10, <1>18
  <2>2. -p.gap < 10 /\ p.gap < 10
    BY <1>1, <1>2, <1>18
  <2>3. check_gap_and_go(f) = NONE /\ check_gap_and_go(g) = NONE
    BY <1>2, <1>10, <1>13, <2>1, <2>2
  <2> QED
    BY <1>14, <2>3 DEF g
<1> QED
  BY <1>15, <1>16, <1>17, <1>18

LEMMA MirroredPullback ==
  ASSUME NEW f \in Frame
  PROVE  Mirrored(check_pullback(f), check_pullback(Mirror(f)))
<1> DEFINE g == Mirror(f)
           p == Pm(f)
           q == Pm(g)
           longHolds(r) == r # NONE /\ r.gap > 3 /\ r.overLow # NONE /\ r.overLow > 0
           shortHolds(r) == r # NONE /\ r.gap < -3 /\ r.overHigh # NONE /\ r.overHigh < 0
           gapDown(r) == r # NONE /\ r.gap < 0 /\ r.wideGap
           gapUp(r) == r # NONE /\ r.gap > 0 /\ r.wideGap
           long(h, r) == Signal("Buy", PullbackConfidence(h, h.di > 0, longHolds(r)), "pullback")
           short(h, r) == Signal("Sell", PullbackConfidence(h, h.di < 0, shortHolds(r)), "pullback")
<1>1. /\ p = NONE /\ q = NONE
      \/ /\ p \in PremarketContext /\ q \in PremarketContext
         /\ q.gap = -p.gap /\ q.wideGap = p.wideGap
         /\ q.overLow = Neg(p.overHigh) /\ q.overHigh = Neg(p.overLow)
  BY MirroredPm
<1>2. /\ g.overSma20 = -f.overSma20 /\ g.rsi = 100 - f.rsi
      /\ g.hist[1] = -f.hist[1] /\ g.hist[2] = -f.hist[2] /\ g.di = -f.di
      /\ g.overVwap = -f.overVwap /\ g.rthBars = f.rthBars /\ g.adx = f.adx
      /\ g.volumeSpike = f.volumeSpike
  BY MirroredFrame
<1>3. /\ f.overSma20 \in Int /\ f.rsi \in Int /\ f.hist[1] \in Int /\ f.hist[2] \in Int
      /\ f.di \in Int /\ f.overVwap \in Int /\ f.adx \in Int
  BY DEF Frame
<1>4. Warm(g) <=> Warm(f)
  BY <1>2, MirroredDaily DEF Warm, compute_intraday_indicators
<1>5. Warm(f) => /\ BuyPullback(g) <=> SellPullback(f)
                 /\ SellPullback(g) <=> BuyPullback(f)
  <2> SUFFICES ASSUME Warm(f) PROVE /\ BuyPullback(g) <=> SellPullback(f)
                                    /\ SellPullback(g) <=> BuyPullback(f)
    OBVIOUS
  <2>1. /\ Daily(g).regime = "bull" <=> Daily(f).regime = "bear"
        /\ Daily(g).regime = "bear" <=> Daily(f).regime = "bull"
        /\ Daily(g).is_trending = Daily(f).is_trending
    BY MirroredDaily DEF Warm
  <2> HIDE DEF g
  <2> QED
    BY <1>2, <1>3, <2>1 DEF BuyPullback, SellPullback, RSI_OVERSOLD, RSI_OVERBOUGHT
<1>6. /\ gapDown(q) <=> gapUp(p)
      /\ gapUp(q) <=> gapDown(p)
      /\ longHolds(q) <=> shortHolds(p)
      /\ shortHolds(q) <=> longHolds(p)
  <2>1. CASE p = NONE /\ q = NONE
    BY <2>1
  <2>2. CASE p \in PremarketContext /\ q \in PremarketContext /\ q.gap = -p.gap /\ q.wideGap = p.wideGap
             /\ q.overLow = Neg(p.overHigh) /\ q.overHigh = Neg(p.overLow)
    <3>1. /\ p.gap \in Int /\ p.overLow \in Int \cup {NONE} /\ p.overHigh \in Int \cup {NONE}
          /\ p # NONE /\ q # NONE
      BY <2>2, NoneIsApart DEF PremarketContext
    <3> HIDE DEF p, q
    <3>2. /\ q.overLow = NONE <=> p.overHigh = NONE
          /\ q.overHigh = NONE <=> p.overLow = NONE
          /\ p.overHigh # NONE => p.overHigh \in Int /\ q.overLow = -p.overHigh
          /\ p.overLow # NONE => p.overLow \in Int /\ q.overHigh = -p.overLow
      BY <2>2, <3>1, NegTwice
    <3>3. /\ q.gap < 0 <=> p.gap > 0
          /\ q.gap > 0 <=> p.gap < 0
          /\ q.gap > 3 <=> p.gap < -3
          /\ q.gap < -3 <=> p.gap > 3
      BY <2>2, <3>1
    <3>4. /\ p.overHigh # NONE => (q.overLow > 0 <=> p.overHigh < 0)
          /\ p.overLow # NONE => (q.overHigh < 0 <=> p.overLow > 0)
      BY <3>2
    <3> QED
      BY <2>2, <3>1, <3>2, <3>3, <3>4
  <2> QED
    BY <1>1, <2>1, <2>2
<1>7. /\ g.di > 0 <=> f.di < 0
      /\ g.di < 0 <=> f.di > 0
  BY <1>2, <1>3
<1> HIDE DEF gapDown, gapUp, longHolds, shortHolds
<1>8. check_pullback(f) =
        IF ~Warm(f) THEN HoldSignal
        ELSE IF BuyPullback(f) THEN IF gapDown(p) THEN HoldSignal ELSE long(f, p)
        ELSE IF SellPullback(f) THEN IF gapUp(p) THEN HoldSignal ELSE short(f, p)
        ELSE NONE
  BY Zenon DEF check_pullback, gapDown, gapUp, longHolds, shortHolds
<1>9. check_pullback(g) =
        IF ~Warm(g) THEN HoldSignal
        ELSE IF BuyPullback(g) THEN IF gapDown(q) THEN HoldSignal ELSE long(g, q)
        ELSE IF SellPullback(g) THEN IF gapUp(q) THEN HoldSignal ELSE short(g, q)
        ELSE NONE
  BY Zenon DEF check_pullback, gapDown, gapUp, longHolds, shortHolds
<1>10. ASSUME NEW di \in BOOLEAN, NEW gap \in BOOLEAN
       PROVE  /\ PullbackConfidence(f, di, gap) \in Int
              /\ PullbackConfidence(g, di, gap) = PullbackConfidence(f, di, gap)
  BY <1>2 DEF PullbackConfidence, Bonus
<1>11. MirrorAction("Buy") = "Sell" /\ MirrorAction("Sell") = "Buy"
  BY DEF MirrorAction
<1>12. longHolds(p) \in BOOLEAN /\ shortHolds(p) \in BOOLEAN
       /\ longHolds(q) = shortHolds(p) /\ shortHolds(q) = longHolds(p)
  BY <1>6 DEF longHolds, shortHolds
<1> HIDE DEF g, p, q
<1>13. Mirrored(long(f, p), short(g, q))
  <2> DEFINE c == PullbackConfidence(f, f.di > 0, longHolds(p))
  <2>1. (f.di > 0) \in BOOLEAN /\ (g.di < 0) = (f.di > 0)
    BY <1>7
  <2>2. c \in Int /\ PullbackConfidence(g, g.di < 0, shortHolds(q)) = c
    BY <1>10, <1>12, <2>1
  <2>3. long(f, p) = Signal("Buy", c, "pullback") /\ short(g, q) = Signal("Sell", c, "pullback")
    BY <2>2
  <2> HIDE DEF c, long, short
  <2> QED
    BY <1>11, <2>2, <2>3, MirroredSignals
<1>14. Mirrored(short(f, p), long(g, q))
  <2> DEFINE c == PullbackConfidence(f, f.di < 0, shortHolds(p))
  <2>1. (f.di < 0) \in BOOLEAN /\ (g.di > 0) = (f.di < 0)
    BY <1>7
  <2>2. c \in Int /\ PullbackConfidence(g, g.di > 0, longHolds(q)) = c
    BY <1>10, <1>12, <2>1
  <2>3. short(f, p) = Signal("Sell", c, "pullback") /\ long(g, q) = Signal("Buy", c, "pullback")
    BY <2>2
  <2> HIDE DEF c, long, short
  <2> QED
    BY <1>11, <2>2, <2>3, MirroredSignals
<1>15. BuyPullback(f) /\ SellPullback(f) => FALSE
  BY DEF BuyPullback, SellPullback
<1>16. Mirrored(HoldSignal, HoldSignal) /\ Mirrored(NONE, NONE)
  BY MirroredHold DEF Mirrored
<1> HIDE DEF long, short
<1>17. CASE ~Warm(f)
  BY <1>4, <1>8, <1>9, <1>16, <1>17 DEF g
<1>18. CASE Warm(f) /\ BuyPullback(f)
  BY <1>4, <1>5, <1>6, <1>8, <1>9, <1>13, <1>15, <1>16, <1>18 DEF g
<1>19. CASE Warm(f) /\ ~BuyPullback(f) /\ SellPullback(f)
  BY <1>4, <1>5, <1>6, <1>8, <1>9, <1>14, <1>16, <1>19 DEF g
<1>20. CASE Warm(f) /\ ~BuyPullback(f) /\ ~SellPullback(f)
  BY <1>4, <1>5, <1>8, <1>9, <1>16, <1>20 DEF g
<1> QED
  BY <1>17, <1>18, <1>19, <1>20

\* The technical signal of the mirrored frame is the image of the signal.
LEMMA MirroredTechnical ==
  ASSUME NEW f \in Frame
  PROVE  /\ generate_signal(f) \in TechnicalSignal
         /\ Mirrored(generate_signal(f), generate_signal(Mirror(f)))
<1> DEFINE g == Mirror(f)
           gap(h) == IF Pm(h) = NONE THEN NONE ELSE check_gap_and_go(h)
<1>1. Mirrored(gap(f), gap(g))
  <2>1. Pm(g) = NONE <=> Pm(f) = NONE
    BY MirroredPm, NoneIsApart
  <2> QED
    BY <2>1, MirroredGaps DEF Mirrored
<1>2. Mirrored(check_pullback(f), check_pullback(g))
  BY MirroredPullback
<1>3. g.minute = f.minute
  BY MirroredFrame
<1> HIDE DEF g, gap
<1>4. ASSUME NEW h
      PROVE  generate_signal(h) = IF h.minute < 5 THEN HoldSignal
                                  ELSE IF gap(h) # NONE THEN gap(h)
                                  ELSE IF check_pullback(h) # NONE THEN check_pullback(h)
                                  ELSE HoldSignal
  BY DEF generate_signal, gap
<1>5. ASSUME NEW s, NEW t, Mirrored(s, t)
      PROVE  (s = NONE <=> t = NONE) /\ (s # NONE => s \in TechnicalSignal)
  BY <1>5, NoneIsApart DEF Mirrored
<1>6. (gap(f) = NONE <=> gap(g) = NONE) /\ (gap(f) # NONE => gap(f) \in TechnicalSignal)
  BY <1>1, <1>5
<1>7. /\ check_pullback(f) = NONE <=> check_pullback(g) = NONE
      /\ check_pullback(f) # NONE => check_pullback(f) \in TechnicalSignal
  BY <1>2, <1>5
<1> QED
  BY <1>1, <1>2, <1>3, <1>4, <1>6, <1>7, MirroredHold DEF g

LEMMA MirroredWalls ==
  ASSUME NEW w \in {NONE} \cup ((SUBSET Int) \X (SUBSET Int)), NEW buy \in BOOLEAN
  PROVE  _wall_status(MirrorWalls(w), ~buy) = _wall_status(w, buy)
<1>1. CASE w = NONE
  BY <1>1 DEF MirrorWalls, _wall_status
<1>2. CASE w \in (SUBSET Int) \X (SUBSET Int)
  <2> DEFINE support == w[1]
             resistance == w[2]
             m == <<{-d : d \in resistance}, {-d : d \in support}>>
  <2>1. support \in SUBSET Int /\ resistance \in SUBSET Int /\ w # NONE
    BY <1>2, NoneIsApart
  <2>2. MirrorWalls(w) = m /\ m # NONE
    <3>1. m \in (SUBSET Int) \X (SUBSET Int)
      BY <2>1
    <3> QED
      BY <2>1, <3>1, NoneIsApart DEF MirrorWalls
  <2>3. m[1] = {-d : d \in resistance} /\ m[2] = {-d : d \in support}
    OBVIOUS
  <2> HIDE DEF m, support, resistance
  <2>4. /\ (\E d \in m[2] : 0 < d /\ d <= 3) <=> (\E d \in support : -3 <= d /\ d < 0)
        /\ (\E d \in m[1] : -3 <= d /\ d < 0) <=> (\E d \in resistance : 0 < d /\ d <= 3)
        /\ (\E d \in m[1] : -10 <= d /\ d <= 0) <=> (\E d \in resistance : 0 <= d /\ d <= 10)
        /\ (\E d \in m[2] : 0 <= d /\ d <= 10) <=> (\E d \in support : -10 <= d /\ d <= 0)
    <3>1. ASSUME NEW S \in SUBSET Int
          PROVE  (\E d \in {-x : x \in S} : 0 < d /\ d <= 3) <=> (\E d \in S : -3 <= d /\ d < 0)
      OBVIOUS
    <3>2. ASSUME NEW S \in SUBSET Int
          PROVE  (\E d \in {-x : x \in S} : -3 <= d /\ d < 0) <=> (\E d \in S : 0 < d /\ d <= 3)
      OBVIOUS
    <3>3. ASSUME NEW S \in SUBSET Int
          PROVE  (\E d \in {-x : x \in S} : -10 <= d /\ d <= 0) <=> (\E d \in S : 0 <= d /\ d <= 10)
      OBVIOUS
    <3>4. ASSUME NEW S \in SUBSET Int
          PROVE  (\E d \in {-x : x \in S} : 0 <= d /\ d <= 10) <=> (\E d \in S : -10 <= d /\ d <= 0)
      OBVIOUS
    <3> QED
      BY <2>1, <2>3, <3>1, <3>2, <3>3, <3>4
  <2>5. CASE buy
    BY <2>1, <2>2, <2>4, <2>5 DEF _wall_status, support, resistance
  <2>6. CASE ~buy
    BY <2>1, <2>2, <2>4, <2>6 DEF _wall_status, support, resistance
  <2> QED
    BY <2>5, <2>6
<1> QED
  BY <1>1, <1>2

\* The decision on the mirrored frame is the image of the decision on the frame.
LEMMA MirroredDecision ==
  ASSUME NEW f \in Frame
  PROVE  LET there == Combined(Mirror(f))
             here  == Combined(f)
         IN  /\ there.action = MirrorAction(here.action)
             /\ there.confidence = here.confidence
             /\ there.walls = here.walls
<1> DEFINE g == Mirror(f)
           s == generate_signal(f)
           t == generate_signal(g)
           buy == s.signal = "Buy"
           sell == t.signal = "Buy"
           gates(h, sig, way) ==
             /\ SentimentAgrees(h.sentiment, sig.setup, way)
             /\ _wall_status(h.walls, way) # "blocking"
             /\ sig.setup = "pullback" /\ h.wallsRequired => _wall_status(h.walls, way) = "aligned"
<1>1. /\ s \in TechnicalSignal /\ t \in TechnicalSignal
      /\ t.signal = MirrorAction(s.signal) /\ t.confidence = s.confidence /\ t.setup = s.setup
  BY MirroredTechnical, NoneIsApart DEF Mirrored
<1>2. s.signal \in {"Buy", "Sell", "Hold"} /\ s.setup \in {"none", "gap_and_go", "pullback"}
  BY <1>1 DEF TechnicalSignal
<1>3. /\ g.sentiment = Neg(f.sentiment) /\ g.walls = MirrorWalls(f.walls)
      /\ g.wallsRequired = f.wallsRequired
  BY MirroredFrame
<1>4. f.sentiment \in Int \cup {NONE} /\ f.walls \in {NONE} \cup ((SUBSET Int) \X (SUBSET Int))
  BY DEF Frame
<1>5. /\ Combined(f).action = IF s.signal # "Hold" /\ gates(f, s, buy) THEN s.signal ELSE "Hold"
      /\ Combined(f).confidence = s.confidence
      /\ Combined(f).walls = IF s.signal = "Hold" THEN "n/a" ELSE _wall_status(f.walls, buy)
  BY DEF Combined, evaluate_trade
<1>6. /\ Combined(g).action = IF t.signal # "Hold" /\ gates(g, t, sell) THEN t.signal ELSE "Hold"
      /\ Combined(g).confidence = t.confidence
      /\ Combined(g).walls = IF t.signal = "Hold" THEN "n/a" ELSE _wall_status(g.walls, sell)
  BY DEF Combined, evaluate_trade
<1> HIDE DEF g, s, t
<1>7. CASE s.signal = "Hold"
  BY <1>1, <1>5, <1>6, <1>7 DEF MirrorAction, g
<1>8. CASE s.signal # "Hold"
  <2>1. sell = ~buy /\ buy \in BOOLEAN /\ t.signal # "Hold"
    BY <1>1, <1>2, <1>8 DEF MirrorAction
  <2> HIDE DEF buy, sell
  <2>2. _wall_status(g.walls, sell) = _wall_status(f.walls, buy)
    BY <1>3, <1>4, <2>1, MirroredWalls
  <2>3. SentimentAgrees(g.sentiment, t.setup, sell) <=> SentimentAgrees(f.sentiment, s.setup, buy)
    <3>1. SentimentMin(s.setup) \in Int
      BY DEF SentimentMin
    <3>2. g.sentiment = NONE <=> f.sentiment = NONE
      BY <1>3, <1>4, NegTwice
    <3>3. f.sentiment # NONE => f.sentiment \in Int /\ g.sentiment = -f.sentiment
      BY <1>3, <1>4, NegTwice
    <3> QED
      <4>1. CASE f.sentiment = NONE
        BY <3>2, <4>1 DEF SentimentAgrees
      <4>2. CASE f.sentiment # NONE
        <5>1. g.sentiment # NONE
          BY <3>2, <4>2
        <5>2. buy => (SentimentAgrees(f.sentiment, s.setup, buy) <=> f.sentiment >= SentimentMin(s.setup))
          BY <4>2 DEF SentimentAgrees
        <5>3. ~buy => (SentimentAgrees(f.sentiment, s.setup, buy) <=> f.sentiment <= -SentimentMin(s.setup))
          BY <4>2 DEF SentimentAgrees
        <5>4. ~buy => (SentimentAgrees(g.sentiment, s.setup, sell) <=> g.sentiment >= SentimentMin(s.setup))
          BY <2>1, <5>1 DEF SentimentAgrees
        <5>5. buy => (SentimentAgrees(g.sentiment, s.setup, sell) <=> g.sentiment <= -SentimentMin(s.setup))
          BY <2>1, <5>1 DEF SentimentAgrees
        <5>6. /\ f.sentiment >= SentimentMin(s.setup) <=> g.sentiment <= -SentimentMin(s.setup)
              /\ f.sentiment <= -SentimentMin(s.setup) <=> g.sentiment >= SentimentMin(s.setup)
          BY <3>1, <3>3, <4>2
        <5>7. CASE buy
          BY <1>1, <5>2, <5>5, <5>6, <5>7
        <5>8. CASE ~buy
          BY <1>1, <5>3, <5>4, <5>6, <5>8
        <5> QED
          BY <5>7, <5>8
      <4> QED
        BY <4>1, <4>2
  <2>4. gates(g, t, sell) <=> gates(f, s, buy)
    BY <1>1, <1>3, <2>2, <2>3
  <2> HIDE DEF gates
  <2>5. MirrorAction("Hold") = "Hold"
    BY DEF MirrorAction
  <2> QED
    BY <1>1, <1>5, <1>6, <1>8, <2>1, <2>2, <2>4, <2>5 DEF g
<1> QED
  BY <1>7, <1>8

-----------------------------------------------------------------------------
(* Outcomes computed from ever more bars.                                  *)

Bar == [minute : Int, low : Int, high : Int, close : Int]

\* The first of some places stays the first when a later place joins them.
LEMMA FirstStays ==
  ASSUME NEW n \in Nat, NEW P \in SUBSET (1..n), NEW Q, Q = P \/ Q = P \cup {n + 1}
  PROVE  /\ P # {} => First(P) \in P /\ First(Q) = First(P)
         /\ P = {} => First(P) = 0 /\ First(Q) \in {0, n + 1}
<1>1. CASE P = {}
  <2>1. Q = {} \/ Q = {n + 1}
    BY <1>1
  <2>2. Min({n + 1}) = n + 1
    BY DEF Min
  <2> QED
    BY <1>1, <2>1, <2>2 DEF First
<1>2. CASE P # {}
  <2>1. PICK m \in P : \A k \in P : m <= k
    BY <1>2, LeastNatural
  <2>2. m \in Nat /\ m <= n
    OBVIOUS
  <2>3. m \in Q /\ Q \in SUBSET Nat /\ \A k \in Q : m <= k
    <3>1. m <= n + 1 /\ n + 1 \in Nat
      BY <2>2
    <3>2. P \in SUBSET Nat
      OBVIOUS
    <3>3. Q \subseteq P \cup {n + 1} /\ P \subseteq Q
      OBVIOUS
    <3> QED
      BY <2>1, <3>1, <3>2, <3>3
  <2>4. ASSUME NEW S \in SUBSET Nat, m \in S, \A k \in S : m <= k PROVE Min(S) = m
    <3>1. /\ Min(S) \in S /\ \A k \in S : Min(S) <= k
      BY <2>4 DEF Min
    <3>2. Min(S) <= m /\ m <= Min(S) /\ Min(S) \in Nat
      BY <2>4, <3>1
    <3> QED
      BY <2>2, <3>2
  <2>5. Min(P) = m /\ Min(Q) = m
    BY <2>1, <2>3, <2>4
  <2> QED
    BY <1>2, <2>1, <2>3, <2>5 DEF First
<1> QED
  BY <1>1, <1>2

LEMMA ExcessIsInt ==
  ASSUME NEW d, d.price \in Int, NEW b \in Bar, NEW sign \in {-1, 1}
  PROVE  Excess(d, b, sign) \in Int
<1>1. b.low \in Int /\ b.high \in Int
  BY DEF Bar
<1>2. ASSUME NEW price \in Int PROVE Move(d, price) \in Int
  <2>1. direction(d.side) = 1 \/ direction(d.side) = -1
    BY DEF direction
  <2> QED
    BY <2>1 DEF Move
<1>3. Adverse(d.side, b) \in Int /\ Favorable(d.side, b) \in Int
  BY <1>1 DEF Adverse, Favorable
<1> QED
  BY <1>2, <1>3 DEF Excess

\* Bars as a backfill finds them, and one more.
Ascending(seen) == \A i, j \in DOMAIN seen : i < j => seen[i].minute < seen[j].minute
Grows(seen, more) ==
  /\ seen \in Seq(Bar) /\ Ascending(seen)
  /\ \E b \in Bar : more = Append(seen, b) /\ (seen # <<>> => b.minute > seen[Len(seen)].minute)

LEMMA OneMoreBar ==
  ASSUME NEW seen, NEW more, Grows(seen, more)
  PROVE  /\ more \in Seq(Bar) /\ Len(seen) \in Nat
         /\ DOMAIN seen = 1..Len(seen) /\ DOMAIN more = 1..(Len(seen) + 1)
         /\ \A i \in DOMAIN seen : seen[i] \in Bar /\ more[i] = seen[i]
         /\ more[Len(seen) + 1] \in Bar
         /\ \A i \in DOMAIN seen : seen[i].minute < more[Len(seen) + 1].minute
         /\ Ascending(more)
<1>1. PICK b \in Bar : more = Append(seen, b) /\ (seen # <<>> => b.minute > seen[Len(seen)].minute)
  BY DEF Grows
<1>2. seen \in Seq(Bar) /\ Ascending(seen)
  BY DEF Grows
<1>3. /\ more \in Seq(Bar) /\ Len(seen) \in Nat
      /\ DOMAIN seen = 1..Len(seen) /\ DOMAIN more = 1..(Len(seen) + 1)
      /\ \A i \in DOMAIN seen : seen[i] \in Bar /\ more[i] = seen[i]
      /\ more[Len(seen) + 1] = b
  BY <1>1, <1>2
<1>4. ASSUME NEW i \in DOMAIN seen PROVE seen[i].minute < b.minute
  <2>1. seen # <<>> /\ Len(seen) \in DOMAIN seen /\ i <= Len(seen)
    BY <1>2, <1>3
  <2>2. seen[Len(seen)].minute < b.minute
    BY <1>1, <1>3, <2>1 DEF Bar
  <2>3. seen[i].minute <= seen[Len(seen)].minute
    <3>1. seen[i].minute \in Int /\ seen[Len(seen)].minute \in Int
      BY <1>3, <2>1 DEF Bar
    <3>2. i < Len(seen) \/ i = Len(seen)
      BY <1>3, <2>1
    <3> QED
      BY <1>2, <2>1, <3>1, <3>2 DEF Ascending
  <2> QED
    <3>1. /\ seen[i].minute \in Int /\ seen[Len(seen)].minute \in Int /\ b.minute \in Int
      BY <1>3, <2>1 DEF Bar
    <3> QED
      BY <2>2, <2>3, <3>1
<1>5. Ascending(more)
  <2> SUFFICES ASSUME NEW i \in DOMAIN more, NEW j \in DOMAIN more, i < j
               PROVE  more[i].minute < more[j].minute
    BY DEF Ascending
  <2>1. i \in DOMAIN seen
    BY <1>3
  <2>2. CASE j = Len(seen) + 1
    BY <1>3, <1>4, <2>1, <2>2
  <2>3. CASE j # Len(seen) + 1
    <3>1. j \in DOMAIN seen
      BY <1>3, <2>3
    <3> QED
      BY <1>2, <1>3, <2>1, <3>1 DEF Ascending
  <2> QED
    BY <2>2, <2>3
<1> QED
  BY <1>3, <1>4, <1>5

\* What is first of the bars there are stays first of all.
LEMMA TouchStays ==
  ASSUME NEW seen, NEW more, Grows(seen, more), NEW P, NEW Q,
         P \subseteq DOMAIN seen, Q \subseteq DOMAIN more,
         \A i \in DOMAIN seen : i \in Q <=> i \in P
  PROVE  /\ First(P) # 0 => First(Q) = First(P) /\ First(P) \in DOMAIN seen
         /\ First(P) = 0 => First(Q) = 0 \/ First(Q) = Len(seen) + 1
         /\ Settled(MinuteOf(seen, First(P)), MinuteOf(more, First(Q)))
<1>1. /\ Len(seen) \in Nat /\ DOMAIN seen = 1..Len(seen) /\ DOMAIN more = 1..(Len(seen) + 1)
      /\ \A i \in DOMAIN seen : more[i] = seen[i]
  BY OneMoreBar
<1>2. P \in SUBSET (1..Len(seen))
  BY <1>1
<1>3. Q = P \/ Q = P \cup {Len(seen) + 1}
  BY <1>1
<1>4. /\ P # {} => First(P) \in P /\ First(Q) = First(P)
      /\ P = {} => First(P) = 0 /\ First(Q) \in {0, Len(seen) + 1}
  BY <1>1, <1>2, <1>3, FirstStays
<1>5. 0 \notin P
  BY <1>1
<1> QED
  BY <1>1, <1>2, <1>4, <1>5 DEF Settled, MinuteOf

\* A greater set of excursions has a greater extreme.
LEMMA ExtremeGrows ==
  ASSUME NEW seen, NEW more, Grows(seen, more), NEW d, d.price \in Int, NEW sign \in {-1, 1}
  PROVE  /\ Most(d, seen, sign) \in Int /\ Most(d, more, sign) \in Int
         /\ Most(d, seen, sign) <= Most(d, more, sign)
<1> DEFINE Excesses(bs) == {Excess(d, bs[i], sign) : i \in Relevant(bs)}
           E(bs) == Excesses(bs) \cup {0}
<1>1. /\ Len(seen) \in Nat /\ DOMAIN seen = 1..Len(seen) /\ DOMAIN more = 1..(Len(seen) + 1)
      /\ \A i \in DOMAIN seen : seen[i] \in Bar /\ more[i] = seen[i]
      /\ more[Len(seen) + 1] \in Bar
  BY OneMoreBar
<1>2. ASSUME NEW bs, NEW n \in Nat, DOMAIN bs = 1..n, \A i \in DOMAIN bs : bs[i] \in Bar
      PROVE  E(bs) \in SUBSET Int /\ Max(E(bs)) \in E(bs) /\ \A x \in E(bs) : x <= Max(E(bs))
  <2>1. \A i \in Relevant(bs) : Excess(d, bs[i], sign) \in Int
    BY <1>2, ExcessIsInt DEF Relevant
  <2>2. IsFiniteSet(Relevant(bs))
    <3>1. IsFiniteSet(1..n)
      BY FS_Interval
    <3> QED
      BY <1>2, <3>1, FS_Subset DEF Relevant
  <2>3. IsFiniteSet(E(bs))
    <3>1. IsFiniteSet(Excesses(bs))
      <4> DEFINE f == [i \in Relevant(bs) |-> Excess(d, bs[i], sign)]
      <4>1. f \in [Relevant(bs) -> Excesses(bs)] /\ \A y \in Excesses(bs) : \E i \in Relevant(bs) : f[i] = y
        OBVIOUS
      <4> HIDE DEF f, Excesses
      <4> QED
        BY <2>2, <4>1, OntoSize
    <3> QED
      BY <3>1, FS_AddElement
  <2>4. E(bs) \in SUBSET Int /\ E(bs) # {}
    BY <2>1
  <2> HIDE DEF E
  <2> QED
    BY <2>3, <2>4, FiniteMax
<1>3. E(seen) \in SUBSET Int /\ Max(E(seen)) \in E(seen)
  BY <1>1, <1>2
<1>4. E(more) \in SUBSET Int /\ Max(E(more)) \in E(more) /\ \A x \in E(more) : x <= Max(E(more))
  <2>1. \A i \in DOMAIN more : more[i] \in Bar
    BY <1>1
  <2>2. Len(seen) + 1 \in Nat
    BY <1>1
  <2> QED
    BY <1>1, <1>2, <2>1, <2>2
<1>5. E(seen) \subseteq E(more)
  <2>1. \A i \in Relevant(seen) : i \in Relevant(more) /\ more[i] = seen[i]
    BY <1>1 DEF Relevant
  <2> QED
    BY <2>1
<1>6. \A bs : Most(d, bs, sign) = Max(E(bs))
  BY DEF Most
<1> HIDE DEF E
<1>7. Max(E(seen)) \in Int /\ Max(E(more)) \in Int /\ Max(E(seen)) <= Max(E(more))
  BY <1>3, <1>4, <1>5
<1> QED
  BY <1>6, <1>7

\* Bars that reach the close end the search for its return.
LEMMA CloseStays ==
  ASSUME NEW seen, NEW more, Grows(seen, more), NEW d, Relevant(seen) # {},
         horizon_complete(seen[Max(Relevant(seen))].minute) = FinalHorizon
  PROVE  EodReturn(d, more) = EodReturn(d, seen)
<1> DEFINE last == Max(Relevant(seen))
           b == more[Len(seen) + 1]
           Before(bs) == {i \in Relevant(bs) : bs[i].minute <= EodMinute}
<1>1. /\ Len(seen) \in Nat /\ DOMAIN seen = 1..Len(seen) /\ DOMAIN more = 1..(Len(seen) + 1)
      /\ \A i \in DOMAIN seen : seen[i] \in Bar /\ more[i] = seen[i]
      /\ b \in Bar /\ \A i \in DOMAIN seen : seen[i].minute < b.minute
  BY OneMoreBar
<1>2. ASSUME NEW S \in SUBSET (1..Len(seen)), S # {} PROVE Max(S) \in S
  <2>1. S \in SUBSET Int /\ Len(seen) \in Int /\ \A x \in S : x <= Len(seen)
    BY <1>1
  <2> QED
    BY <1>2, <2>1, MaxOfBounded
<1>3. last \in Relevant(seen)
  BY <1>1, <1>2 DEF Relevant
<1>4. seen[last].minute \in Int /\ b.minute \in Int /\ seen[last].minute < b.minute
  BY <1>1, <1>3 DEF Relevant, Bar
<1>5. seen[last].minute >= EodMinute
  <2> DEFINE S == {0} \cup {i \in DOMAIN Horizons : seen[last].minute >= Horizons[i]}
  <2>1. SUFFICES ASSUME ~(seen[last].minute >= EodMinute) PROVE FALSE
    OBVIOUS
  <2>2. horizon_complete(seen[last].minute) = Max(S)
    BY <2>1 DEF horizon_complete
  <2>3. Len(Horizons) \in Nat /\ DOMAIN Horizons = 1..Len(Horizons)
    BY MetricsAssumption
  <2>4. S \in SUBSET Int /\ S # {} /\ Len(Horizons) \in Int /\ \A x \in S : x <= Len(Horizons)
    BY <2>3
  <2> HIDE DEF S
  <2>5. Max(S) \in S
    BY <2>4, MaxOfBounded
  <2>6. Max(S) <= Len(Horizons) /\ Max(S) \in Int
    BY <2>4, <2>5
  <2> QED
    BY <2>2, <2>3, <2>6 DEF FinalHorizon
<1>6. Before(more) = Before(seen)
  <2>1. Len(seen) + 1 \notin Before(more)
    BY <1>4, <1>5, MetricsAssumption
  <2>2. \A i \in DOMAIN seen : i \in Before(more) <=> i \in Before(seen)
    BY <1>1 DEF Relevant
  <2>3. Before(seen) \subseteq DOMAIN seen /\ Before(more) \subseteq DOMAIN more
    BY DEF Relevant
  <2> HIDE DEF Before
  <2>4. \A i \in DOMAIN more : i \in DOMAIN seen \/ i = Len(seen) + 1
    BY <1>1
  <2>5. DOMAIN seen \subseteq DOMAIN more
    BY <1>1
  <2> QED
    BY <2>1, <2>2, <2>3, <2>4, <2>5
<1>7. Before(seen) # {} => Max(Before(seen)) \in DOMAIN seen
  <2>1. Before(seen) \in SUBSET (1..Len(seen))
    BY <1>1 DEF Relevant
  <2> HIDE DEF Before
  <2> QED
    BY <1>1, <1>2, <2>1
<1>8. \A bs : EodReturn(d, bs) = IF Before(bs) = {} THEN None
                                 ELSE Move(d, bs[Max(Before(bs))].close)
  BY DEF EodReturn
<1> HIDE DEF Before, last, b
<1> QED
  BY <1>1, <1>6, <1>7, <1>8

\* A verdict from some bars stands when there is one more.
LEMMA VerdictKept ==
  ASSUME NEW seen, NEW more, Grows(seen, more), NEW d, d.price \in Int
  PROVE  LET o == compute_outcome(d, seen)
             n == compute_outcome(d, more)
         IN  /\ Settled(o.stopAt, n.stopAt) /\ Settled(o.targetAt, n.targetAt)
             /\ o.first_touch # "neither" => n.first_touch = o.first_touch
             /\ \A h \in DOMAIN Horizons : Settled(o.returns[h], n.returns[h])
             /\ o.horizon_complete = FinalHorizon => Settled(o.eod, n.eod)
             /\ o.mae # None => n.mae.by <= o.mae.by /\ n.mfe.by >= o.mfe.by
<1> DEFINE o == compute_outcome(d, seen)
           n == compute_outcome(d, more)
           Stops(bs) == {i \in Relevant(bs) : StopIsHit(d, bs[i])}
           Targets(bs) == {i \in Relevant(bs) : TargetIsHit(d, bs[i])}
<1>1. /\ Len(seen) \in Nat /\ DOMAIN seen = 1..Len(seen) /\ DOMAIN more = 1..(Len(seen) + 1)
      /\ \A i \in DOMAIN seen : more[i] = seen[i]
  BY OneMoreBar
<1>2. ASSUME NEW bs, Relevant(bs) # {}
      PROVE  LET v == compute_outcome(d, bs)
             IN  /\ v.stopAt = MinuteOf(bs, First(Stops(bs)))
                 /\ v.targetAt = MinuteOf(bs, First(Targets(bs)))
                 /\ v.first_touch = first_touch(d, First(Stops(bs)), First(Targets(bs)))
                 /\ \A h \in DOMAIN Horizons : v.returns[h] = ReturnAt(d, bs, Horizons[h])
                 /\ v.eod = EodReturn(d, bs)
                 /\ v.horizon_complete = horizon_complete(bs[Max(Relevant(bs))].minute)
                 /\ v.mae = Excursion(d, bs, -1) /\ v.mfe = Excursion(d, bs, 1)
  BY <1>2 DEF compute_outcome
<1>3. CASE Relevant(seen) = {}
  <2>1. o = EmptyOutcome(d)
    BY <1>3 DEF compute_outcome
  <2>2. /\ o.stopAt = None /\ o.targetAt = None /\ o.eod = None /\ o.mae = None
        /\ \A h \in DOMAIN Horizons : o.returns[h] = None
        /\ o.first_touch = IF d.side = "hold" THEN "n/a" ELSE "neither"
    BY <2>1 DEF EmptyOutcome
  <2>3. d.side = "hold" => n.first_touch = "n/a"
    <3>1. CASE Relevant(more) = {}
      BY <3>1 DEF compute_outcome, EmptyOutcome
    <3>2. CASE Relevant(more) # {}
      <4>1. n.first_touch = first_touch(d, First(Stops(more)), First(Targets(more)))
        BY <1>2, <3>2
      <4> QED
        BY <4>1 DEF first_touch
    <3> QED
      BY <3>1, <3>2
  <2> QED
    BY <2>2, <2>3 DEF Settled
<1>4. CASE Relevant(seen) # {}
  <2>1. \A i \in DOMAIN seen : i \in Relevant(more) <=> i \in Relevant(seen)
    BY <1>1 DEF Relevant
  <2>2. Relevant(seen) \subseteq DOMAIN seen /\ Relevant(more) \subseteq DOMAIN more
    BY DEF Relevant
  <2>3. Relevant(more) # {}
    BY <1>4, <2>1, <2>2
  <2>4. /\ First(Stops(seen)) # 0 => First(Stops(more)) = First(Stops(seen))
                                     /\ First(Stops(seen)) \in DOMAIN seen
        /\ First(Stops(seen)) = 0 => First(Stops(more)) = 0 \/ First(Stops(more)) = Len(seen) + 1
        /\ Settled(MinuteOf(seen, First(Stops(seen))), MinuteOf(more, First(Stops(more))))
    <3>1. \A i \in DOMAIN seen : i \in Stops(more) <=> i \in Stops(seen)
      BY <1>1, <2>1
    <3>2. Stops(seen) \subseteq DOMAIN seen /\ Stops(more) \subseteq DOMAIN more
      BY <2>2
    <3> HIDE DEF Stops
    <3> QED
      BY <3>1, <3>2, TouchStays
  <2>5. /\ First(Targets(seen)) # 0 => First(Targets(more)) = First(Targets(seen))
                                       /\ First(Targets(seen)) \in DOMAIN seen
        /\ First(Targets(seen)) = 0 => First(Targets(more)) = 0 \/ First(Targets(more)) = Len(seen) + 1
        /\ Settled(MinuteOf(seen, First(Targets(seen))), MinuteOf(more, First(Targets(more))))
    <3>1. \A i \in DOMAIN seen : i \in Targets(more) <=> i \in Targets(seen)
      BY <1>1, <2>1
    <3>2. Targets(seen) \subseteq DOMAIN seen /\ Targets(more) \subseteq DOMAIN more
      BY <2>2
    <3> HIDE DEF Targets
    <3> QED
      BY <3>1, <3>2, TouchStays
  <2>6. ASSUME NEW h \in DOMAIN Horizons
        PROVE  Settled(ReturnAt(d, seen, Horizons[h]), ReturnAt(d, more, Horizons[h]))
    <3> DEFINE Reached(bs) == {j \in Relevant(bs) : bs[j].minute >= Horizons[h]}
    <3>1. \A i \in DOMAIN seen : i \in Reached(more) <=> i \in Reached(seen)
      BY <1>1, <2>1
    <3>2. Reached(seen) \subseteq DOMAIN seen /\ Reached(more) \subseteq DOMAIN more
      BY <2>2
    <3>3. ASSUME NEW bs
          PROVE  ReturnAt(d, bs, Horizons[h]) = IF First(Reached(bs)) = 0 THEN None
                                                ELSE Move(d, bs[First(Reached(bs))].close)
      BY DEF ReturnAt
    <3> HIDE DEF Reached
    <3>4. /\ First(Reached(seen)) # 0 => First(Reached(more)) = First(Reached(seen))
                                      /\ First(Reached(seen)) \in DOMAIN seen
          /\ First(Reached(seen)) = 0 => First(Reached(more)) = 0 \/ First(Reached(more)) = Len(seen) + 1
          /\ Settled(MinuteOf(seen, First(Reached(seen))), MinuteOf(more, First(Reached(more))))
      BY <3>1, <3>2, TouchStays
    <3> QED
      BY <1>1, <3>3, <3>4 DEF Settled
  <2> DEFINE s == First(Stops(seen))
             t == First(Targets(seen))
             s2 == First(Stops(more))
             t2 == First(Targets(more))
  <2>7. first_touch(d, s, t) # "neither" => first_touch(d, s2, t2) = first_touch(d, s, t)
    <3> HIDE DEF s, t, s2, t2
    <3>1. /\ s # 0 => s2 = s /\ s \in 1..Len(seen)
          /\ s = 0 => s2 = 0 \/ s2 = Len(seen) + 1
          /\ t # 0 => t2 = t /\ t \in 1..Len(seen)
          /\ t = 0 => t2 = 0 \/ t2 = Len(seen) + 1
      BY <1>1, <2>4, <2>5 DEF s, t, s2, t2
    <3> QED
      BY <1>1, <3>1 DEF first_touch
  <2>8. ASSUME NEW bs, NEW sign PROVE Excursion(d, bs, sign).by = sign * Most(d, bs, sign)
    BY DEF Excursion
  <2>9. /\ Excursion(d, more, -1).by <= Excursion(d, seen, -1).by
        /\ Excursion(d, more, 1).by >= Excursion(d, seen, 1).by
    <3>1. ASSUME NEW sign \in {-1, 1}
          PROVE  /\ Most(d, seen, sign) \in Int /\ Most(d, more, sign) \in Int
                 /\ Most(d, seen, sign) <= Most(d, more, sign)
      <4>1. sign \in {-1, 1} /\ d.price \in Int /\ Grows(seen, more)
        OBVIOUS
      <4> QED
        BY <4>1, ExtremeGrows
    <3> QED
      BY <2>8, <3>1
  <2>10. horizon_complete(seen[Max(Relevant(seen))].minute) = FinalHorizon
           => EodReturn(d, more) = EodReturn(d, seen)
    BY <1>4, CloseStays
  <2> HIDE DEF Stops, Targets
  <2> QED
    BY <1>2, <1>4, <2>3, <2>4, <2>5, <2>6, <2>7, <2>9, <2>10 DEF Settled
<1> QED
  BY <1>3, <1>4

-----------------------------------------------------------------------------
(* One evaluation.                                                         *)

\* What the invariant says of the input of the policy, of what it decided, and of
\* the decision the backfill reads.
Advising ==
  /\ input.features \in Features /\ input.advisory \in Advice
  /\ input.advisory.action \in OpenActions =>
        input.first \notin Errors /\ input.first.action = input.advisory.action

Deciding ==
  /\ input = [ctx |-> input.ctx, features |-> input.features, first |-> input.first,
              advisory |-> input.advisory, analysis |-> input.analysis,
              health |-> input.health, bucket |-> input.bucket]
  /\ input.bucket \in BucketStats
  /\ final = decide(input)

EvaluationInv ==
  /\ stage \in {"bar", "judged", "asked", "decided", "logged"}
  /\ frame # Nothing => frame \in Frame
  /\ stage \in {"asked", "decided"} => Advising
  /\ stage = "decided" => Deciding
  /\ stage # "logged" => plan = Nothing /\ later = <<>>
  /\ stage = "logged" => plan.price \in Int
  /\ later \in Seq(Bar) /\ Ascending(later)

LEMMA EvaluationStarts == ASSUME EvaluationInit PROVE EvaluationInv
<1>1. later \in Seq(Bar) /\ Ascending(later)
  BY DEF EvaluationInit, Ascending
<1> QED
  BY <1>1 DEF EvaluationInit, EvaluationInv

LEMMA FeaturesType ==
  ASSUME NEW s \in Situations PROVE build_market_features(s) \in Features
<1>1. s.ratio \in Int /\ s.spread \in Int
  BY EvaluationAssumption DEF Situation
<1>2. _volume_to_percentile(s.ratio) \in Int
  BY <1>1 DEF _volume_to_percentile
<1> QED
  BY <1>1, <1>2 DEF build_market_features, Features

LEMMA BucketFound ==
  ASSUME NEW t \in Tables, NEW key PROVE hierarchical_lookup(key, t) \in BucketStats
<1>1. ASSUME NEW k PROVE BucketAt(t, k) \in BucketStats
  <2>1. CASE k \in DOMAIN t
    BY <2>1, EvaluationAssumption DEF BucketAt
  <2>2. CASE k \notin DOMAIN t
    BY <2>2 DEF BucketAt, EmptyBucket, BucketStats
  <2> QED
    BY <2>1, <2>2
<1> QED
  BY <1>1 DEF hierarchical_lookup

LEMMA AnswersChecked ==
  ASSUME NEW first \in Answers \cup Errors, NEW second \in Answers \cup Errors \cup {NoClient}
  PROVE  /\ (IF first \in Errors THEN first ELSE Validated(first)) \in Advice \cup Errors
         /\ (IF second \in Errors \cup {NoClient} THEN second ELSE Validated(second))
               \in Advice \cup Errors \cup {NoClient}
<1>1. Answers \subseteq RawAnswer
  BY EvaluationAssumption DEF RawAnswer
<1> QED
  BY <1>1, ValidatedType

LEMMA EvaluationStep ==
  ASSUME EvaluationInv, [EvaluationNext]_evaluationVars
  PROVE  /\ EvaluationInv'
         /\ plan # Nothing => UNCHANGED evaluationVars \/ (plan' = plan /\ Grows(later, later'))
<1> USE DEF Nothing
<1>1. ASSUME NEW f \in Frames, EvaluateRules(f)
      PROVE  EvaluationInv' /\ (plan # Nothing => plan' = plan /\ Grows(later, later'))
  <2>1. f \in Frame
    BY EvaluationAssumption
  <2> QED
    BY <1>1, <2>1 DEF EvaluationInv, EvaluateRules
<1>2. ASSUME NEW s \in Situations, NEW first \in Answers \cup Errors,
             NEW second \in Answers \cup Errors \cup {NoClient}, Ask(s, first, second)
      PROVE  EvaluationInv' /\ (plan # Nothing => plan' = plan /\ Grows(later, later'))
  <2> DEFINE ctx == build_llm_context(s)
             t1 == IF first \in Errors THEN first ELSE Validated(first)
             t2 == IF second \in Errors \cup {NoClient} THEN second ELSE Validated(second)
             advice == evaluate(ctx, t1, t2, s.capacity, 50, 75, 3)
  <2>1. t1 \in Advice \cup Errors /\ t2 \in Advice \cup Errors \cup {NoClient}
    BY AnswersChecked
  <2>2. input' = [ctx |-> ctx, features |-> build_market_features(s), first |-> t1,
                  advisory |-> advice]
    BY <1>2 DEF Ask
  <2>3. build_market_features(s) \in Features
    BY FeaturesType
  <2> HIDE DEF t1, t2, ctx
  <2>4. /\ advice \in Advice
        /\ advice.action \in OpenActions => t1 \notin Errors /\ t1.action = advice.action
    BY <2>1, AdvisedByFirst
  <2> HIDE DEF advice
  <2>5. Advising'
    BY <2>2, <2>3, <2>4 DEF Advising
  <2> QED
    BY <1>2, <2>5 DEF EvaluationInv, Ask
<1>3. ASSUME NEW analysis \in Analyses, NEW health \in Healths, NEW table \in Tables,
             Decide(analysis, health, table)
      PROVE  EvaluationInv' /\ (plan # Nothing => plan' = plan /\ Grows(later, later'))
  <2> DEFINE key == bucket_key_for(input.ctx.market_regime_label, input.ctx.market_cap_bucket,
                                   analysis.catalyst_quality, input.ctx.minutes_since_open,
                                   input.advisory.action)
             bucket == hierarchical_lookup(key, table)
  <2>1. bucket \in BucketStats
    BY BucketFound
  <2>2. /\ input' = [ctx |-> input.ctx, features |-> input.features, first |-> input.first,
                     advisory |-> input.advisory, analysis |-> analysis, health |-> health,
                     bucket |-> bucket]
        /\ final' = decide(input')
    BY <1>3 DEF Decide
  <2> HIDE DEF bucket, key
  <2>3. /\ input'.ctx = input.ctx /\ input'.features = input.features /\ input'.first = input.first
        /\ input'.advisory = input.advisory /\ input'.analysis = analysis
        /\ input'.health = health /\ input'.bucket = bucket
    BY <2>2
  <2>4. Deciding'
    BY <2>1, <2>2, <2>3 DEF Deciding
  <2>5. Advising'
    BY <1>3, <2>3 DEF Advising, EvaluationInv, Decide
  <2> QED
    BY <1>3, <2>4, <2>5 DEF EvaluationInv, Decide
<1>4. ASSUME Log(100, 10)
      PROVE  EvaluationInv' /\ (plan # Nothing => plan' = plan /\ Grows(later, later'))
  <2>1. plan'.price = 100 /\ stage = "decided" /\ stage' = "logged"
        /\ UNCHANGED <<frame, trade, later>>
    BY <1>4 DEF Log
  <2> QED
    BY <2>1 DEF EvaluationInv
<1>5. ASSUME NEW b \in Bars, NextBar(b)
      PROVE  EvaluationInv' /\ (plan # Nothing => plan' = plan /\ Grows(later, later'))
  <2>1. b \in Bar
    BY EvaluationAssumption DEF Bar
  <2>2. Grows(later, later')
    BY <1>5, <2>1 DEF Grows, EvaluationInv, NextBar
  <2>3. later' \in Seq(Bar) /\ Ascending(later')
    BY <2>2, OneMoreBar
  <2> QED
    BY <1>5, <2>2, <2>3 DEF EvaluationInv, NextBar
<1>6. CASE UNCHANGED evaluationVars
  <2>1. /\ stage' = stage /\ frame' = frame /\ plan' = plan /\ later' = later
        /\ input' = input /\ final' = final
    BY <1>6 DEF evaluationVars
  <2>2. (Advising => Advising') /\ (Deciding => Deciding')
    BY <2>1 DEF Advising, Deciding
  <2> QED
    BY <1>6, <2>1, <2>2 DEF EvaluationInv
<1> QED
  BY <1>1, <1>2, <1>3, <1>4, <1>5, <1>6 DEF EvaluationNext

\* What is advised, decided and written down of one evaluation holds together.
THEOREM EvaluationInvariant == EvaluationSpec => []EvaluationInv
<1>1. EvaluationInit => EvaluationInv
  BY EvaluationStarts
<1>2. EvaluationInv /\ [EvaluationNext]_evaluationVars => EvaluationInv'
  BY EvaluationStep
<1> QED
  BY <1>1, <1>2, PTL DEF EvaluationSpec

\* A falling market is judged exactly as a rising one, for every frame the
\* indicators can show: generate_signal and evaluate_trade, the two sides of
\* which the code writes out twice, give mirrored decisions.
THEOREM MirroredMarkets == EvaluationSpec => []MirrorImage
<1>1. EvaluationInv => MirrorImage
  BY MirroredDecision DEF EvaluationInv, MirrorImage
<1> QED
  BY <1>1, EvaluationInvariant, PTL

\* An account without a position only trades what the first tier itself advised,
\* whatever the second tier answers and policy.decide finds: for every context,
\* answer, analysis, table of buckets and configuration.
THEOREM FirstTierLeads == EvaluationSpec => []TradesOnlyAsFirstAdvised
<1>1. EvaluationInv => TradesOnlyAsFirstAdvised
  <2> SUFFICES ASSUME EvaluationInv, stage = "decided", final.action \in OpenActions,
                      input.ctx.position_qty = 0
               PROVE  input.first \notin Errors /\ input.first.action = final.action
    BY DEF TradesOnlyAsFirstAdvised
  <2>1. final = decide(input) /\ Advising
    BY DEF EvaluationInv, Deciding
  <2>2. decide(input).action \in {"Hold", input.advisory.action}
    BY Zenon DEF decide, _make_hold, Final
  <2> QED
    BY <2>1, <2>2 DEF Advising, OpenActions
<1> QED
  BY <1>1, EvaluationInvariant, PTL

\* The policy only ever tightens: policy.decide never grants more to worse
\* liquidity or to a lower expectancy, keeps the demanded ratio of reward to risk
\* and puts no stop nearer than advised, for every configuration.
THEOREM PolicyTightens == EvaluationSpec => []PolicyOnlyTightens
<1>1. EvaluationInv => PolicyOnlyTightens
  <2> SUFFICES ASSUME EvaluationInv, stage = "decided" PROVE PolicyOnlyTightens
    BY DEF PolicyOnlyTightens
  <2>1. Advising /\ Deciding
    BY DEF EvaluationInv
  <2>2. input.features \in Features /\ input.bucket \in BucketStats /\ final = decide(input)
    BY <2>1 DEF Advising, Deciding
  <2>3. ASSUME NEW s \in Situations, Worse(FeaturesOf(s), input.features)
        PROVE  Rank(decide([input EXCEPT !.features = FeaturesOf(s)]).qty_tier) <= Rank(final.qty_tier)
    <3> DEFINE out == [input EXCEPT !.features = FeaturesOf(s)]
    <3>1. FeaturesOf(s) \in Features
      BY FeaturesType DEF FeaturesOf
    <3>2. /\ out.features = FeaturesOf(s) /\ out.bucket = input.bucket
          /\ SameBut(input, out)
      BY <2>1 DEF Deciding, SameBut
    <3> HIDE DEF out
    <3>3. input.bucket.expected_r_lower_ci \in Int
      BY <2>2 DEF BucketStats
    <3>4. out.bucket.expected_r_lower_ci <= input.bucket.expected_r_lower_ci
      BY <3>2, <3>3
    <3>5. Rank(decide(out).qty_tier) <= Rank(decide(input).qty_tier)
      BY <2>2, <2>3, <3>1, <3>2, <3>4, SizeShrinks
    <3> QED
      BY <2>2, <3>5 DEF out
  <2>4. Rank(decide([input EXCEPT !.bucket.expected_r_lower_ci = @ - 20]).qty_tier)
          <= Rank(final.qty_tier)
    <3> DEFINE out == [input EXCEPT !.bucket.expected_r_lower_ci = @ - 20]
               lower == [input.bucket EXCEPT !.expected_r_lower_ci = @ - 20]
    <3>1. /\ out.features = input.features /\ out.bucket = lower /\ SameBut(input, out)
      BY <2>1 DEF Deciding, SameBut
    <3>2. /\ lower \in BucketStats /\ lower.sample_count = input.bucket.sample_count
          /\ lower.expected_r_lower_ci <= input.bucket.expected_r_lower_ci
      BY <2>2 DEF BucketStats
    <3>3. Worse(input.features, input.features)
      BY <2>2 DEF Worse, Features
    <3> HIDE DEF out, lower
    <3>4. Rank(decide(out).qty_tier) <= Rank(decide(input).qty_tier)
      BY <2>2, <3>1, <3>2, <3>3, SizeShrinks
    <3> QED
      BY <2>2, <3>4 DEF out
  <2>5. ASSUME final.action \in OpenActions, input.ctx.position_qty = 0
        PROVE  /\ final.tp >= PolicyConfig.min_reward_to_risk * final.stop
               /\ final.stop >= input.advisory.stop
    <3> DEFINE clamped == _clamp_stop_target(input.advisory, input.ctx.market_regime_label)
    <3>1. decide(input).action # "Hold"
      BY <2>2, <2>5 DEF OpenActions
    <3>2. decide(input).stop = clamped[1] /\ decide(input).tp = clamped[2]
      BY <2>5, <3>1, Zenon DEF decide, _make_hold, Final
    <3>3. input.advisory.stop \in Int /\ input.advisory.tp \in Int
      BY <2>1 DEF Advising, Advice
    <3>4. /\ clamped[1] >= input.advisory.stop
          /\ clamped[2] >= PolicyConfig.min_reward_to_risk * clamped[1]
      BY <3>3, StopAndTarget
    <3> QED
      BY <2>2, <3>2, <3>4
  <2> QED
    BY <2>3, <2>4, <2>5 DEF PolicyOnlyTightens
<1> QED
  BY <1>1, EvaluationInvariant, PTL

\* What a backfill has decided from some minute bars stands when it is computed
\* again from more: compute_outcome may be run at any time of the day.
THEOREM VerdictsStand == EvaluationSpec => VerdictStands
<1> DEFINE Stands == LET o == Verdict
                         n == Verdict'
                     IN  /\ Settled(o.stopAt, n.stopAt) /\ Settled(o.targetAt, n.targetAt)
                         /\ o.first_touch # "neither" => n.first_touch = o.first_touch
                         /\ \A h \in DOMAIN Horizons : Settled(o.returns[h], n.returns[h])
                         /\ o.horizon_complete = FinalHorizon => Settled(o.eod, n.eod)
                         /\ o.mae # None => n.mae.by <= o.mae.by /\ n.mfe.by >= o.mfe.by
<1>1. EvaluationInv /\ [EvaluationNext]_evaluationVars => [plan # Nothing => Stands]_evaluationVars
  <2> SUFFICES ASSUME EvaluationInv, [EvaluationNext]_evaluationVars, plan # Nothing,
                      ~UNCHANGED evaluationVars
               PROVE  Stands
    OBVIOUS
  <2>1. plan' = plan /\ Grows(later, later')
    BY EvaluationStep
  <2>2. plan.price \in Int
    BY DEF EvaluationInv
  <2>3. Verdict = compute_outcome(plan, later) /\ Verdict' = compute_outcome(plan, later')
    BY <2>1 DEF Verdict
  <2> QED
    BY <2>1, <2>2, <2>3, VerdictKept
<1> QED
  BY <1>1, EvaluationInvariant, PTL DEF EvaluationSpec, VerdictStands
=============================================================================
