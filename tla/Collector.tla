------------------------------- MODULE Collector -------------------------------
(***************************************************************************)
(* scripts/collector.py: one process that wakes every half minute, pulls   *)
(* bars while a session is open, fetches every symbol's option chain twice *)
(* a day in a subprocess (scripts/fetch_option_chain.py) and re-renders a  *)
(* dashboard. What it did last is kept in a state file, so that a restart  *)
(* neither repeats nor forgets a fetch. Chains cannot be fetched later:    *)
(* open interest is overwritten overnight.                                 *)
(*                                                                         *)
(* The clock moves by slots of a day (ChainStore), each much longer than a *)
(* pass: it leaves a slot only once a pass that began in it has ended, or  *)
(* while no collector runs. A pass may still be under way when it moves:   *)
(* it waits for a chain's subprocess.                                      *)
(***************************************************************************)
EXTENDS ChainStore, SchwabAuth, Sequences

CONSTANTS
    Weekend,    \* the days on which the collector fetches no chain
    InRange,    \* the contracts a fetch returns, by day and slot: the strikes near the price
    FirstTokens, \* the kinds of token files there can be at first
    BarDays,    \* days of bars every pull asks for (--bar-days)
    MaxFaults,  \* bound on the failures of vendors and disks
    MaxCrashes  \* bound on the ends of the process

ASSUME CollectorAssumption ==
    /\ Symbols \in Seq(Underlyings)
    /\ InRange \in [Days -> [Slots -> (SUBSET Contracts) \ {{}}]]
    /\ FirstTokens \subseteq TokenKinds
    /\ Weekend \subseteq Closed /\ Closed \subseteq Days
    /\ BarDays \in Nat

VARIABLES
    clock,      \* [day, slot]
    pc,         \* the next step of a pass, or "down"
    now,        \* the time read at the start of the pass
    at,         \* the symbol whose chain is fetched next
    state,      \* State.data: days of the chain tasks, times of the others
    file,       \* collector_state.json
    store,      \* chains.db
    bars,       \* bars.db: per symbol, the slots that a pull found whole
    token,      \* the Schwab token file
    faults, crashes,
    settled,    \* a pass that began in this slot has ended
    attempt,    \* how the last chain task of a day ended
    passed,     \* times of the passes of an open session whose bars did not fail
    awake,      \* days on which a pass after the morning fetch's time ended
    lost,       \* chains that were lost without an error
    empty       \* <<s, i, p>>: the pull of pass p was answered nothing for s in slot i

vars == <<clock, pc, now, at, state, file, store, bars, token, faults, crashes,
          settled, attempt, passed, awake, lost, empty>>
told == <<settled, attempt, passed, awake, lost, empty>>

Tasks == {"chain_am", "chain_pm"}
NextStep == [chain_am |-> "chain_pm", chain_pm |-> "dashboard"]
FetchAt == [chain_am |-> Pre, chain_pm |-> Post]
At(t) == 5 * t.day + t.slot
session_phase(t) ==
    IF t.day \in Weekend THEN "WEEKEND"
    ELSE <<"CLOSED", "PRE", "REGULAR", "POST", "CLOSED">>[t.slot + 1]
OpenNow == session_phase(now) \in {"PRE", "REGULAR", "POST"}
TradingTimes == {5 * d + s : d \in Days \ Closed, s \in {Pre, Regular, Post}}

Fresh == [chain_am |-> 0, chain_pm |-> 0, bars |-> 0, dashboard |-> 0]

Init ==
    /\ clock = [day |-> 1, slot |-> Night] /\ now = clock
    /\ pc = "down" /\ at = 1
    /\ state = Fresh /\ file = Fresh
    /\ store = EmptyStore
    /\ bars = [s \in Underlyings |-> {}]
    /\ token \in {[kind |-> k, created |-> 0, written |-> 0] : k \in FirstTokens}
    /\ faults = 0 /\ crashes = 0
    /\ settled = FALSE
    /\ attempt = [d \in Days |-> "none"]
    /\ passed = {} /\ awake = {} /\ lost = {} /\ empty = {}

Failures(n) == faults + n <= MaxFaults /\ faults' = faults + n
Fault == Failures(1)

\* save() replaces the file at once, or only warns, after a step in which n
\* calls have failed.
save(s, n) ==
    /\ state' = s
    /\ \/ file' = s /\ Failures(n)
       \/ file' = file /\ Failures(n + 1)

\* A failing step records its error and saves; the marks stay.
error(n) == save(state, n)

Start ==
    /\ pc = "down"
    /\ \/ state' = file /\ UNCHANGED faults
       \/ state' = Fresh /\ Fault      \* the file is unreadable
    /\ file' = state' /\ pc' = "sleep"
    /\ UNCHANGED <<clock, now, at, store, bars, token, crashes, told>>

Beat ==
    /\ pc = "sleep" /\ pc' = "bars"
    /\ now' = clock
    /\ save(state, 0)
    /\ UNCHANGED <<clock, at, store, bars, token, crashes, told>>

_due_interval(task) == At(now) - state[task] >= 1
_due_daily_Once(task) ==      \* mutant: a mark counts whatever its date
    /\ now.slot >= FetchAt[task] /\ now.day \notin Weekend
    /\ state[task] = 0

_due_daily(task) ==
    /\ now.slot >= FetchAt[task] /\ now.day \notin Weekend
    /\ state[task] # now.day

\* A pull asks for windows of a day each, the oldest first. Window w reaches
\* from this time w days ago to this time w - 1 days ago, the middles of slots.
Windows == Underlyings \X (1 .. BarDays)
Window(w) == {i \in TradingTimes : At(clock) - 5 * w <= i /\ i <= At(clock) - 5 * (w - 1)}

Pulled_Today(ws) == {i \in TradingTimes : i < At(clock) /\ i > 5 * clock.day}      \* mutant

\* The slots of which the windows ws hold everything: finished ones, but not the
\* one in which the pull begins.
Pulled(ws) ==
    {i \in TradingTimes : /\ i < At(clock) /\ i > At(clock) - 5 * BarDays
                          /\ \A w \in 1 .. BarDays : i \in Window(w) => w \in ws}

\* Of the windows in got, which of s.
Of(got, s) == {w \in 1 .. BarDays : <<s, w>> \in got}
Finds(got) == \E g \in got : Window(g[2]) # {}
Before(k, v) ==
    {g \in Windows : \E j \in 1 .. k : Symbols[j] = g[1] /\ (j < k \/ g[2] > v)}

\* backfill_bars: symbol after symbol, window after window. An exception ends
\* it; a window answered with no bars does not, but finding none at all is an
\* error too.
BarsRun ==
    /\ pc = "bars" /\ OpenNow /\ _due_interval("bars") /\ pc' = "chain_am"
    /\ \E got \in SUBSET Windows :
          /\ \/ /\ Finds(got)
                /\ save([state EXCEPT !.bars = At(now)], Cardinality(Windows \ got))
                /\ passed' = passed \cup {At(clock)}
                /\ empty' = empty \cup {e \in Underlyings \X Pulled(1 .. BarDays) \X {At(clock)} :
                                            e[2] \notin Pulled(Of(got, e[1]))}
             \/ /\ ~Finds(got)
                /\ error(Cardinality(Windows \ got))
                /\ UNCHANGED <<passed, empty>>
             \/ \E k \in DOMAIN Symbols, v \in 1 .. BarDays :
                   /\ got \subseteq Before(k, v)
                   /\ error(1 + Cardinality(Before(k, v) \ got))
                   /\ UNCHANGED <<passed, empty>>
          /\ bars' = [s \in Underlyings |-> bars[s] \cup Pulled(Of(got, s))]
    /\ UNCHANGED <<clock, now, at, store, token, crashes, settled, attempt, awake, lost>>

BarsNotDue ==
    /\ pc = "bars" /\ ~(OpenNow /\ _due_interval("bars")) /\ pc' = "chain_am"
    /\ passed' = IF OpenNow THEN passed \cup {At(now)} ELSE passed
    /\ UNCHANGED <<clock, now, at, state, file, store, bars, token, faults, crashes,
                   settled, attempt, awake, lost, empty>>

ChainNotDue(task) ==
    /\ pc = task /\ at = 1 /\ ~_due_daily(task)
    /\ pc' = NextStep[task]
    /\ UNCHANGED <<clock, now, at, state, file, store, bars, token, faults, crashes, told>>

\* One run of fetch_option_chain that exits 0: the chain is stored under the
\* day the answer came, or the write failed and was only warned about.
Fetched(task, s) ==
    /\ HealthAllows(token, clock.day) /\ Accepted(token, clock.day)
    /\ token' = Renewed(token, clock.day)
    /\ \/ /\ store' = write_chain(store, clock.day, clock.slot, s, InRange[clock.day][clock.slot])
          /\ lost' = IF clock.day = now.day THEN lost
                     ELSE lost \cup {<<s, now.day, "chain">>, <<s, clock.day, "night">>}
          /\ UNCHANGED faults
       \/ Fault /\ lost' = lost \cup {<<s, now.day, "chain">>} /\ UNCHANGED store
    /\ at' = at + 1
    /\ attempt' = [attempt EXCEPT ![now.day] = "cut"]
    /\ UNCHANGED <<pc, state, file>>

\* A run that exits with an error, or is killed by the timeout, perhaps after
\* it stored the chain: run_chain stops there.
Failed(task, s) ==
    /\ \/ /\ ~(HealthAllows(token, clock.day) /\ Accepted(token, clock.day))
          /\ UNCHANGED <<store, token, lost>> /\ error(0)
       \/ /\ error(1) /\ token' = Renewed(token, clock.day)
          /\ HealthAllows(token, clock.day) /\ Accepted(token, clock.day)
          /\ \/ UNCHANGED <<store, lost>>
             \/ /\ store' = write_chain(store, clock.day, clock.slot, s, InRange[clock.day][clock.slot])
                /\ lost' = IF clock.day = now.day THEN lost
                           ELSE lost \cup {<<s, clock.day, "night">>}
    /\ at' = 1 /\ pc' = NextStep[task]
    /\ attempt' = [attempt EXCEPT ![now.day] = "failed"]

run_chain(task) ==
    /\ pc = task /\ (at > 1 \/ _due_daily(task)) /\ at <= Len(Symbols)
    /\ Fetched(task, Symbols[at]) \/ Failed(task, Symbols[at])
    /\ UNCHANGED <<clock, now, bars, crashes, settled, passed, awake, empty>>

MarkChain(task) ==
    /\ pc = task /\ at > Len(Symbols)
    /\ save([state EXCEPT ![task] = now.day], 0)
    /\ at' = 1 /\ pc' = NextStep[task]
    /\ attempt' = [attempt EXCEPT ![now.day] = "done"]
    /\ UNCHANGED <<clock, now, store, bars, token, crashes, settled, passed, awake, lost, empty>>

\* The dashboard of a symbol without any stored chain exits with an error.
run_dashboard ==
    /\ pc = "dashboard" /\ pc' = "sleep"
    /\ LET due == OpenNow /\ _due_interval("dashboard")
           drawn == \A s \in Underlyings : sessions(store, s) # {}
       IN  \/ ~due /\ UNCHANGED <<state, file, faults>>
           \/ due /\ drawn /\ save([state EXCEPT !.dashboard = At(now)], 0)
           \/ due /\ error(IF drawn THEN 1 ELSE 0)
    /\ settled' = (settled \/ now = clock)
    /\ awake' = IF now.slot >= Pre THEN awake \cup {now.day} ELSE awake
    /\ UNCHANGED <<clock, now, at, store, bars, token, crashes, attempt, passed, lost, empty>>

\* A stop signal, which is obeyed after the pass, or the end of the process anywhere.
Crash ==
    /\ pc # "down" /\ crashes < MaxCrashes /\ crashes' = crashes + 1
    /\ pc' = "down" /\ at' = 1
    /\ UNCHANGED <<clock, now, state, file, store, bars, token, faults, told>>

\* scripts/schwab_login.py, run by hand in the session when health() asks for it.
Login ==
    /\ clock.slot = Regular /\ auth_state(token, clock.day) # "OK"
    /\ token' = LoggedIn(clock.day)
    /\ UNCHANGED <<clock, pc, now, at, state, file, store, bars, faults, crashes, told>>

Tick ==
    /\ pc = "down" \/ (settled /\ pc \in {"sleep"} \cup Tasks)
    /\ \/ clock.slot < Evening /\ clock' = [clock EXCEPT !.slot = @ + 1]
       \/ clock.slot = Evening /\ clock.day + 1 \in Days
          /\ clock' = [day |-> clock.day + 1, slot |-> Night]
    /\ settled' = FALSE
    /\ UNCHANGED <<pc, now, at, state, file, store, bars, token, faults, crashes,
                   attempt, passed, awake, lost, empty>>

Next ==
    \/ Start \/ Beat \/ BarsRun \/ BarsNotDue
    \/ \E task \in Tasks : ChainNotDue(task) \/ run_chain(task) \/ MarkChain(task)
    \/ run_dashboard
    \/ Crash \/ Login \/ Tick

Spec == Init /\ [][Next]_vars

-------------------------------------------------------------------------------
\* A day is over once its last slot has seen a whole pass, or is past.
Over(d) == d < clock.day \/ (d = clock.day /\ clock.slot = Evening /\ settled)
HasSession(d, s) == store.fetches[d][s].count > 0

(***************************************************************************)
(* A weekday whose chains are missing for a symbol is one on which no pass *)
(* ended after the morning fetch's time, or the last attempt failed or was *)
(* cut off by the end of the process, or the chain was lost while being    *)
(* stored: a mark, a restart or a stale state file alone never makes the   *)
(* collector skip a day (main's loop, _due_daily, State).                  *)
(***************************************************************************)
HolesAreExplained ==
    \A d \in Days \ Weekend, s \in Underlyings :
        (Over(d) /\ ~HasSession(d, s)) =>
            \/ d \notin awake
            \/ attempt[d] \in {"failed", "cut"}
            \/ <<s, d, "chain">> \in lost

(***************************************************************************)
(* The open-interest change of two stored sessions is the change between   *)
(* the closes it is labelled with, whatever was fetched twice, late or in  *)
(* part; only a fetch that was still under way at midnight stores a figure *)
(* under the wrong day (write_chain, oi_change, _prior_trading_close).     *)
(***************************************************************************)
DiffsAreOfTheirCloses ==
    \A s \in Underlyings, d \in Days :
        LET prior == prior_session(store, s, d)
        IN  {<<s, d, "night">>, <<s, prior, "night">>} \cap lost = {} =>
               \A r \in oi_change(store, s, d) : r.from = r.prior_close /\ r.to = r.as_of_close

(***************************************************************************)
(* Where the report calls a session's volume final, every row taken before *)
(* the close is of a contract the session's last fetch no longer saw       *)
(* (volume_basis over the rows write_chain left).                          *)
(***************************************************************************)
FinalVolumeIsFinal ==
    \A s \in Underlyings, d \in Days :
        volume_basis(store, s, d) = "final" =>
            \A c \in snapshot(store, s, d) :
                \/ store.rows[d][s][c].slot >= Post
                \/ c \notin InRange[d][store.fetches[d][s].slot]

(* Both: what is read off the stored snapshots is what they say it is.     *)
SnapshotsMeanWhatTheySay == DiffsAreOfTheirCloses /\ FinalVolumeIsFinal

(***************************************************************************)
(* A finished slot whose bars are not stored was not followed, before a    *)
(* pull begins after it, by a pass of an open session whose bars did not   *)
(* fail, but for passes whose own pull was silently answered nothing for   *)
(* that symbol and slot (main's loop, _due_interval, backfill_bars).       *)
(***************************************************************************)
TapeIsWhole ==
    \A p \in passed, i \in TradingTimes : \A s \in Underlyings :
        (i < p /\ p < i + 5 * BarDays) => i \in bars[s] \/ <<s, i, p>> \in empty

(***************************************************************************)
(* A token file that carries the day of its login is called usable only    *)
(* while Schwab accepts it, however often the access token was renewed     *)
(* (read_token_file, auth_state).                                          *)
(***************************************************************************)
OkMeansAccepted ==
    (HealthAllows(token, clock.day) /\ age_source(token) = "creation_timestamp")
        => Accepted(token, clock.day)
===============================================================================
