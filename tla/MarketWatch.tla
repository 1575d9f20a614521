----------------------------- MODULE MarketWatch -----------------------------
(***************************************************************************)
(* scripts/watch.py and scripts/alert.py: the watcher polls Schwab and     *)
(* Alpaca for one symbol and replaces a file with what it got; the alerter *)
(* reads the file on its own clock and advances the state machine of each  *)
(* level (AlertLevels) by the snapshots it has not seen. The two share     *)
(* nothing but the file. One level is modelled; levels do not interact.    *)
(***************************************************************************)
EXTENDS AlertLevels

CONSTANTS
    Jump,       \* shares traded in a busy unit of time; none in a quiet one
    AlpacaPart, \* Alpaca's total counts one share in so many
    Around,     \* the books around the level there are: its middle may be on either side
    Stall,      \* reads without a new snapshot before a stall is reported
    MaxPolls,   \* bound on the polls of the watcher
    MaxMishaps  \* bound on failures: of requests, of writes, of the watcher, missed snapshots

ASSUME WatchAssumption ==
    /\ Jump \in Nat /\ AlpacaPart \in Nat \ {0}
    /\ Around \subseteq {"over", "under"}
    /\ Stall \in Nat /\ MaxPolls \in Nat /\ MaxMishaps \in Nat
    /\ None \notin {"schwab", "alpaca"}

VARIABLES
    time, traded,   \* polls so far, shares traded so far
    watcher,        \* "up" or "dead"
    doc,            \* the file: a snapshot and the vendor it came from
    series,         \* the watcher's series of (time, book, Schwab's total)
    mishaps,
    alerter,        \* "off", "up" or "dead"
    level,
    last_epoch, age, stall_fired,
    tape,           \* every snapshot the level was advanced by
    fires           \* the positions in the tape that reported a break

market == <<time, traded, watcher, doc, series, mishaps>>
alerts == <<alerter, level, last_epoch, age, stall_fired, tape, fires>>
watchVars == <<market, alerts>>

NoDoc == [t |-> 0, book |-> "none", volume |-> None, from |-> None, traded |-> 0, read |-> 0]

WatchInit ==
    /\ time = 0 /\ traded = 0
    /\ watcher = "up" /\ doc = NoDoc /\ series = <<>> /\ mishaps = 0
    /\ alerter = "off" /\ level = NewLevel
    /\ last_epoch = 0 /\ age = 0 /\ stall_fired = FALSE
    /\ tape = <<>> /\ fires = {}

\* What parse_snapshot makes of the file: Schwab's quote, or Alpaca's if there
\* is none, or nothing; a Schwab total of zero reads as no volume.
Snapshot(book, total, from) ==
    [t |-> time', traded |-> total, from |-> from, read |-> 0,
     book |-> IF from = None THEN "none" ELSE book,
     volume |-> CASE from = "schwab" -> Or(total, None)
                  [] from = "alpaca" -> total \div AlpacaPart
                  [] OTHER -> None]

IsFresh == doc.t # last_epoch

\* Reads since the last new snapshot.
Age_EveryRead == 0      \* mutant: seen_at is taken at every read
Age == IF IsFresh THEN 0 ELSE age + 1

\* A failed replacement keeps the last file.
_write_atomic(snapshot, written) == doc' = IF written THEN snapshot ELSE doc

\* One pass of the watcher's loop. A failed request leaves the other vendor's quote.
\* The alerter reads more often than the watcher writes: to miss a snapshot is a fault.
Poll ==
    /\ watcher = "up" /\ time < MaxPolls /\ time' = time + 1
    /\ traded' \in {traded, traded + Jump}
    /\ \E book \in {"above", "below"} \cup Around, from \in {"schwab", "alpaca", None},
          written \in BOOLEAN :
          /\ mishaps' = mishaps + Cardinality({f \in 1 .. 3 :
                            \/ f = 1 /\ from # "schwab"
                            \/ f = 2 /\ ~written
                            \/ f = 3 /\ alerter = "up" /\ IsFresh})
          /\ mishaps' <= MaxMishaps
          /\ _write_atomic(Snapshot(book, traded', from), written)
          /\ series' = IF from = None THEN series
                       ELSE Append(series, [t |-> time', book |-> book,
                                            volume |-> IF from = "schwab" THEN traded' ELSE None])
    /\ UNCHANGED <<watcher, alerts>>

WatcherDies ==
    /\ watcher = "up" /\ doc # NoDoc
    /\ watcher' = "dead"
    /\ mishaps < MaxMishaps /\ mishaps' = mishaps + 1
    /\ UNCHANGED <<time, traded, doc, series, alerts>>

AlertStarts ==
    /\ alerter = "off" /\ doc # NoDoc
    /\ alerter' = "up"
    /\ UNCHANGED <<market, level, last_epoch, age, stall_fired, tape, fires>>

\* A line of the heartbeat cannot be formatted without a volume, which ends the
\* alerter; it is due on the first pass and now and then.
Heartbeat ==
    \/ alerter' = "up" /\ ~(doc.volume = None /\ tape = <<>>)
    \/ alerter' = "dead" /\ doc.volume = None

\* A pass that finds a new snapshot.
ReadsFresh ==
    /\ alerter = "up" /\ IsFresh
    /\ last_epoch' = doc.t /\ age' = Age /\ stall_fired' = FALSE
    /\ level' = step_level(level, doc, time)
    /\ tape' = Append(tape, [doc EXCEPT !.read = time])
    /\ fires' = fires \cup (IF Fires(level, level') THEN {Len(tape')} ELSE {})
    /\ Heartbeat
    /\ UNCHANGED market

\* A pass that finds the snapshot it knows: a stall is reported once. A watcher that
\* runs writes again before that.
ReadsAgain ==
    /\ alerter = "up" /\ ~IsFresh
    /\ ~stall_fired /\ (watcher = "up" => age < Stall)
    /\ age' = Age
    /\ stall_fired' = (stall_fired \/ age' > Stall)
    /\ Heartbeat
    /\ UNCHANGED <<market, level, last_epoch, tape, fires>>

\* A pass that cannot read the file ends there, before the stall check.
ReadFails ==
    /\ alerter = "up" /\ age' = age + 1
    /\ mishaps < MaxMishaps /\ mishaps' = mishaps + 1
    /\ UNCHANGED <<time, traded, watcher, doc, series, alerter, level, last_epoch,
                   stall_fired, tape, fires>>

WatchNext == Poll \/ WatcherDies \/ AlertStarts \/ ReadsFresh \/ ReadsAgain \/ ReadFails

WatchSpec == WatchInit /\ [][WatchNext]_watchVars

(* The alerter's loop runs on its own; nothing makes the watcher poll or a user start it. *)
FairWatch == WatchSpec /\ WF_watchVars(ReadsFresh \/ ReadsAgain)

-------------------------------------------------------------------------------
\* Where the tape's crossing may have begun: the baseline or the break before the last snapshot.
Baseline == CHOOSE i \in DOMAIN tape :
    tape[i].book # "none" /\ \A j \in 1 .. i - 1 : tape[j].book = "none"
Since == LET E == fires \ {Len(tape)} IN
    IF E = {} THEN Baseline ELSE CHOOSE i \in E : \A j \in E : j <= i
SideBefore ==
    IF Len(tape) \notin fires THEN level.side
    ELSE IF level.side = "above" THEN "below" ELSE "above"

Cooled ==
    \/ fires \subseteq {Len(tape)}
    \/ tape[Len(tape)].read - tape[Since].read >= Cooldown

\* Totals can be compared if one vendor gave both ends of a crossing, and not zero.
Comparable ==
    \A i \in Since .. Len(tape) : tape[i].from = "schwab" /\ tape[i].traded > 0

(***************************************************************************)
(* A break is reported with exactly the snapshots that earn it, counted    *)
(* over the tape from scratch: the whole book beyond the level in Confirm  *)
(* distinct snapshots, no return and no long straddle in between, and the  *)
(* shares that really traded since the crossing began at MinPace or more,  *)
(* if one vendor gave all the totals, and not within the cooldown          *)
(* (step_level and its feeding in main).                                   *)
(***************************************************************************)
BreaksAreEarned ==
    (tape # <<>> /\ level.side # None /\ Comparable) =>
        (Len(tape) \in fires <=> Earned(tape, Since, SideBefore) /\ Cooled)

\* --replay: the levels that the series takes a new one through, on the tape's own time.
ReplayedLevel[n \in 0 .. Len(series)] ==
    IF n = 0 THEN NewLevel ELSE step_level(ReplayedLevel[n - 1], series[n], series[n].t)

Replayed(n) ==
    {series[k].t : k \in {j \in 1 .. n : Fires(ReplayedLevel[j - 1], ReplayedLevel[j])}}

(***************************************************************************)
(* A replay of the watcher's series reports the breaks the alerter         *)
(* reported, if it read every snapshot at once, all totals from Schwab:    *)
(* thresholds found by a replay are valid for live alerts (alert.replay).  *)
(***************************************************************************)
ReplayAgrees ==
    (/\ {tape[i].t : i \in DOMAIN tape} = {series[i].t : i \in DOMAIN series}
     /\ \A i \in DOMAIN tape : tape[i].from = "schwab" /\ tape[i].read = tape[i].t)
        => Replayed(Len(series)) = {tape[i].t : i \in fires}

BreaksFollowTheTape == BreaksAreEarned /\ ReplayAgrees

(***************************************************************************)
(* A watcher that died is reported as a stalled feed, unless the last      *)
(* thing it wrote had no volume (main's stall check).                      *)
(***************************************************************************)
StallIsTold ==
    (watcher = "dead" /\ alerter = "up" /\ doc.volume # None) ~> stall_fired
===============================================================================
