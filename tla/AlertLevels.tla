----------------------------- MODULE AlertLevels -----------------------------
(***************************************************************************)
(* scripts/alert.py: the state machine of one price level. It advances by  *)
(* distinct snapshots of the watcher's file and reports a break once the   *)
(* whole book has been beyond the level for Confirm snapshots, with enough *)
(* shares traded per unit of time since the crossing began.                *)
(*                                                                         *)
(* A snapshot is [t, book, volume]: book tells where bid and ask are       *)
(* relative to the level, volume is the day's total or None.               *)
(***************************************************************************)
EXTENDS Integers, Sequences, FiniteSets

CONSTANTS
    Confirm,   \* distinct snapshots beyond the level (--confirm)
    MinPace,   \* shares per unit of time (--min-pace)
    Grace,     \* undecided snapshots in a row that are tolerated (--straddle-grace)
    Cooldown,  \* time between two breaks of a level (--cooldown)
    None

ASSUME LevelAssumption ==
    /\ Confirm \in Nat /\ MinPace \in Nat /\ Grace \in Nat /\ Cooldown \in Nat
    /\ None \notin Int /\ None # "above" /\ None # "below"

NewLevel == [side |-> None, pending |-> None, snaps |-> 0, straddles |-> 0,
             vol_at_cross |-> None, t_at_cross |-> None, last_fire |-> -Cooldown]

\* The side of a whole book beyond the level; None while the level is inside the
\* spread or a side of the book is missing ("over", "under"), or there is no quote
\* ("none").
classify(s) == IF s.book \in {"above", "below"} THEN s.book ELSE None

\* The side of the middle of the book, or of the last trade without a whole book:
\* at or above the level for "over", below it for "under".
mid(s) == CASE s.book = "none" -> None
            [] s.book \in {"above", "over"} -> "above"
            [] OTHER -> "below"

reset(lv) == [NewLevel EXCEPT !.side = lv.side, !.last_fire = lv.last_fire]

\* Python's "or": a total of zero counts as unknown.
Or(v, w) == IF v = None \/ v = 0 THEN w ELSE v
Traded(lv, s) == Or(s.volume, 0) - Or(lv.vol_at_cross, Or(s.volume, 0))

Undecided(lv) ==
    IF lv.pending = None THEN lv
    ELSE IF lv.straddles + 1 > Grace THEN reset(lv)
    ELSE [lv EXCEPT !.straddles = @ + 1]

BeginCross(lv, cand, s) ==
    [lv EXCEPT !.pending = cand, !.snaps = 1, !.straddles = 0,
               !.vol_at_cross = s.volume, !.t_at_cross = s.t]

\* The level after one more snapshot beyond it: reported, or still pending.
Confirmed(lv, s, now) ==
    /\ lv.snaps + 1 >= Confirm
    /\ Traded(lv, s) >= MinPace * (s.t - lv.t_at_cross)
    /\ now - lv.last_fire >= Cooldown

Confirming(lv, cand, s, now) ==
    IF Confirmed(lv, s, now)
    THEN [reset(lv) EXCEPT !.side = cand, !.last_fire = now]
    ELSE [lv EXCEPT !.snaps = @ + 1, !.straddles = 0]

step_level_NoReturn(lv, s, now) ==      \* mutant: a book back on the old side ends no crossing
    LET cand == classify(s)
    IN  CASE lv.side = None -> [lv EXCEPT !.side = mid(s)]
          [] lv.side # None /\ cand = None -> Undecided(lv)
          [] lv.side # None /\ cand # None /\ cand = lv.side -> [lv EXCEPT !.straddles = 0]
          [] lv.side # None /\ cand # None /\ cand # lv.side /\ lv.pending # cand ->
                BeginCross(lv, cand, s)
          [] OTHER -> Confirming(lv, cand, s, now)

step_level(lv, s, now) ==
    LET cand == classify(s)
    IN  CASE lv.side = None -> [lv EXCEPT !.side = mid(s)]
          [] lv.side # None /\ cand = None -> Undecided(lv)
          [] lv.side # None /\ cand # None /\ cand = lv.side -> reset(lv)
          [] lv.side # None /\ cand # None /\ cand # lv.side /\ lv.pending # cand ->
                BeginCross(lv, cand, s)
          [] OTHER -> Confirming(lv, cand, s, now)

\* Whether a step reported a break.
Fires(before, after) == before.side # None /\ after.side # before.side

-------------------------------------------------------------------------------
(***************************************************************************)
(* The same without a state machine, over the tape of all snapshots so far.*)
(* The crossing under way began with the first snapshot beyond the level   *)
(* after the last one that ended a crossing: a book back on the old side,  *)
(* one undecided snapshot too many, or the last break.                     *)
(***************************************************************************)
EndsCrossing(tape, i, side) ==
    \/ classify(tape[i]) = side
    \/ i > Grace /\ \A j \in i - Grace .. i : classify(tape[j]) = None

Crossing(tape, from, side) ==
    {i \in from + 1 .. Len(tape) :
        /\ classify(tape[i]) \notin {None, side}
        /\ \A j \in i .. Len(tape) : ~EndsCrossing(tape, j, side)}

\* A break is due with the last snapshot: enough distinct ones beyond the level,
\* and enough shares traded since the first of them.
Earned(tape, from, side) ==
    LET C == Crossing(tape, from, side)
        last == tape[Len(tape)]
    IN  /\ Len(tape) \in C
        /\ \E first \in C :
              /\ \A i \in C : first <= i
              /\ last.t > tape[first].t
              /\ last.traded - tape[first].traded >= MinPace * (last.t - tape[first].t)
        /\ Cardinality({tape[i].t : i \in C}) >= Confirm
===============================================================================
