------------------------------ MODULE MCReplay ------------------------------
(* Constants of Replay and of ReplayReport for TLC. They are looked at in    *)
(* turn: a behaviour walks the days of one replay, or follows the database   *)
(* of several and what is reported of them.                                  *)
EXTENDS Replay, ReplayReport

CONSTANTS a, b
MCOrder == <<a, b>>

Bar(o, l, h, c) == [open |-> o, low |-> l, high |-> h, close |-> c]
Flat(price) == Bar(price, price, price, price)

\* a: a calm day, a drop through the stop of a long, and a rise on a half day.
\* b: a gap past the stop of a short, to a price at which buying it back costs
\* more than there is, and a drop.
MCSeries == [t \in {a, b} |->
  IF t = a
    THEN {<<Flat(20000), Flat(20000), Flat(20000)>>,
          <<Flat(20000), Bar(20000, 18000, 20000, 18000), Flat(18000)>>,
          <<Flat(20000), Bar(20000, 20000, 22000, 22000), NONE>>}
    ELSE {<<Flat(62000), Flat(62000), Flat(300000)>>,
          <<Flat(62000), Bar(62000, 40000, 62000, 40000), Flat(40000)>>}]

\* A bull day and a bear day.
MCRegime == [n \in 1 .. ReportDays |-> IF n = 1 THEN "bull" ELSE "bear"]

VARIABLE part
MCInit == Init /\ ReportInit /\ part \in {"walk", "report"}
          /\ (part = "report" => fill_at = "current_close")
MCNext == /\ \/ part = "walk" /\ Next /\ UNCHANGED reportVars
             \/ part = "report" /\ ReportNext /\ UNCHANGED vars
          /\ UNCHANGED part
MCSpec == MCInit /\ [][MCNext]_<<vars, reportVars, part>>
=============================================================================
