----------------------------- MODULE MCCollector -----------------------------
(***************************************************************************)
(* A Friday, a Saturday and a Monday, two symbols.                         *)
(***************************************************************************)
EXTENDS Collector

MCSymbols == <<"s1", "s2">>
MCDays == 1 .. 3
MCWeekend == {2}

CONSTANTS c1, c2
MCContracts == {c1, c2}
MCFirstTokens == {"full", "undated"}
\* The range grows during Friday and leaves c1 during Monday.
MCInRange == [d \in MCDays |-> [slot \in Slots |->
    CASE d = 1 /\ slot <= Pre -> {c1}
      [] d = 3 /\ slot > Pre -> {c2}
      [] OTHER -> {c1, c2}]]
===============================================================================
