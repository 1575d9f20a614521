--------------------------- MODULE OrderLifecycle ---------------------------
(***************************************************************************)
(* What the account and the orders table promise about each order of the   *)
(* program. Orders are accepted one after another, none while the row of   *)
(* an earlier one is owed. What was ordered never changes; the order rests *)
(* at the broker, becomes a lot, is over, and never goes back. It gets one *)
(* row, which is never rewritten: one that shows it as submitted, unless   *)
(* the broker's answer, the write of the row or the process was lost, and  *)
(* each such loss is a mishap of its own.                                  *)
(***************************************************************************)
EXTENDS Naturals

CONSTANTS
  Ids,    \* the orders, numbered as they are accepted
  Terms   \* what an order may ask for

VARIABLES
  book,    \* per order: its terms, its life at the broker, its row
  mishaps  \* calls and writes that failed, and crashes

Lives == {"resting", "lot", "over"}
Unsent == [life |-> "unsent"]
Accepted(terms, row) == [life |-> "resting", terms |-> terms, row |-> row]

Sent == {i \in Ids : book[i].life # "unsent"}
Owed == {i \in Sent : book[i].row \in {"answered", "unanswered"}}

\* The row that an order gets from a program that is still there.
RowOf(owed) == IF owed = "answered" THEN "submitted" ELSE "failed"

Init ==
  /\ book = [i \in Ids |-> Unsent]
  /\ mishaps = 0

Accept(i, terms) ==
  /\ i \notin Sent /\ \A j \in Ids : j < i => j \in Sent
  /\ Owed = {}
  /\ \/ book' = [book EXCEPT ![i] = Accepted(terms, "answered")] /\ UNCHANGED mishaps
     \/ book' = [book EXCEPT ![i] = Accepted(terms, "unanswered")] /\ mishaps' = mishaps + 1

Record(i) ==
  /\ i \in Owed
  /\ book' = [book EXCEPT ![i].row = RowOf(@)]
  /\ UNCHANGED mishaps

\* The program dies or fails to write: the row that was owed never is.
Lose ==
  /\ book' = [i \in Ids |-> IF i \in Owed THEN [book[i] EXCEPT !.row = "lost"] ELSE book[i]]
  /\ mishaps' = mishaps + 1

MayFail == mishaps' \in {mishaps, mishaps + 1}

\* No order changes.
Pass == UNCHANGED book /\ MayFail

\* The market, the broker or the program moves any orders on.
Moves == {<<"resting", "lot">>, <<"resting", "over">>, <<"lot", "over">>}
              \cup {<<life, life>> : life \in Lives}
Later(o) == {[o EXCEPT !.life = life] : life \in {l \in Lives : <<o.life, l>> \in Moves}}
Trade ==
  /\ DOMAIN book' = Ids
  /\ \A i \in Ids : book'[i] \in IF i \in Sent THEN Later(book[i]) ELSE {Unsent}
  /\ MayFail

Next ==
  \/ Pass
  \/ Trade
  \/ \E i \in Ids, terms \in Terms : Accept(i, terms)
  \/ \E i \in Ids : Record(i)
  \/ Lose

Spec == Init /\ [][Next]_<<book, mishaps>>
=============================================================================
