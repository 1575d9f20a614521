------------------------------ MODULE ChainStore ------------------------------
(***************************************************************************)
(* The option-chain tables of data/chain_store.py and what its readers     *)
(* compute from them: the open-interest change between two sessions, and   *)
(* scripts/oi_report.py's verdict on a session's volume column.            *)
(*                                                                         *)
(* A row keeps, of a contract's figures, the close its open interest       *)
(* belongs to and the slot of the day it was fetched in, from which its    *)
(* volume follows. A difference of open interest is then the pair of       *)
(* closes it was taken between.                                            *)
(***************************************************************************)
EXTENDS Integers, FiniteSets, FiniteSetsExt

CONSTANTS
    Symbols,    \* the sequence of symbols the collector was started with
    Contracts,  \* the contracts of each symbol
    Days,       \* the calendar days modelled, 1 .. n
    Closed      \* the days the market does not trade

ASSUME StoreAssumption ==
    /\ 1 \in Days /\ Days \subseteq Nat \ {0}
    /\ IsFiniteSet(Contracts)

\* The slots of a day: before 04:00, 08:00, 09:30, 16:15 and 20:00 onwards.
Night == 0   Pre == 1   Regular == 2   Post == 3   Evening == 4
Slots == Night .. Evening

Underlyings == {Symbols[i] : i \in DOMAIN Symbols}

NoRow == [close |-> -1, slot |-> -1]
NoFetch == [count |-> 0, slot |-> -1]

EmptyStore ==
    [rows    |-> [d \in Days |-> [s \in Underlyings |-> [c \in Contracts |-> NoRow]]],
     fetches |-> [d \in Days |-> [s \in Underlyings |-> NoFetch]]]

\* The last close before day d; 0 is the close before the first day.
CloseBefore(d) == Max({0} \cup {t \in Days \ Closed : t < d})

\* The close whose open interest the vendor shows: a close is disseminated in
\* the morning of the next calendar day.
ShownClose(d, slot) == CloseBefore(IF slot = Night THEN d - 1 ELSE d)

write_chain_Ignores(store, d, slot, s, seen) ==      \* mutant: a stored row is never updated
    [store EXCEPT
        !.rows[d][s] = [c \in Contracts |->
            IF c \in seen /\ @[c] = NoRow
            THEN [close |-> ShownClose(d, slot), slot |-> slot] ELSE @[c]],
        !.fetches[d][s] = [count |-> Cardinality(seen), slot |-> slot]]

\* The rows of the contracts a fetch saw are replaced; the session's other rows stay.
write_chain(store, d, slot, s, seen) ==
    [store EXCEPT
        !.rows[d][s] = [c \in Contracts |->
            IF c \in seen THEN [close |-> ShownClose(d, slot), slot |-> slot] ELSE @[c]],
        !.fetches[d][s] = [count |-> Cardinality(seen), slot |-> slot]]

sessions(store, s) == {d \in Days : store.fetches[d][s].count > 0}
prior_session(store, s, d) == Max({0} \cup {e \in sessions(store, s) : e < d})
latest_session(store, s) == Max({0} \cup sessions(store, s))
snapshot(store, s, d) == {c \in Contracts : store.rows[d][s][c] # NoRow}

\* The contracts stored on both days, each with the two closes it is a difference of.
oi_change(store, s, d) ==
    LET prior == prior_session(store, s, d)
    IN  IF d = 0 \/ prior = 0 THEN {}
        ELSE {[contract |-> c,
               from |-> store.rows[prior][s][c].close, to |-> store.rows[d][s][c].close,
               prior_close |-> CloseBefore(prior), as_of_close |-> CloseBefore(d)] :
                  c \in snapshot(store, s, d) \cap snapshot(store, s, prior)}

new_contracts(store, s, d) ==
    LET prior == prior_session(store, s, d)
    IN  IF d = 0 \/ prior = 0 THEN {} ELSE snapshot(store, s, d) \ snapshot(store, s, prior)

\* The newest fetch of a session's rows decides what its volume column means.
volume_basis(store, s, d) ==
    LET newest == Max({store.rows[d][s][c].slot : c \in snapshot(store, s, d)} \cup {-1})
    IN  CASE newest = -1 -> "unknown"
          [] newest \in {Night, Pre} -> "premarket"
          [] newest = Regular -> "intraday"
          [] OTHER -> "final"
===============================================================================
