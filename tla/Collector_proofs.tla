--------------------------- MODULE Collector_proofs ---------------------------
(***************************************************************************)
(* Theorems about Collector, for every calendar, every set of symbols and  *)
(* contracts, every range of strikes a fetch may see, every age of a token *)
(* and every number of failures and restarts; and about MarketWatch, for   *)
(* all thresholds of a level, any trade, polls, missed snapshots, failures *)
(* and a death of the watcher or the alerter.                              *)
(***************************************************************************)
EXTENDS Collector, MarketWatch, Sums

-----------------------------------------------------------------------------
(* Closes and sessions.                                                    *)

\* The closes that CloseBefore names are days, or the 0 before the first.
LEMMA CloseType ==
  ASSUME NEW d \in Int
  PROVE  CloseBefore(d) \in {0} \cup Days
<1> DEFINE S == {0} \cup {t \in Days \ Closed : t < d}
<1>0. \A t \in Days : t \in Int
  BY StoreAssumption
<1>1. S \in SUBSET Int /\ S # {}
  BY <1>0
<1>2. \E b \in Int : \A x \in S : x <= b
  <2>1. CASE d > 0
    <3>1. \A x \in S : x <= d
      BY <1>0, <2>1
    <3> QED
      BY <3>1
  <2>2. CASE d <= 0
    <3>1. \A x \in S : x <= 0
      BY <1>0, <2>2
    <3> QED
      BY <3>1
  <2> QED
    BY <2>1, <2>2
<1>3. Max(S) \in S
  <2> HIDE DEF S
  <2> QED
    BY <1>1, <1>2, MaxOfBounded
<1> QED
  BY <1>3 DEF CloseBefore

\* The session before a day is one that was stored, or 0.
LEMMA PriorType ==
  ASSUME NEW s, NEW d \in Days
  PROVE  prior_session(store, s, d) \in {0} \cup sessions(store, s)
<1> DEFINE S == {0} \cup {e \in sessions(store, s) : e < d}
<1>1. \A e \in Days : e \in Int /\ e > 0
  BY StoreAssumption
<1>2. S \in SUBSET Int /\ S # {} /\ d \in Int /\ \A x \in S : x <= d
  <2>1. sessions(store, s) \subseteq Days
    BY DEF sessions
  <2> QED
    BY <1>1, <2>1
<1>3. Max(S) \in S
  <2> HIDE DEF S
  <2> QED
    BY <1>2, MaxOfBounded
<1> QED
  BY <1>3 DEF prior_session

-----------------------------------------------------------------------------
(* The types.                                                              *)

Times == [day : Days, slot : Slots]
Marks == [chain_am : Nat, chain_pm : Nat, bars : Nat, dashboard : Nat]
Rows == [close : Int, slot : {-1} \cup Slots]
Fetches == [count : Nat, slot : {-1} \cup Slots]
Stores == [rows    : [Days -> [Underlyings -> [Contracts -> Rows]]],
           fetches : [Days -> [Underlyings -> Fetches]]]
Steps == {"down", "sleep", "bars", "dashboard"} \cup Tasks
Ends == {"none", "cut", "failed", "done"}

PassType ==
  /\ clock \in Times /\ now \in Times
  /\ pc \in Steps /\ at \in 1 .. Len(Symbols) + 1
MarksType == state \in Marks /\ file \in Marks
StoreType == store \in Stores
TokenType == token \in [kind : TokenKinds, created : Nat, written : Nat]
TapeType == bars \in [Underlyings -> SUBSET TradingTimes] /\ passed \subseteq Nat
ToldType ==
  /\ settled \in BOOLEAN
  /\ attempt \in [Days -> Ends]
  /\ awake \subseteq Days
  /\ lost \subseteq Underlyings \X Nat \X {"chain", "night"}
  /\ empty \subseteq Underlyings \X TradingTimes \X Nat

TypeOK ==
  /\ PassType /\ MarksType /\ StoreType /\ TokenType /\ TapeType /\ ToldType
  /\ faults \in Nat /\ crashes \in Nat

\* What the constants are.
LEMMA Constants ==
  /\ Symbols \in Seq(Underlyings) /\ Len(Symbols) \in Nat
  /\ DOMAIN Symbols = 1 .. Len(Symbols)
  /\ \A i \in 1 .. Len(Symbols) : Symbols[i] \in Underlyings
  /\ \A s \in Underlyings : \E i \in 1 .. Len(Symbols) : s = Symbols[i]
  /\ 1 \in Days /\ \A d \in Days : d \in Nat /\ d >= 1
  /\ Slots = 0 .. 4
  /\ \A d \in Days, k \in Slots : InRange[d][k] \subseteq Contracts /\ InRange[d][k] # {}
  /\ BarDays \in Nat
<1>1. Symbols \in Seq(Underlyings) /\ BarDays \in Nat
  BY CollectorAssumption
<1>2. Len(Symbols) \in Nat /\ DOMAIN Symbols = 1 .. Len(Symbols)
  BY <1>1
<1>3. \A i \in 1 .. Len(Symbols) : Symbols[i] \in Underlyings
  BY <1>1, <1>2
<1>4. \A s \in Underlyings : \E i \in 1 .. Len(Symbols) : s = Symbols[i]
  BY <1>2, Zenon DEF Underlyings
<1>5. \A d \in Days, k \in Slots : InRange[d][k] \subseteq Contracts /\ InRange[d][k] # {}
  BY CollectorAssumption
<1> QED
  BY <1>1, <1>2, <1>3, <1>4, <1>5, StoreAssumption DEF Slots, Night, Evening
-----------------------------------------------------------------------------
(* What write_chain does to the tables, and save to the marks.             *)

\* A fetch replaces the rows of the contracts it saw, and its own entry.
LEMMA Written ==
  ASSUME NEW q \in Stores, NEW d \in Days, NEW k \in Slots, NEW s \in Underlyings,
         NEW seen \in SUBSET Contracts, seen # {}
  PROVE  LET w == write_chain(q, d, k, s, seen)
         IN  /\ w \in Stores
             /\ \A e \in Days, t \in Underlyings :
                  w.fetches[e][t] = IF e = d /\ t = s
                                    THEN [count |-> Cardinality(seen), slot |-> k]
                                    ELSE q.fetches[e][t]
             /\ \A e \in Days, t \in Underlyings, c \in Contracts :
                  w.rows[e][t][c] = IF e = d /\ t = s /\ c \in seen
                                    THEN [close |-> ShownClose(d, k), slot |-> k]
                                    ELSE q.rows[e][t][c]
             /\ Cardinality(seen) \in Nat \ {0}
<1> DEFINE w == write_chain(q, d, k, s, seen)
           new == [close |-> ShownClose(d, k), slot |-> k]
           fetch == [count |-> Cardinality(seen), slot |-> k]
<1>1. Cardinality(seen) \in Nat /\ Cardinality(seen) > 0
  <2>1. IsFiniteSet(seen)
    BY StoreAssumption, FS_Subset
  <2> QED
    BY <2>1, FS_CardinalityType, FS_EmptySet
<1>2. new \in Rows /\ fetch \in Fetches
  <2>1. ShownClose(d, k) \in Int
    BY CloseType, Constants DEF ShownClose
  <2> QED
    BY <1>1, <2>1 DEF Rows, Fetches
<1>3. PICK r : r = [c \in Contracts |-> IF c \in seen THEN new ELSE q.rows[d][s][c]]
  OBVIOUS
<1>4. w = [q EXCEPT !.rows[d][s] = r, !.fetches[d][s] = fetch]
  BY <1>3, Zenon DEF write_chain
<1> HIDE DEF w, new, fetch
<1>5. w.rows = [q.rows EXCEPT ![d][s] = r] /\ w.fetches = [q.fetches EXCEPT ![d][s] = fetch]
  BY <1>4 DEF Stores
<1>6. r \in [Contracts -> Rows]
  BY <1>2, <1>3 DEF Stores
<1>7. w \in Stores
  BY <1>2, <1>4, <1>6 DEF Stores
<1>8. \A e \in Days, t \in Underlyings :
        w.fetches[e][t] = IF e = d /\ t = s THEN fetch ELSE q.fetches[e][t]
  BY <1>2, <1>5 DEF Stores
<1>9. \A e \in Days, t \in Underlyings, c \in Contracts :
         w.rows[e][t][c] = IF e = d /\ t = s /\ c \in seen THEN new ELSE q.rows[e][t][c]
  BY <1>3, <1>5 DEF Stores
<1> QED
  BY <1>1, <1>7, <1>8, <1>9 DEF w, new, fetch

\* After save the marks are those saved, in the file those or the old ones.
LEMMA Saved ==
  ASSUME NEW s, NEW n, save(s, n)
  PROVE  state' = s /\ file' \in {s, file} /\ faults' \in {faults + n, faults + (n + 1)}
BY DEF save, Failures

\* A step that records an error leaves the marks; the file has them or stays.
LEMMA Erred ==
  ASSUME NEW n, error(n)
  PROVE  UNCHANGED state /\ file' \in {state, file} /\ faults' \in {faults + n, faults + (n + 1)}
BY Saved DEF error

\* The windows of a pull can be counted.
LEMMA WindowsCounted == \A S \in SUBSET Windows : Cardinality(S) \in Nat
<1>1. IsFiniteSet(1 .. Len(Symbols)) /\ IsFiniteSet(1 .. BarDays)
  BY Constants, FS_Interval
<1>2. Underlyings = {Symbols[i] : i \in 1 .. Len(Symbols)}
  BY Constants DEF Underlyings
<1>3. IsFiniteSet(Underlyings)
  <2> DEFINE f == [i \in 1 .. Len(Symbols) |-> Symbols[i]]
  <2>1. f \in Surjection(1 .. Len(Symbols), Underlyings)
    BY <1>2 DEF Surjection
  <2> QED
    BY <1>1, <2>1, FS_Surjection
<1> QED
  BY <1>1, <1>3, FS_Product, FS_Subset, FS_CardinalityType DEF Windows

\* A chain step leaves the store as it was, or writes one chain into it.
Stored(s) ==
  store' = write_chain(store, clock.day, clock.slot, s, InRange[clock.day][clock.slot])

\* What a chain step that has stored, or not, tells about it.
LEMMA FetchedEffect ==
  ASSUME NEW task, NEW s, Fetched(task, s)
  PROVE  /\ \/ /\ Stored(s) /\ UNCHANGED faults
               /\ lost' = IF clock.day = now.day THEN lost
                          ELSE lost \cup {<<s, now.day, "chain">>, <<s, clock.day, "night">>}
            \/ /\ UNCHANGED store /\ faults' = faults + 1
               /\ lost' = lost \cup {<<s, now.day, "chain">>}
         /\ token' = Renewed(token, clock.day)
         /\ at' = at + 1 /\ UNCHANGED <<pc, state, file>>
         /\ attempt' = [attempt EXCEPT ![now.day] = "cut"]
BY DEF Fetched, Fault, Failures, Stored

LEMMA FailedEffect ==
  ASSUME NEW task, NEW s, Failed(task, s)
  PROVE  /\ \/ UNCHANGED <<store, lost>>
            \/ /\ Stored(s)
               /\ lost' = IF clock.day = now.day THEN lost
                          ELSE lost \cup {<<s, clock.day, "night">>}
         /\ token' \in {token, Renewed(token, clock.day)}
         /\ faults' \in {faults + 0, faults + (0 + 1), faults + 1, faults + (1 + 1)}
         /\ at' = 1 /\ pc' = NextStep[task] /\ file' \in {file, state} /\ UNCHANGED state
         /\ attempt' = [attempt EXCEPT ![now.day] = "failed"]
<1>1. (\A n : error(n) => UNCHANGED state /\ file' \in {state, file}
                          /\ faults' \in {faults + n, faults + (n + 1)})
  BY Erred
<1> QED
  BY <1>1, Zenon DEF Failed, Stored
-----------------------------------------------------------------------------
(* The inductive invariant.                                                *)

Later(t, u) == t.day < u.day \/ (t.day = u.day /\ t.slot <= u.slot)

\* A pass reads its time once; it is on a chain only if the chain was due.
PassInv ==
  /\ Later(now, clock)
  /\ pc \notin Tasks => at = 1
  /\ pc = "bars" => now = clock
  /\ at > 1 => now.slot >= Pre /\ now.day \notin Weekend

\* Of every session the last fetch saw the latest rows; a row is of the close
\* before its day unless the fetch ran on past midnight.
SessionInv(d, s) ==
  LET last == store.fetches[d][s]
  IN  /\ last.count > 0 =>
           /\ last.slot \in Slots /\ Later([day |-> d, slot |-> last.slot], clock)
           /\ \A c \in InRange[d][last.slot] : store.rows[d][s][c].slot = last.slot
      /\ \A c \in Contracts : store.rows[d][s][c] # NoRow =>
           /\ last.count > 0 /\ store.rows[d][s][c].slot <= last.slot
           /\ store.rows[d][s][c].close = CloseBefore(d) \/ <<s, d, "night">> \in lost
SnapInv == \A d \in Days, s \in Underlyings : SessionInv(d, s)

\* A chain is stored, or was lost and noted.
Had(s, d) == HasSession(d, s) \/ <<s, d, "chain">> \in lost

ChainMarks == {state.chain_am, state.chain_pm, file.chain_am, file.chain_pm}

\* A mark stands for an attempt; a day on which a pass ended has had one, and
\* one that ended well has all chains.
HoleInv ==
  /\ \A d \in Days :
       (d \in ChainMarks \/ d \in awake \ Weekend) => attempt[d] # "none"
  /\ pc \in {"chain_pm", "dashboard"} /\ now.slot >= Pre /\ now.day \notin Weekend
       => attempt[now.day] # "none"
  /\ \A d \in Days : attempt[d] = "done" => \A s \in Underlyings : Had(s, d)
  /\ \A i \in 1 .. at - 1 : Had(Symbols[i], now.day)

\* The last pull was of a pass that is remembered.
TapeInv ==
  /\ {state.bars, file.bars} \subseteq {0} \cup passed
  /\ \A p \in passed : p <= At(clock)
  /\ TapeIsWhole

IInv == TypeOK /\ PassInv /\ SnapInv /\ HoleInv /\ TapeInv
-----------------------------------------------------------------------------
(* Each step keeps the types.                                              *)

LEMMA TypeInit == Init => TypeOK
<1> SUFFICES ASSUME Init PROVE TypeOK
  OBVIOUS
<1> USE Constants
<1>1. clock \in Times /\ now \in Times
  BY DEF Init, Times, Slots, Night, Evening
<1>2. PassType
  BY <1>1 DEF Init, PassType, Steps
<1>3. MarksType
  BY DEF Init, MarksType, Marks, Fresh
<1>4. StoreType
  <2>1. NoRow \in Rows /\ NoFetch \in Fetches
    BY DEF NoRow, NoFetch, Rows, Fetches
  <2> QED
    BY <2>1, Zenon DEF Init, StoreType, EmptyStore, Stores
<1>5. TokenType
  <2>1. PICK k \in FirstTokens : token = [kind |-> k, created |-> 0, written |-> 0]
    BY Zenon DEF Init
  <2>2. k \in TokenKinds
    BY CollectorAssumption
  <2> QED
    BY <2>1, <2>2 DEF TokenType
<1>6. TapeType
  BY DEF Init, TapeType
<1>7. ToldType /\ faults \in Nat /\ crashes \in Nat
  BY DEF Init, ToldType, Ends
<1> QED
  BY <1>2, <1>3, <1>4, <1>5, <1>6, <1>7 DEF TypeOK

\* At is a number that grows with the time.
LEMMA AtType ==
  ASSUME NEW t \in Times
  PROVE  /\ t.day \in Days /\ t.day \in Nat /\ t.day >= 1 /\ t.slot \in 0 .. 4
         /\ At(t) \in Nat /\ At(t) >= 5 /\ At(t) = 5 * t.day + t.slot
BY Constants DEF Times, At

\* Whatever is saved, the marks keep their type.
LEMMA MarksSaved ==
  ASSUME MarksType, NEW s \in Marks, NEW n \in Nat, save(s, n), faults \in Nat
  PROVE  MarksType' /\ faults' \in Nat
BY Saved DEF MarksType

\* What a fetch leaves in the store: its rows and its entry, under the day and
\* the slot it is of.
HasWritten(day, slot, s, n) ==
  /\ \A e \in Days, t \in Underlyings :
       store'.fetches[e][t] = IF e = day /\ t = s THEN [count |-> n, slot |-> slot]
                              ELSE store.fetches[e][t]
  /\ \A e \in Days, t \in Underlyings, c \in Contracts :
       store'.rows[e][t][c] = IF e = day /\ t = s /\ c \in InRange[day][slot]
                              THEN [close |-> ShownClose(day, slot), slot |-> slot]
                              ELSE store.rows[e][t][c]

LEMMA StoredEffect ==
  ASSUME TypeOK, NEW s \in Underlyings, Stored(s)
  PROVE  \E day \in Days, slot \in Slots, n \in Nat \ {0} :
           /\ day = clock.day /\ slot = clock.slot
           /\ store' \in Stores
           /\ HasWritten(day, slot, s, n)
<1>1. PICK day, slot : day = clock.day /\ slot = clock.slot
  OBVIOUS
<1>2. PICK seen : seen = InRange[day][slot]
  OBVIOUS
<1>3. /\ day \in Days /\ slot \in Slots /\ store \in Stores
      /\ seen \in SUBSET Contracts /\ seen # {}
  BY <1>1, <1>2, Constants DEF TypeOK, PassType, StoreType, Times
<1>4. PICK w : w = write_chain(store, day, slot, s, seen)
  OBVIOUS
<1>5. store' = w
  BY <1>1, <1>2, <1>4 DEF Stored
<1>6. /\ w \in Stores
      /\ \A e \in Days, t \in Underlyings :
           w.fetches[e][t] = IF e = day /\ t = s
                             THEN [count |-> Cardinality(seen), slot |-> slot]
                             ELSE store.fetches[e][t]
      /\ \A e \in Days, t \in Underlyings, c \in Contracts :
           w.rows[e][t][c] = IF e = day /\ t = s /\ c \in seen
                             THEN [close |-> ShownClose(day, slot), slot |-> slot]
                             ELSE store.rows[e][t][c]
      /\ Cardinality(seen) \in Nat \ {0}
  BY <1>3, <1>4, Written
<1>7. PICK n \in Nat \ {0} : n = Cardinality(seen)
  BY <1>6
<1>8. HasWritten(day, slot, s, n)
  BY <1>2, <1>5, <1>6, <1>7 DEF HasWritten
<1> QED
  BY <1>1, <1>3, <1>5, <1>6, <1>8

LEMMA TokenRenewed ==
  ASSUME TokenType, NEW d \in Nat, token' \in {token, Renewed(token, d)}
  PROVE  TokenType'
BY DEF TokenType, Renewed

LEMMA TypeStep ==
  ASSUME TypeOK, [Next]_vars
  PROVE  TypeOK'
<1> USE Constants
<1>0. clock.day \in Nat /\ now.day \in Days /\ at \in Nat /\ faults \in Nat /\ crashes \in Nat
      /\ At(now) \in Nat /\ At(clock) \in Nat
  BY AtType DEF TypeOK, PassType
<1>1. CASE UNCHANGED vars
  BY <1>1 DEF vars, TypeOK, PassType, MarksType, StoreType, TokenType, TapeType, ToldType
<1>2. CASE Start
  <2>1. MarksType'
    BY <1>2 DEF Start, TypeOK, MarksType, Marks, Fresh
  <2>2. PassType' /\ faults' \in Nat
    BY <1>0, <1>2 DEF Start, Fault, Failures, TypeOK, PassType, Steps
  <2> QED
    BY <1>2, <2>1, <2>2 DEF Start, told, TypeOK, StoreType, TokenType, TapeType, ToldType
<1>3. CASE Beat
  <2>1. MarksType' /\ faults' \in Nat
    BY <1>3, MarksSaved DEF Beat, TypeOK, MarksType
  <2>2. PassType'
    BY <1>3 DEF Beat, TypeOK, PassType, Steps
  <2> QED
    BY <1>3, <2>1, <2>2 DEF Beat, told, TypeOK, StoreType, TokenType, TapeType, ToldType
<1>4. CASE BarsRun
  <2>1. PICK pulled \in Marks : pulled = [state EXCEPT !.bars = At(now)]
    BY <1>0 DEF TypeOK, MarksType, Marks
  <2>2. MarksType' /\ faults' \in Nat
    <3>1. \E n \in Nat : save(pulled, n) \/ save(state, n)
      <4>1. PICK got \in SUBSET Windows :
              \/ save([state EXCEPT !.bars = At(now)], Cardinality(Windows \ got))
              \/ error(Cardinality(Windows \ got))
              \/ \E k \in DOMAIN Symbols, v \in 1 .. BarDays :
                    error(1 + Cardinality(Before(k, v) \ got))
        BY <1>4 DEF BarsRun
      <4>2. Cardinality(Windows \ got) \in Nat
        BY WindowsCounted
      <4>3. \A k, v : 1 + Cardinality(Before(k, v) \ got) \in Nat
        <5> TAKE k, v
        <5>1. Before(k, v) \ got \in SUBSET Windows
          BY DEF Before
        <5> QED
          BY <5>1, WindowsCounted
      <4>4. CASE save([state EXCEPT !.bars = At(now)], Cardinality(Windows \ got))
        BY <2>1, <4>2, <4>4
      <4>5. CASE error(Cardinality(Windows \ got))
        BY <4>2, <4>5 DEF error
      <4>6. ASSUME NEW k, NEW v, error(1 + Cardinality(Before(k, v) \ got))
            PROVE  \E n \in Nat : save(pulled, n) \/ save(state, n)
        BY <4>3, <4>6 DEF error
      <4> QED
        BY <4>1, <4>4, <4>5, <4>6
    <3> QED
      BY <1>0, <2>1, <3>1, MarksSaved DEF TypeOK, MarksType
  <2>3. PassType'
    BY <1>4 DEF BarsRun, TypeOK, PassType, Steps, Tasks
  <2>4. bars' \in [Underlyings -> SUBSET TradingTimes]
    <3>1. \A ws : Pulled(ws) \subseteq TradingTimes
      BY DEF Pulled
    <3>2. \A s \in Underlyings : bars[s] \subseteq TradingTimes
      BY DEF TypeOK, TapeType
    <3>3. PICK got : bars' = [s \in Underlyings |-> bars[s] \cup Pulled(Of(got, s))]
      BY <1>4 DEF BarsRun
    <3> QED
      BY <3>1, <3>2, <3>3
  <2>5. /\ passed' \subseteq Nat /\ UNCHANGED lost
        /\ empty' \subseteq Underlyings \X TradingTimes \X Nat
    <3>1. \A ws : Pulled(ws) \subseteq TradingTimes
      BY DEF Pulled
    <3>2. PICK got : \/ /\ passed' = passed \cup {At(clock)}
                        /\ empty' = empty \cup {e \in Underlyings \X Pulled(1 .. BarDays) \X {At(clock)} :
                                                   e[2] \notin Pulled(Of(got, e[1]))}
                     \/ UNCHANGED <<passed, empty>>
      BY <1>4 DEF BarsRun
    <3> QED
      BY <1>0, <1>4, <3>1, <3>2 DEF BarsRun, TypeOK, TapeType, ToldType
  <2> QED
    BY <1>4, <2>2, <2>3, <2>4, <2>5 DEF BarsRun, TypeOK, StoreType, TokenType, TapeType, ToldType
<1>5. CASE BarsNotDue
  <2>1. PassType'
    BY <1>5 DEF BarsNotDue, TypeOK, PassType, Steps, Tasks
  <2>2. TapeType'
    BY <1>0, <1>5 DEF BarsNotDue, TypeOK, TapeType
  <2> QED
    BY <1>5, <2>1, <2>2 DEF BarsNotDue, TypeOK, MarksType, StoreType, TokenType, ToldType
<1>6. ASSUME NEW task \in Tasks, ChainNotDue(task)
      PROVE  TypeOK'
  <2>1. PassType'
    BY <1>6 DEF ChainNotDue, TypeOK, PassType, Steps, Tasks, NextStep
  <2> QED
    BY <1>6, <2>1 DEF ChainNotDue, told, TypeOK, MarksType, StoreType, TokenType, TapeType, ToldType
<1>7. ASSUME NEW task \in Tasks, run_chain(task)
      PROVE  TypeOK'
  <2>1. at \in 1 .. Len(Symbols) /\ Symbols[at] \in Underlyings
    BY <1>0, <1>7 DEF run_chain, TypeOK, PassType
  <2>2. UNCHANGED <<clock, now, bars, crashes, settled, passed, awake, empty>>
    BY <1>7 DEF run_chain
  <2>3. attempt' \in [Days -> Ends]
    BY <1>0, <1>7, FetchedEffect, FailedEffect DEF run_chain, TypeOK, ToldType, Ends
  <2>4. lost' \subseteq Underlyings \X Nat \X {"chain", "night"}
    <3>1. lost' \subseteq lost \cup {<<Symbols[at], now.day, "chain">>, <<Symbols[at], clock.day, "night">>}
      BY <1>7, FetchedEffect, FailedEffect DEF run_chain
    <3> QED
      BY <1>0, <2>1, <3>1 DEF TypeOK, ToldType
  <2>5. StoreType'
    <3>1. Stored(Symbols[at]) \/ UNCHANGED store
      BY <1>7, FetchedEffect, FailedEffect DEF run_chain
    <3> QED
      BY <2>1, <3>1, StoredEffect DEF TypeOK, StoreType
  <2>6. TokenType'
    BY <1>0, <1>7, FetchedEffect, FailedEffect, TokenRenewed DEF run_chain, TypeOK
  <2>7. PassType'
    <3>1. CASE Fetched(task, Symbols[at])
      BY <2>1, <2>2, <3>1, FetchedEffect DEF TypeOK, PassType
    <3>2. CASE Failed(task, Symbols[at])
      BY <2>1, <2>2, <3>2, FailedEffect DEF TypeOK, PassType, NextStep, Tasks, Steps
    <3> QED
      BY <1>7, <3>1, <3>2 DEF run_chain
  <2>8. MarksType' /\ faults' \in Nat
    BY <1>0, <1>7, FetchedEffect, FailedEffect, SMTT(30) DEF run_chain, TypeOK, MarksType
  <2> QED
    BY <2>2, <2>3, <2>4, <2>5, <2>6, <2>7, <2>8 DEF TypeOK, TapeType, ToldType
<1>8. ASSUME NEW task \in Tasks, MarkChain(task)
      PROVE  TypeOK'
  <2>1. [state EXCEPT ![task] = now.day] \in Marks
    BY <1>0, <1>8 DEF TypeOK, MarksType, Marks, Tasks
  <2>2. MarksType' /\ faults' \in Nat
    BY <1>8, <2>1, MarksSaved DEF MarkChain, TypeOK
  <2>3. PassType'
    BY <1>8 DEF MarkChain, TypeOK, PassType, Steps, Tasks, NextStep
  <2>4. attempt' \in [Days -> Ends]
    BY <1>0, <1>8 DEF MarkChain, TypeOK, ToldType, Ends
  <2> QED
    BY <1>8, <2>2, <2>3, <2>4 DEF MarkChain, TypeOK, StoreType, TokenType, TapeType, ToldType
<1>9. CASE run_dashboard
  <2>1. [state EXCEPT !.dashboard = At(now)] \in Marks
    BY <1>0 DEF TypeOK, MarksType, Marks
  <2>2. MarksType' /\ faults' \in Nat
    <3>1. \/ UNCHANGED <<state, file, faults>>
          \/ \E n \in Nat : save([state EXCEPT !.dashboard = At(now)], n) \/ save(state, n)
      BY <1>9 DEF run_dashboard, error
    <3> QED
      BY <1>0, <2>1, <3>1, MarksSaved DEF TypeOK, MarksType
  <2>3. PassType'
    BY <1>9 DEF run_dashboard, TypeOK, PassType, Steps
  <2>4. settled' \in BOOLEAN
    BY <1>9 DEF run_dashboard
  <2>5. awake' \subseteq Days
    BY <1>0, <1>9 DEF run_dashboard, TypeOK, ToldType
  <2> QED
    BY <1>9, <2>2, <2>3, <2>4, <2>5
       DEF run_dashboard, TypeOK, StoreType, TokenType, TapeType, ToldType
<1>10. CASE Crash
  <2>1. PassType' /\ crashes' \in Nat
    BY <1>0, <1>10 DEF Crash, TypeOK, PassType, Steps
  <2> QED
    BY <1>10, <2>1 DEF Crash, told, TypeOK, MarksType, StoreType, TokenType, TapeType, ToldType
<1>11. CASE Login
  <2>1. TokenType'
    BY <1>0, <1>11 DEF Login, TokenType, LoggedIn, TokenKinds
  <2> QED
    BY <1>11, <2>1 DEF Login, told, TypeOK, PassType, MarksType, StoreType, TapeType, ToldType
<1>12. CASE Tick
  <2>1. clock' \in Times
    BY <1>12 DEF Tick, TypeOK, PassType, Times, Night, Evening
  <2>2. PassType' /\ settled' \in BOOLEAN
    BY <1>12, <2>1 DEF Tick, TypeOK, PassType
  <2> QED
    BY <1>12, <2>2 DEF Tick, TypeOK, MarksType, StoreType, TokenType, TapeType, ToldType
<1> QED
  BY <1>1, <1>2, <1>3, <1>4, <1>5, <1>6, <1>7, <1>8, <1>9, <1>10, <1>11, <1>12 DEF Next

\* The collector's variables have their types in every reachable state.
THEOREM TypeInvariant == Spec => []TypeOK
BY TypeInit, TypeStep, PTL DEF Spec
-----------------------------------------------------------------------------
(* Each step keeps the rest of the invariant.                              *)

\* The clock never goes back.
LEMMA ClockStep ==
  ASSUME TypeOK, [Next]_vars
  PROVE  Later(clock, clock') /\ (clock' # clock => Tick)
<1>1. clock.day \in Nat /\ clock.slot \in 0 .. 4
  BY AtType DEF TypeOK, PassType
<1>2. CASE Tick
  BY <1>1, <1>2 DEF Tick, Later, TypeOK, PassType, Times, Evening
<1>3. CASE clock' = clock
  BY <1>1, <1>3 DEF Later
<1> QED
  BY <1>2, <1>3 DEF Next, vars, Start, Beat, BarsRun, BarsNotDue, ChainNotDue, run_chain,
                    MarkChain, run_dashboard, Crash, Login, Tick

\* Later is an order, the one of At.
LEMMA LaterOrder ==
  ASSUME NEW t \in Times, NEW u \in Times
  PROVE  /\ Later(t, u) <=> At(t) <= At(u)
         /\ At(t) = At(u) <=> t = u
<1>1. /\ t.day \in Nat /\ t.slot \in 0 .. 4 /\ At(t) = 5 * t.day + t.slot
      /\ u.day \in Nat /\ u.slot \in 0 .. 4 /\ At(u) = 5 * u.day + u.slot
  BY AtType
<1>2. t = u <=> t.day = u.day /\ t.slot = u.slot
  BY DEF Times
<1> QED
  BY <1>1, <1>2 DEF Later

LEMMA LaterTransitive ==
  ASSUME NEW t \in Times, NEW u \in Times, NEW v \in Times, Later(t, u), Later(u, v)
  PROVE  Later(t, v)
BY LaterOrder, AtType

LEMMA PassStep ==
  ASSUME TypeOK, PassInv, [Next]_vars
  PROVE  PassInv'
<1> USE DEF PassInv
<1>0. Later(clock, clock') /\ clock' \in Times /\ clock \in Times /\ now \in Times
  BY ClockStep, TypeStep DEF TypeOK, PassType
<1>1. Later(now, clock) /\ Later(clock, clock) /\ Later(now, clock')
  BY <1>0, LaterTransitive, LaterOrder, AtType
<1>2. CASE UNCHANGED vars
  BY <1>2 DEF vars
<1>3. CASE Start \/ Crash \/ Login \/ BarsRun \/ BarsNotDue \/ run_dashboard
  BY <1>1, <1>3 DEF Start, Crash, Login, BarsRun, BarsNotDue, run_dashboard, Tasks
<1>4. CASE Beat
  BY <1>1, <1>4 DEF Beat, Tasks
<1>5. ASSUME NEW task \in Tasks, ChainNotDue(task) \/ MarkChain(task)
      PROVE  PassInv'
  BY <1>1, <1>5, Constants DEF ChainNotDue, MarkChain, Tasks, NextStep
<1>6. ASSUME NEW task \in Tasks, run_chain(task)
      PROVE  PassInv'
  <2>1. clock' = clock /\ now' = now /\ (at > 1 \/ _due_daily(task))
    BY <1>6 DEF run_chain
  <2>2. now.slot >= Pre /\ now.day \notin Weekend
    <3>1. now.slot \in 0 .. 4
      BY <1>0, AtType
    <3> QED
      BY <2>1, <3>1 DEF _due_daily, FetchAt, Tasks, Pre, Post
  <2>3. pc = task
    BY <1>6 DEF run_chain
  <2> QED
    BY <1>1, <1>6, <2>1, <2>2, <2>3, FetchedEffect, FailedEffect DEF run_chain, Tasks, NextStep
<1>7. CASE Tick
  BY <1>1, <1>7 DEF Tick, Tasks
<1> QED
  BY <1>2, <1>3, <1>4, <1>5, <1>6, <1>7 DEF Next

\* A step that leaves the store alone keeps what is known of it.
LEMMA SnapSame ==
  ASSUME TypeOK, SnapInv, UNCHANGED store, lost \subseteq lost',
         clock' \in Times, Later(clock, clock')
  PROVE  SnapInv'
<1> SUFFICES ASSUME NEW d \in Days, NEW s \in Underlyings
             PROVE  SessionInv(d, s)'
  BY DEF SnapInv
<1>1. SessionInv(d, s)
  BY DEF SnapInv
<1>2. ASSUME NEW k \in Slots, Later([day |-> d, slot |-> k], clock)
      PROVE  Later([day |-> d, slot |-> k], clock')
  BY <1>2, LaterTransitive DEF Times, TypeOK, PassType
<1> QED
  BY <1>1, <1>2 DEF SessionInv

\* Nor does a fetch disturb it: it takes place at a time no stored fetch is
\* behind, and at night only if its pass began on an earlier day.
LEMMA SnapStored ==
  ASSUME TypeOK, SnapInv, NEW s \in Underlyings, Stored(s), lost \subseteq lost', UNCHANGED clock,
         clock.slot = Night => <<s, clock.day, "night">> \in lost'
  PROVE  SnapInv'
<1>1. PICK day \in Days, slot \in Slots, n \in Nat \ {0} :
           /\ day = clock.day /\ slot = clock.slot
           /\ HasWritten(day, slot, s, n)
  BY StoredEffect
<1>2. PICK seen \in SUBSET Contracts : seen = InRange[day][slot]
  BY Constants
<1>3. day \in Nat /\ slot \in 0 .. 4 /\ store \in Stores
  BY Constants DEF TypeOK, StoreType
<1> SUFFICES ASSUME NEW d \in Days, NEW t \in Underlyings
             PROVE  SessionInv(d, t)'
  BY DEF SnapInv
<1>4. SessionInv(d, t) /\ d \in Nat
  BY Constants DEF SnapInv
<1>5. CASE ~(d = day /\ t = s)
  <2>1. /\ store'.fetches[d][t] = store.fetches[d][t]
        /\ \A c \in Contracts : store'.rows[d][t][c] = store.rows[d][t][c]
    BY <1>1, <1>5 DEF HasWritten
  <2>2. \A k \in Slots : InRange[d][k] \subseteq Contracts
    BY Constants
  <2> QED
    BY <1>4, <2>1, <2>2 DEF SessionInv
<1>6. CASE d = day /\ t = s
  <2>1. /\ store'.fetches[d][t].slot = slot /\ store'.fetches[d][t].count > 0
        /\ \A c \in seen : store'.rows[d][t][c] = [close |-> ShownClose(day, slot), slot |-> slot]
        /\ \A c \in Contracts \ seen : store'.rows[d][t][c] = store.rows[d][t][c]
    BY <1>1, <1>2, <1>6 DEF HasWritten
  <2>2. Later([day |-> d, slot |-> slot], clock)
    BY <1>1, <1>3, <1>6 DEF Later
  <2>3. \A c \in seen :
          /\ store'.rows[d][t][c].slot = slot
          /\ store'.rows[d][t][c].close = CloseBefore(d) \/ <<t, d, "night">> \in lost'
    <3>1. CASE slot = Night
      BY <1>1, <1>6, <2>1, <3>1
    <3>2. CASE slot # Night
      BY <1>6, <2>1, <3>2 DEF ShownClose
    <3> QED
      BY <3>1, <3>2
  <2>4. ASSUME NEW c \in Contracts \ seen, store.rows[d][t][c] # NoRow
        PROVE  /\ store.rows[d][t][c].slot <= slot
               /\ store.rows[d][t][c].close = CloseBefore(d) \/ <<t, d, "night">> \in lost'
    <3>1. /\ store.fetches[d][t].count > 0 /\ store.rows[d][t][c].slot <= store.fetches[d][t].slot
          /\ store.rows[d][t][c].close = CloseBefore(d) \/ <<t, d, "night">> \in lost
      BY <1>4, <2>4 DEF SessionInv
    <3>2. store.fetches[d][t].slot \in 0 .. 4 /\ store.fetches[d][t].slot <= slot
      <4>1. /\ store.fetches[d][t].slot \in Slots
            /\ Later([day |-> d, slot |-> store.fetches[d][t].slot], clock)
        BY <1>4, <3>1 DEF SessionInv
      <4> QED
        BY <1>1, <1>3, <1>6, <4>1, Constants DEF Later
    <3>3. store.rows[d][t][c] \in Rows
      BY <1>3 DEF Stores
    <3>4. store.rows[d][t][c].slot \in Int
      BY <3>3 DEF Rows, Slots, Night, Evening
    <3> QED
      BY <1>3, <3>1, <3>2, <3>4
  <2>5. slot <= slot
    BY <1>3
  <2>6. /\ store'.fetches[d][t].slot \in Slots
        /\ Later([day |-> d, slot |-> store'.fetches[d][t].slot], clock')
        /\ \A c \in InRange[d][slot] : store'.rows[d][t][c].slot = slot
    BY <1>2, <1>6, <2>1, <2>2, <2>3
  <2>7. ASSUME NEW c \in Contracts, store'.rows[d][t][c] # NoRow
        PROVE  /\ store'.rows[d][t][c].slot <= slot
               /\ store'.rows[d][t][c].close = CloseBefore(d) \/ <<t, d, "night">> \in lost'
    <3>1. CASE c \in seen
      BY <2>3, <2>5, <3>1
    <3>2. CASE c \notin seen
      BY <2>1, <2>4, <2>7, <3>2
    <3> QED
      BY <3>1, <3>2
  <2> QED
    BY <2>1, <2>6, <2>7 DEF SessionInv
<1> QED
  BY <1>5, <1>6

\* A session once stored stays, and so does what was noted as lost.
LEMMA SessionKept ==
  ASSUME TypeOK, UNCHANGED store \/ \E s \in Underlyings : Stored(s)
  PROVE  \A d \in Days, t \in Underlyings : HasSession(d, t) => HasSession(d, t)'
<1> SUFFICES ASSUME NEW d \in Days, NEW t \in Underlyings, HasSession(d, t)
             PROVE  HasSession(d, t)'
  OBVIOUS
<1>1. CASE UNCHANGED store
  BY <1>1 DEF HasSession
<1>2. ASSUME NEW s \in Underlyings, Stored(s)
      PROVE  HasSession(d, t)'
  <2>1. PICK day \in Days, slot \in Slots, n \in Nat \ {0} : HasWritten(day, slot, s, n)
    BY <1>2, StoredEffect
  <2>2. store'.fetches[d][t] = IF d = day /\ t = s THEN [count |-> n, slot |-> slot]
                               ELSE store.fetches[d][t]
    BY <2>1 DEF HasWritten
  <2> QED
    BY <2>2 DEF HasSession
<1> QED
  BY <1>1, <1>2

\* The chain of a symbol, fetched on the day of the pass, is a session of it.
LEMMA SessionStored ==
  ASSUME TypeOK, NEW s \in Underlyings, Stored(s), UNCHANGED now, clock.day = now.day
  PROVE  HasSession(now.day, s)'
<1>1. PICK day \in Days, slot \in Slots, n \in Nat \ {0} :
        day = clock.day /\ HasWritten(day, slot, s, n)
  BY StoredEffect
<1>2. store'.fetches[day][s] = [count |-> n, slot |-> slot]
  BY <1>1 DEF HasWritten
<1> QED
  BY <1>1, <1>2 DEF HasSession

LEMMA SnapStep ==
  ASSUME TypeOK, PassInv, SnapInv, [Next]_vars
  PROVE  SnapInv'
<1>0. Later(clock, clock') /\ clock' \in Times
  BY ClockStep, TypeStep DEF TypeOK, PassType
<1>1. ASSUME UNCHANGED store, lost \subseteq lost'
      PROVE  SnapInv'
  BY <1>0, <1>1, SnapSame
<1>2. CASE UNCHANGED vars
  BY <1>1, <1>2 DEF vars
<1>3. CASE Start \/ Beat \/ BarsRun \/ BarsNotDue \/ run_dashboard \/ Crash \/ Login \/ Tick
  BY <1>1, <1>3 DEF Start, Beat, BarsRun, BarsNotDue, run_dashboard, Crash, Login, Tick, told
<1>4. ASSUME NEW task \in Tasks, ChainNotDue(task) \/ MarkChain(task)
      PROVE  SnapInv'
  BY <1>1, <1>4 DEF ChainNotDue, MarkChain, told
<1>5. ASSUME NEW task \in Tasks, run_chain(task)
      PROVE  SnapInv'
  <2>1. clock' = clock /\ now' = now /\ Symbols[at] \in Underlyings /\ (at > 1 \/ _due_daily(task))
    BY <1>5, Constants DEF run_chain, TypeOK, PassType
  <2>2. lost \subseteq lost'
    BY <1>5, FetchedEffect, FailedEffect DEF run_chain
  <2>3. CASE UNCHANGED store
    BY <1>1, <2>2, <2>3
  <2>4. CASE Stored(Symbols[at]) /\ (clock.day # now.day => <<Symbols[at], clock.day, "night">> \in lost')
    <3>1. /\ now.slot >= Pre /\ now.slot \in 0 .. 4 /\ clock.slot \in 0 .. 4
          /\ now.day \in Nat /\ clock.day \in Nat
      BY <2>1, AtType, SMTT(30) DEF PassInv, _due_daily, FetchAt, Tasks, Pre, Post, TypeOK, PassType
    <3>2. clock.slot = Night => clock.day # now.day
      BY <3>1 DEF PassInv, Later, Night, Pre
    <3> QED
      BY <2>1, <2>2, <2>4, <3>2, SnapStored
  <2> QED
    BY <1>5, <2>3, <2>4, FetchedEffect, FailedEffect DEF run_chain
<1> QED
  BY <1>2, <1>3, <1>4, <1>5 DEF Next
\* What a step leaves of the store and of the notes.
LEMMA Growth ==
  ASSUME TypeOK, [Next]_vars
  PROVE  lost \subseteq lost' /\ (UNCHANGED store \/ \E s \in Underlyings : Stored(s))
<1>1. ASSUME NEW task \in Tasks, run_chain(task)
      PROVE  lost \subseteq lost' /\ (UNCHANGED store \/ Stored(Symbols[at])) /\ Symbols[at] \in Underlyings
  BY <1>1, FetchedEffect, FailedEffect, Constants, SMTT(30) DEF run_chain, TypeOK, PassType
<1>2. CASE ~(\E task \in Tasks : run_chain(task))
  BY <1>2 DEF Next, vars, told, Start, Beat, BarsRun, BarsNotDue, ChainNotDue, MarkChain,
              run_dashboard, Crash, Login, Tick
<1> QED
  BY <1>1, <1>2

LEMMA HadKept ==
  ASSUME TypeOK, [Next]_vars
  PROVE  \A s \in Underlyings, d \in Days : Had(s, d) => Had(s, d)'
BY Growth, SessionKept DEF Had

\* What a new mark does to the old ones.
LEMMA OtherMarked ==
  ASSUME NEW m \in Marks, NEW n \in Nat
  PROVE  \A q \in {[m EXCEPT !.bars = n], [m EXCEPT !.dashboard = n]} :
           q \in Marks /\ q.chain_am = m.chain_am /\ q.chain_pm = m.chain_pm
BY DEF Marks

LEMMA ChainMarked ==
  ASSUME NEW m \in Marks, NEW task \in Tasks, NEW n \in Nat
  PROVE  \E q \in Marks : /\ q = [m EXCEPT ![task] = n]
                         /\ q.chain_am \in {m.chain_am, n} /\ q.chain_pm \in {m.chain_pm, n}
<1>1. PICK q : q = [m EXCEPT ![task] = n]
  OBVIOUS
<1>2. q \in Marks
  BY <1>1 DEF Marks, Tasks
<1>3. q.chain_am \in {m.chain_am, n} /\ q.chain_pm \in {m.chain_pm, n}
  BY <1>1 DEF Marks, Tasks
<1> QED
  BY <1>1, <1>2, <1>3

\* A step that makes no attempt, sets no mark and ends no pass.
LEMMA HoleSame ==
  ASSUME TypeOK, HoleInv, [Next]_vars, UNCHANGED <<attempt, awake>>,
         ChainMarks' \subseteq ChainMarks \cup {0},
         pc' \notin {"chain_pm", "dashboard"} \/ UNCHANGED <<pc, now>>,
         at' = 1 \/ UNCHANGED <<at, now>>
  PROVE  HoleInv'
<1>1. \A i \in 1 .. at - 1 : Symbols[i] \in Underlyings /\ now.day \in Days
  BY Constants, AtType DEF TypeOK, PassType
<1>2. \A d \in Days : (d \in ChainMarks' \/ d \in awake' \ Weekend) => attempt'[d] # "none"
  BY Constants DEF HoleInv
<1>3. \A d \in Days : attempt'[d] = "done" => \A s \in Underlyings : Had(s, d)'
  BY HadKept DEF HoleInv
<1>4. \A i \in 1 .. at' - 1 : Had(Symbols[i], now.day)'
  BY <1>1, HadKept DEF HoleInv
<1> QED
  BY <1>2, <1>3, <1>4 DEF HoleInv

LEMMA HoleStep ==
  ASSUME TypeOK, PassInv, HoleInv, [Next]_vars
  PROVE  HoleInv'
<1>0. now \in Times /\ now.day \in Days /\ now.slot \in 0 .. 4 /\ clock.day \in Days /\ at \in Nat
  BY AtType DEF TypeOK, PassType
<1>1. CASE UNCHANGED vars
  BY <1>1, HoleSame DEF vars, ChainMarks
<1>2. CASE Start
  <2>1. ChainMarks' \subseteq ChainMarks \cup {0}
    BY <1>2 DEF Start, Fresh, ChainMarks
  <2> QED
    BY <1>2, <2>1, HoleSame DEF Start, told, PassInv, Tasks
<1>3. CASE Beat
  <2>1. ChainMarks' \subseteq ChainMarks \cup {0}
    BY <1>3, Saved DEF Beat, ChainMarks
  <2> QED
    BY <1>3, <2>1, HoleSame DEF Beat, told, PassInv, Tasks
<1>4. CASE BarsRun
  <2>1. PICK pulled \in Marks : /\ pulled = [state EXCEPT !.bars = At(now)]
                               /\ pulled.chain_am = state.chain_am /\ pulled.chain_pm = state.chain_pm
    BY <1>0, AtType, OtherMarked DEF TypeOK, MarksType
  <2>2. state' \in {state, pulled} /\ file' \in {file, state, pulled}
    BY <1>4, <2>1, Saved, Erred DEF BarsRun
  <2>3. ChainMarks' \subseteq ChainMarks \cup {0}
    BY <2>1, <2>2 DEF ChainMarks
  <2> QED
    BY <1>4, <2>3, HoleSame DEF BarsRun
<1>5. CASE BarsNotDue
  BY <1>5, HoleSame DEF BarsNotDue, ChainMarks
<1>6. CASE Crash \/ Login \/ Tick
  BY <1>6, HoleSame DEF Crash, Login, Tick, told, ChainMarks
<1>7. ASSUME NEW task \in Tasks, ChainNotDue(task)
      PROVE  HoleInv'
  <2>1. now.slot >= Pre /\ now.day \notin Weekend => attempt[now.day] # "none"
    <3>1. CASE task = "chain_am"
      BY <1>0, <1>7, <3>1 DEF ChainNotDue, _due_daily, FetchAt, HoleInv, ChainMarks
    <3>2. CASE task = "chain_pm"
      BY <1>7, <3>2 DEF ChainNotDue, HoleInv
    <3> QED
      BY <3>1, <3>2 DEF Tasks
  <2>2. UNCHANGED <<now, at, state, file, attempt, awake>> /\ at = 1
    BY <1>7 DEF ChainNotDue, told
  <2>3. \A s \in Underlyings, d \in Days : Had(s, d) => Had(s, d)'
    BY HadKept
  <2> QED
    BY <2>1, <2>2, <2>3 DEF HoleInv, ChainMarks
<1>8. ASSUME NEW task \in Tasks, run_chain(task)
      PROVE  HoleInv'
  <2>1. /\ UNCHANGED <<now, clock, state, awake>> /\ file' \in {file, state}
        /\ Symbols[at] \in Underlyings /\ pc = task
        /\ at' = 1 \/ Fetched(task, Symbols[at])
    BY <1>8, FetchedEffect, FailedEffect, Constants DEF run_chain, TypeOK, PassType
  <2>2. attempt' = [attempt EXCEPT ![now.day] = "cut"] \/ attempt' = [attempt EXCEPT ![now.day] = "failed"]
    BY <1>8, FetchedEffect, FailedEffect DEF run_chain
  <2>3. \A d \in Days : /\ attempt[d] # "none" => attempt'[d] # "none"
                        /\ attempt'[d] = "done" => attempt[d] = "done"
    BY <2>2 DEF TypeOK, ToldType
  <2>4. attempt'[now.day] # "none"
    BY <1>0, <2>2 DEF TypeOK, ToldType
  <2>5. \A s \in Underlyings, d \in Days : Had(s, d) => Had(s, d)'
    BY HadKept
  <2>6. \A i \in 1 .. at' - 1 : Had(Symbols[i], now.day)'
    <3> SUFFICES ASSUME Fetched(task, Symbols[at]), NEW i \in 1 .. at' - 1
                 PROVE  Had(Symbols[i], now.day)'
      BY <2>1
    <3>1. at' = at + 1
      BY FetchedEffect
    <3>2. CASE i = at
      <4>1. CASE <<Symbols[at], now.day, "chain">> \in lost'
        BY <2>1, <3>2, <4>1 DEF Had
      <4>2. CASE Stored(Symbols[at]) /\ clock.day = now.day
        BY <2>1, <3>2, <4>2, SessionStored DEF Had
      <4> QED
        BY <4>1, <4>2, FetchedEffect
    <3>3. CASE i # at
      <4>1. i \in 1 .. at - 1 /\ Symbols[i] \in Underlyings
        BY <1>0, <3>1, <3>3, Constants DEF TypeOK, PassType
      <4> QED
        BY <1>0, <2>1, <2>5, <4>1 DEF HoleInv
    <3> QED
      BY <3>2, <3>3
  <2>7. \A d \in Days : d \in ChainMarks' \/ d \in awake' \ Weekend => attempt'[d] # "none"
    BY <2>1, <2>3 DEF HoleInv, ChainMarks
  <2>8. \A d \in Days : attempt'[d] = "done" => \A s \in Underlyings : Had(s, d)'
    BY <2>3, <2>5 DEF HoleInv
  <2> QED
    BY <2>1, <2>4, <2>6, <2>7, <2>8 DEF HoleInv
<1>9. ASSUME NEW task \in Tasks, MarkChain(task)
      PROVE  HoleInv'
  <2>1. /\ UNCHANGED <<now, store, lost, awake>> /\ at' = 1 /\ at > Len(Symbols)
        /\ attempt' = [attempt EXCEPT ![now.day] = "done"]
    BY <1>9 DEF MarkChain
  <2>2. PICK marked \in Marks :
          /\ marked = [state EXCEPT ![task] = now.day]
          /\ marked.chain_am \in {state.chain_am, now.day}
          /\ marked.chain_pm \in {state.chain_pm, now.day}
    BY <1>0, Constants, ChainMarked DEF TypeOK, MarksType
  <2>3. ChainMarks' \subseteq ChainMarks \cup {now.day}
    <3>1. state' = marked /\ file' \in {file, marked}
      BY <1>9, <2>2, Saved DEF MarkChain
    <3> QED
      BY <2>2, <3>1 DEF ChainMarks
  <2>4. \A s \in Underlyings, d \in Days : Had(s, d) => Had(s, d)'
    BY HadKept
  <2>5. \A s \in Underlyings : Had(s, now.day)
    <3>1. \A i \in 1 .. Len(Symbols) : i \in 1 .. at - 1
      BY <1>0, <2>1, Constants
    <3> QED
      BY <3>1, Constants DEF HoleInv
  <2>6. \A d \in Days : attempt'[d] = IF d = now.day THEN "done" ELSE attempt[d]
    BY <1>0, <2>1 DEF TypeOK, ToldType
  <2>7. \A d \in Days : d \in ChainMarks' \/ d \in awake' \ Weekend => attempt'[d] # "none"
    BY <2>1, <2>3, <2>6 DEF HoleInv
  <2>8. \A d \in Days : attempt'[d] = "done" => \A s \in Underlyings : Had(s, d)'
    BY <2>4, <2>5, <2>6 DEF HoleInv
  <2> QED
    BY <1>0, <2>1, <2>6, <2>7, <2>8 DEF HoleInv
<1>10. CASE run_dashboard
  <2>1. UNCHANGED <<now, at, attempt>> /\ pc' = "sleep" /\ pc = "dashboard" /\ at = 1
    BY <1>10 DEF run_dashboard, PassInv, Tasks
  <2>2. PICK shown \in Marks : /\ shown = [state EXCEPT !.dashboard = At(now)]
                              /\ shown.chain_am = state.chain_am /\ shown.chain_pm = state.chain_pm
    BY <1>0, AtType, OtherMarked DEF TypeOK, MarksType
  <2>3. ChainMarks' \subseteq ChainMarks
    <3>1. state' \in {state, shown} /\ file' \in {file, state, shown}
      BY <1>10, <2>2, Saved, Erred DEF run_dashboard
    <3> QED
      BY <2>2, <3>1 DEF ChainMarks
  <2>4. \A s \in Underlyings, d \in Days : Had(s, d) => Had(s, d)'
    BY HadKept
  <2>5. \A d \in Days : d \in ChainMarks' \/ d \in awake' \ Weekend => attempt'[d] # "none"
    BY <1>10, <2>1, <2>3 DEF HoleInv, run_dashboard
  <2> QED
    BY <2>1, <2>4, <2>5 DEF HoleInv
<1> QED
  BY <1>1, <1>2, <1>3, <1>4, <1>5, <1>6, <1>7, <1>8, <1>9, <1>10 DEF Next
\* A step that forgets nothing keeps the tape whole if the bars behind the
\* passes it adds are stored, or their pull was answered nothing.
LEMMA TapeKept ==
  ASSUME TapeIsWhole, passed \subseteq passed', empty \subseteq empty',
         \A s \in Underlyings : bars[s] \subseteq bars'[s],
         \A s \in Underlyings, i \in TradingTimes, p \in passed' \ passed :
            (i < p /\ p < i + 5 * BarDays) => i \in bars'[s] \/ <<s, i, p>> \in empty'
  PROVE  TapeIsWhole'
BY DEF TapeIsWhole

\* A step that pulls no bars and ends no pass of an open session.
LEMMA TapeSame ==
  ASSUME TypeOK, TapeInv, [Next]_vars, UNCHANGED <<bars, passed, empty>>,
         {state'.bars, file'.bars} \subseteq {0, state.bars, file.bars}
  PROVE  TapeInv'
<1>2. At(clock) <= At(clock')
  BY ClockStep, TypeStep, LaterOrder DEF TypeOK, PassType
<1>3. At(clock) \in Nat /\ At(clock)' \in Nat /\ At(clock)' = At(clock') /\ passed \subseteq Nat
  BY TypeStep, AtType DEF TypeOK, PassType, TapeType, At
<1>4. \A p \in passed' : p <= At(clock)'
  BY <1>2, <1>3 DEF TapeInv
<1>5. TapeIsWhole'
  BY TapeKept DEF TapeInv
<1> QED
  BY <1>4, <1>5 DEF TapeInv

LEMMA TapeStep ==
  ASSUME TypeOK, PassInv, TapeInv, [Next]_vars
  PROVE  TapeInv'
<1>0. /\ At(clock) \in Nat /\ At(clock) >= 5 /\ At(now) \in Nat /\ passed \subseteq Nat
      /\ bars \in [Underlyings -> SUBSET TradingTimes]
      /\ BarDays \in Nat
  BY AtType, Constants DEF TypeOK, PassType, TapeType
<1>1. TradingTimes \subseteq Int
  BY Constants DEF TradingTimes, Pre, Regular, Post
<1>2. CASE UNCHANGED vars
  BY <1>2, TapeSame DEF vars
<1>3. CASE Start
  BY <1>3, TapeSame DEF Start, told, Fresh
<1>4. CASE Beat
  BY <1>4, TapeSame, Saved DEF Beat, told
<1>5. CASE Crash \/ Login \/ Tick
  BY <1>5, TapeSame DEF Crash, Login, Tick, told
<1>6. ASSUME NEW task \in Tasks, ChainNotDue(task)
      PROVE  TapeInv'
  BY <1>6, TapeSame DEF ChainNotDue, told
<1>7. ASSUME NEW task \in Tasks, run_chain(task)
      PROVE  TapeInv'
  BY <1>7, TapeSame, FetchedEffect, FailedEffect DEF run_chain
<1>8. ASSUME NEW task \in Tasks, MarkChain(task)
      PROVE  TapeInv'
  <2>1. PICK marked : marked = [state EXCEPT ![task] = now.day]
    OBVIOUS
  <2>2. marked.bars = state.bars
    BY <2>1 DEF TypeOK, MarksType, Marks, Tasks
  <2>3. state' = marked /\ file' \in {file, marked}
    BY <1>8, <2>1, Saved DEF MarkChain
  <2> QED
    BY <1>8, <2>2, <2>3, TapeSame DEF MarkChain
<1>9. CASE run_dashboard
  <2>1. PICK shown : shown = [state EXCEPT !.dashboard = At(now)]
    OBVIOUS
  <2>2. shown.bars = state.bars
    BY <2>1 DEF TypeOK, MarksType, Marks
  <2>3. state' \in {state, shown} /\ file' \in {file, state, shown}
    BY <1>9, <2>1, Saved, Erred DEF run_dashboard
  <2> QED
    BY <1>9, <2>2, <2>3, TapeSame DEF run_dashboard
<1>10. CASE BarsNotDue
  <2>1. UNCHANGED <<clock, state, file, bars, lost, empty>> /\ clock = now
    BY <1>10 DEF BarsNotDue, PassInv
  <2>2. CASE ~OpenNow
    BY <1>10, <2>1, <2>2, TapeSame DEF BarsNotDue
  <2>3. CASE OpenNow
    <3>1. passed' = passed \cup {At(now)} /\ ~(At(now) - state.bars >= 1)
      BY <1>10, <2>3 DEF BarsNotDue, _due_interval
    <3>2. state.bars \in {0} \cup passed /\ state.bars \in Nat
      BY DEF TapeInv, TypeOK, MarksType, Marks
    <3>3. At(now) \in passed
      BY <1>0, <2>1, <3>1, <3>2 DEF TapeInv
    <3> QED
      BY <2>1, <3>1, <3>3, TapeSame
  <2> QED
    BY <2>2, <2>3
<1>11. CASE BarsRun
  <2>1. UNCHANGED clock /\ now = clock
    BY <1>11 DEF BarsRun, PassInv
  <2>2. PICK pulled : pulled = [state EXCEPT !.bars = At(now)]
    OBVIOUS
  <2>3. pulled.bars = At(now)
    BY <2>2 DEF TypeOK, MarksType, Marks
  <2>4. PICK got \in SUBSET Windows :
          /\ bars' = [s \in Underlyings |-> bars[s] \cup Pulled(Of(got, s))]
          /\ \/ /\ save(pulled, Cardinality(Windows \ got))
                /\ passed' = passed \cup {At(clock)}
                /\ empty' = empty \cup {e \in Underlyings \X Pulled(1 .. BarDays) \X {At(clock)} :
                                            e[2] \notin Pulled(Of(got, e[1]))}
             \/ (\E n : error(n)) /\ UNCHANGED <<passed, empty>>
    BY <1>11, <2>2 DEF BarsRun
  <2>5. empty \subseteq empty' /\ \A s \in Underlyings : bars[s] \subseteq bars'[s]
    BY <2>4
  <2>6. CASE (\E n : error(n)) /\ UNCHANGED <<passed, empty>>
    <3>1. UNCHANGED state /\ file' \in {state, file}
      BY <2>6, Erred
    <3>2. At(clock)' = At(clock)
      BY <2>1 DEF At
    <3> QED
      BY <2>5, <2>6, <3>1, <3>2, TapeKept DEF TapeInv
  <2>7. CASE /\ save(pulled, Cardinality(Windows \ got))
             /\ passed' = passed \cup {At(clock)}
             /\ empty' = empty \cup {e \in Underlyings \X Pulled(1 .. BarDays) \X {At(clock)} :
                                         e[2] \notin Pulled(Of(got, e[1]))}
    <3>5. state' = pulled /\ file' \in {file, pulled}
      BY <2>7, Saved
    <3>1. ASSUME NEW s \in Underlyings, NEW i \in TradingTimes, i < At(clock), At(clock) < i + 5 * BarDays
          PROVE  i \in bars'[s] \/ <<s, i, At(clock)>> \in empty'
      <4>1. i \in Pulled(1 .. BarDays)
        BY <1>0, <1>1, <3>1 DEF Pulled
      <4>2. CASE i \in Pulled(Of(got, s))
        BY <2>4, <4>2
      <4>3. CASE i \notin Pulled(Of(got, s))
        <5>1. PICK e : e = <<s, i, At(clock)>>
          OBVIOUS
        <5>2. e \in Underlyings \X Pulled(1 .. BarDays) \X {At(clock)} /\ e[1] = s /\ e[2] = i
          BY <4>1, <5>1
        <5> QED
          BY <2>7, <4>3, <5>1, <5>2
      <4> QED
        BY <4>2, <4>3
    <3>2. TapeIsWhole'
      BY <2>5, <2>7, <3>1, TapeKept DEF TapeInv
    <3>3. {state'.bars, file'.bars} \subseteq {0} \cup passed'
      BY <2>1, <2>3, <2>7, <3>5 DEF TapeInv
    <3>4. At(clock)' = At(clock) /\ \A p \in passed' : p <= At(clock)
      BY <1>0, <2>1, <2>7 DEF TapeInv, At
    <3> QED
      BY <3>2, <3>3, <3>4 DEF TapeInv
  <2> QED
    BY <2>4, <2>6, <2>7
<1> QED
  BY <1>2, <1>3, <1>4, <1>5, <1>6, <1>7, <1>8, <1>9, <1>10, <1>11 DEF Next
-----------------------------------------------------------------------------
(* The invariant, and what follows from it.                                *)

LEMMA IInvInit == Init => IInv
<1> SUFFICES ASSUME Init PROVE IInv
  OBVIOUS
<1>1. TypeOK
  BY TypeInit
<1>2. PassInv
  BY Constants DEF Init, PassInv, Later, Night, Tasks
<1>3. store.rows = EmptyStore.rows /\ store.fetches = EmptyStore.fetches
  BY DEF Init
<1>4. SnapInv
  <2> SUFFICES ASSUME NEW d \in Days, NEW s \in Underlyings
               PROVE  SessionInv(d, s)
    BY DEF SnapInv
  <2>1. store.fetches[d][s] = NoFetch /\ \A c \in Contracts : store.rows[d][s][c] = NoRow
    BY <1>3 DEF EmptyStore
  <2> QED
    BY <2>1 DEF SessionInv, NoFetch
<1>5. HoleInv
  <2>1. ChainMarks = {0} /\ 0 \notin Days
    BY Constants DEF Init, Fresh, ChainMarks
  <2> QED
    BY <2>1 DEF Init, HoleInv
<1>6. TapeInv
  BY DEF Init, TapeInv, TapeIsWhole, Fresh
<1> QED
  BY <1>1, <1>2, <1>4, <1>5, <1>6 DEF IInv

LEMMA IInvStep == IInv /\ [Next]_vars => IInv'
BY TypeStep, PassStep, SnapStep, HoleStep, TapeStep DEF IInv

LEMMA Invariant == Spec => []IInv
BY IInvInit, IInvStep, PTL DEF Spec

\* An invariant of the marks, the attempts and the sessions: a chain that is
\* missing on a weekday is missing for one of the reasons HolesAreExplained
\* lists, through any number of restarts, failures and days (main's loop,
\* _due_daily, State).
THEOREM NoSilentHoles == Spec => []HolesAreExplained
<1>1. IInv => HolesAreExplained
  <2> SUFFICES ASSUME IInv, NEW d \in Days \ Weekend, NEW s \in Underlyings,
                      ~HasSession(d, s), d \in awake, attempt[d] \notin {"failed", "cut"}
               PROVE  <<s, d, "chain">> \in lost
    BY DEF HolesAreExplained
  <2>1. attempt[d] = "done"
    BY DEF IInv, HoleInv, TypeOK, ToldType, Ends
  <2> QED
    BY <2>1 DEF IInv, HoleInv, Had
<1> QED
  BY <1>1, Invariant, PTL

LEMMA DiffsRight == IInv => DiffsAreOfTheirCloses
<1> SUFFICES ASSUME IInv, NEW s \in Underlyings, NEW d \in Days,
                    NEW prior, prior = prior_session(store, s, d),
                    {<<s, d, "night">>, <<s, prior, "night">>} \cap lost = {},
                    NEW r \in oi_change(store, s, d)
             PROVE  r.from = r.prior_close /\ r.to = r.as_of_close
  BY DEF DiffsAreOfTheirCloses
<1>1. prior # 0
  BY DEF oi_change
<1>2. prior \in Days
  BY <1>1, PriorType DEF sessions
<1>3. PICK c \in snapshot(store, s, d) \cap snapshot(store, s, prior) :
        r = [contract |-> c,
             from |-> store.rows[prior][s][c].close, to |-> store.rows[d][s][c].close,
             prior_close |-> CloseBefore(prior), as_of_close |-> CloseBefore(d)]
  BY <1>1 DEF oi_change
<1>4. ASSUME NEW e \in {d, prior}
      PROVE  store.rows[e][s][c].close = CloseBefore(e)
  <2>1. c \in Contracts /\ store.rows[e][s][c] # NoRow /\ e \in Days
    BY <1>2, <1>3, <1>4 DEF snapshot
  <2>2. SessionInv(e, s)
    BY <2>1 DEF IInv, SnapInv
  <2>3. <<s, e, "night">> \notin lost
    BY <1>4
  <2> QED
    BY <2>1, <2>2, <2>3 DEF SessionInv
<1> QED
  BY <1>3, <1>4

LEMMA FinalRight == IInv => FinalVolumeIsFinal
<1> SUFFICES ASSUME IInv, NEW s \in Underlyings, NEW d \in Days,
                    volume_basis(store, s, d) = "final",
                    NEW c \in snapshot(store, s, d),
                    c \in InRange[d][store.fetches[d][s].slot]
             PROVE  store.rows[d][s][c].slot >= Post
  BY DEF FinalVolumeIsFinal
<1> DEFINE slots == {store.rows[d][s][k].slot : k \in snapshot(store, s, d)} \cup {-1}
<1>1. \A k \in snapshot(store, s, d) : store.rows[d][s][k].slot \in -1 .. 4
  <2>1. \A k \in snapshot(store, s, d) : store.rows[d][s][k] \in Rows
    BY DEF IInv, TypeOK, StoreType, Stores, snapshot
  <2>2. {-1} \cup Slots = -1 .. 4
    BY Constants
  <2> QED
    BY <2>1, <2>2 DEF Rows
<1>2. slots \in SUBSET Int /\ slots # {} /\ \A x \in slots : x \in -1 .. 4 /\ x <= 4
  BY <1>1
<1>3. Max(slots) \in slots /\ Max(slots) \in -1 .. 4
  <2> HIDE DEF slots
  <2>1. 4 \in Int /\ \A x \in slots : x <= 4
    BY <1>2
  <2>2. Max(slots) \in slots
    BY <1>2, <2>1, MaxOfBounded
  <2> QED
    BY <1>2, <2>2
<1>4. Max(slots) >= Post
  <2> HIDE DEF slots
  <2>1. Max(slots) \notin {-1, Night, Pre, Regular}
    BY DEF volume_basis, slots
  <2> QED
    BY <1>3, <2>1 DEF Night, Pre, Regular, Post
<1>5. PICK k \in snapshot(store, s, d) : store.rows[d][s][k].slot >= Post
  BY <1>3, <1>4, SMTT(30) DEF Post
<1>6. /\ store.fetches[d][s].count > 0
      /\ store.rows[d][s][k].slot <= store.fetches[d][s].slot
      /\ store.rows[d][s][c].slot = store.fetches[d][s].slot
  BY <1>5 DEF IInv, SnapInv, SessionInv, snapshot
<1> QED
  BY <1>1, <1>5, <1>6 DEF Post

\* What is read off the stored snapshots is what it says, whatever strikes the
\* fetches of a day saw, and whenever they ran (write_chain, oi_change,
\* _prior_trading_close, volume_basis).
THEOREM SnapshotsMean == Spec => []SnapshotsMeanWhatTheySay
BY Invariant, DiffsRight, FinalRight, PTL DEF SnapshotsMeanWhatTheySay

\* A hole in the stored bars was never behind a pull that began before it, but
\* for pulls that were silently answered nothing there, through any number of
\* restarts and failures (main's loop, _due_interval, backfill_bars).
THEOREM WholeTape == Spec => []TapeIsWhole
BY Invariant, PTL DEF IInv, TapeInv

\* health() never passes a dated token Schwab refuses (read_token_file,
\* auth_state).
THEOREM UsableMeansAccepted == Spec => []OkMeansAccepted
<1>1. TypeOK => OkMeansAccepted
  <2> SUFFICES ASSUME TypeOK, HealthAllows(token, clock.day), age_source(token) = "creation_timestamp"
               PROVE  Accepted(token, clock.day)
    BY DEF OkMeansAccepted
  <2>1. clock.day \in Nat /\ token.created \in Nat /\ TokenLife \in Nat
    BY AuthAssumption, AtType DEF TypeOK, PassType, TokenType
  <2>2. token_age(token, clock.day) = clock.day - token.created
    BY DEF token_age
  <2>3. token.kind # "absent" /\ token.kind # "corrupt"
    BY DEF HealthAllows, auth_state
  <2>4. has_refresh_token(token) /\ ~(token_age(token, clock.day) >= TokenLife)
    BY <2>3 DEF HealthAllows, auth_state
  <2> QED
    BY <2>1, <2>2, <2>4 DEF Accepted
<1> QED
  BY <1>1, TypeInvariant, PTL

-----------------------------------------------------------------------------
(* The types of the watcher and the alerter.                               *)

Sides == {"above", "below"}
Books == Sides \cup {"over", "under", "none"}
Quotes == [t : Nat, book : Books, volume : Nat \cup {None},
           from : {"schwab", "alpaca", None}, traded : Nat, read : Nat]
Polled == [t : Nat, book : Books, volume : Nat \cup {None}]
Levels == [side : Sides \cup {None}, pending : Sides \cup {None}, snaps : Nat, straddles : Nat,
           vol_at_cross : Nat \cup {None}, t_at_cross : Nat \cup {None}, last_fire : Int]

WatchTypes ==
  /\ time \in Nat /\ traded \in Nat
  /\ watcher \in {"up", "dead"} /\ alerter \in {"off", "up", "dead"}
  /\ doc \in Quotes /\ series \in Seq(Polled)
  /\ level \in Levels
  /\ last_epoch \in Nat /\ age \in Nat /\ stall_fired \in BOOLEAN
  /\ tape \in Seq(Quotes) /\ fires \in SUBSET (1 .. Len(tape))
  /\ mishaps \in Nat

\* What one vendor's total says: shares traded, or nothing when it is zero.
SchwabTotal(s) == s.from = "schwab" => s.volume = Or(s.traded, None)

\* The file, the series and the tape are in the order of the polls.
InOrder ==
  /\ doc.t <= time /\ last_epoch <= doc.t
  /\ SchwabTotal(doc)
  /\ \A i \in DOMAIN tape : tape[i].t <= last_epoch /\ SchwabTotal(tape[i])
  /\ \A i, j \in DOMAIN tape : i < j => tape[i].t < tape[j].t
  /\ \A i \in DOMAIN series : series[i].t <= time
  /\ \A i, j \in DOMAIN series : i < j => series[i].t < series[j].t

-----------------------------------------------------------------------------
(* One step of a level.                                                    *)

\* The helpers on a type.
LEMMA LevelTypes ==
  ASSUME NEW lv \in Levels
  PROVE  /\ reset(lv) \in Levels
         /\ reset(lv) = [side |-> lv.side, pending |-> None, snaps |-> 0, straddles |-> 0,
                         vol_at_cross |-> None, t_at_cross |-> None, last_fire |-> lv.last_fire]
         /\ Undecided(lv) \in Levels
<1>1. reset(lv) = [side |-> lv.side, pending |-> None, snaps |-> 0, straddles |-> 0,
                   vol_at_cross |-> None, t_at_cross |-> None, last_fire |-> lv.last_fire]
  <2> DEFINE q == [NewLevel EXCEPT !.side = lv.side]
  <2>1. q = [side |-> lv.side, pending |-> None, snaps |-> 0, straddles |-> 0,
             vol_at_cross |-> None, t_at_cross |-> None, last_fire |-> -Cooldown]
    BY DEF NewLevel
  <2>2. reset(lv) = [q EXCEPT !.last_fire = lv.last_fire]
    BY DEF reset
  <2> HIDE DEF q
  <2> QED
    BY <2>1, <2>2
<1>2. reset(lv) \in Levels
  BY <1>1 DEF Levels
<1>3. [lv EXCEPT !.straddles = @ + 1] \in Levels
  BY DEF Levels
<1> QED
  BY <1>1, <1>2, <1>3 DEF Undecided

\* What a snapshot makes of a level, by the side its book is on.
LEMMA StepCases ==
  ASSUME NEW lv \in Levels, NEW s, s.book \in Books, s.t \in Nat, s.volume \in Nat \cup {None},
         NEW at_time \in Nat
  PROVE  /\ lv.side = None => step_level(lv, s, at_time) = [lv EXCEPT !.side = mid(s)]
         /\ lv.side # None /\ classify(s) = None => step_level(lv, s, at_time) = Undecided(lv)
         /\ lv.side # None /\ classify(s) = lv.side => step_level(lv, s, at_time) = reset(lv)
         /\ lv.side # None /\ classify(s) \notin {None, lv.side} /\ lv.pending # classify(s)
              => step_level(lv, s, at_time) = BeginCross(lv, classify(s), s)
         /\ lv.side # None /\ classify(s) \notin {None, lv.side} /\ lv.pending = classify(s)
              => step_level(lv, s, at_time) = Confirming(lv, classify(s), s, at_time)
         /\ classify(s) \in Sides \cup {None}
         /\ mid(s) \in Sides \cup {None} /\ (mid(s) = None <=> s.book = "none")
<1>1. classify(s) \in Sides \cup {None}
  BY DEF classify, Sides
<1>2. mid(s) \in Sides \cup {None} /\ (mid(s) = None <=> s.book = "none")
  <2>1. CASE s.book = "none"
    BY <2>1 DEF mid
  <2>2. CASE s.book \in {"above", "over"}
    <3>1. mid(s) = "above"
      BY <2>2 DEF mid
    <3> QED
      BY <2>2, <3>1, LevelAssumption DEF Sides
  <2>3. CASE s.book \in {"below", "under"}
    <3>1. mid(s) = "below"
      BY <2>3 DEF mid
    <3> QED
      BY <2>3, <3>1, LevelAssumption DEF Sides
  <2> QED
    BY <2>1, <2>2, <2>3 DEF Books, Sides
<1>3. lv.side = None => step_level(lv, s, at_time) = [lv EXCEPT !.side = mid(s)]
  BY DEF step_level
<1>4. lv.side # None /\ classify(s) = None => step_level(lv, s, at_time) = Undecided(lv)
  BY DEF step_level
<1>5. lv.side # None /\ classify(s) = lv.side => step_level(lv, s, at_time) = reset(lv)
  BY DEF step_level
<1>6. lv.side # None /\ classify(s) \notin {None, lv.side} /\ lv.pending # classify(s)
         => step_level(lv, s, at_time) = BeginCross(lv, classify(s), s)
  BY DEF step_level
<1>7. lv.side # None /\ classify(s) \notin {None, lv.side} /\ lv.pending = classify(s)
         => step_level(lv, s, at_time) = Confirming(lv, classify(s), s, at_time)
  BY DEF step_level
<1> QED
  BY <1>1, <1>2, <1>3, <1>4, <1>5, <1>6, <1>7

\* A step keeps the type.
LEMMA StepTypes ==
  ASSUME NEW lv \in Levels, NEW s, s.book \in Books, s.t \in Nat, s.volume \in Nat \cup {None},
         NEW at_time \in Nat
  PROVE  step_level(lv, s, at_time) \in Levels
<1> DEFINE cand == classify(s)
<1>1. cand \in Sides \cup {None} /\ mid(s) \in Sides \cup {None}
  BY StepCases
<1>2. [lv EXCEPT !.side = mid(s)] \in Levels
  BY <1>1 DEF Levels
<1>3. BeginCross(lv, cand, s) \in Levels
  BY <1>1 DEF Levels, BeginCross
<1>4. Confirming(lv, cand, s, at_time) \in Levels
  <2>1. [lv EXCEPT !.snaps = @ + 1, !.straddles = 0] \in Levels
    <3>1. [lv EXCEPT !.snaps = @ + 1] \in Levels
      BY DEF Levels
    <3> QED
      BY <3>1 DEF Levels
  <2>2. [reset(lv) EXCEPT !.side = cand, !.last_fire = at_time] \in Levels
    <3>1. reset(lv) \in Levels
      BY LevelTypes
    <3> DEFINE r == reset(lv)
               q == [r EXCEPT !.side = cand]
    <3>2. q \in Levels
      <4> HIDE DEF r, cand
      <4> QED
        BY <1>1, <3>1 DEF Levels, r
    <3>3. [q EXCEPT !.last_fire = at_time] \in Levels
      <4> HIDE DEF q
      <4> QED
        BY <3>2 DEF Levels
    <3> QED
      BY <3>3
  <2> QED
    BY <2>1, <2>2 DEF Confirming
<1>5. reset(lv) \in Levels /\ Undecided(lv) \in Levels
  BY LevelTypes
<1> HIDE DEF cand
<1> QED
  BY <1>2, <1>3, <1>4, <1>5, StepCases DEF cand

-----------------------------------------------------------------------------
(* A tape of snapshots and the crossings on it.                            *)

\* A tape is in order of time; one vendor's totals are shares.
Tape(T) ==
  /\ T \in Seq(Quotes)
  /\ \A i \in DOMAIN T : SchwabTotal(T[i])
  /\ \A i, j \in DOMAIN T : i < j => T[i].t < T[j].t

\* One more snapshot, later than the rest.
Longer(T, s, U) ==
  /\ s \in Quotes /\ SchwabTotal(s)
  /\ \A i \in DOMAIN T : T[i].t < s.t
  /\ U = Append(T, s)

LEMMA TapeGrows ==
  ASSUME NEW T, NEW s, NEW U, Tape(T), Longer(T, s, U)
  PROVE  /\ Tape(U)
         /\ Len(T) \in Nat /\ Len(U) = Len(T) + 1 /\ DOMAIN U = 1 .. Len(U) /\ DOMAIN T = 1 .. Len(T)
         /\ U[Len(U)] = s /\ \A i \in 1 .. Len(T) : U[i] = T[i]
         /\ \A i \in 1 .. Len(U) : U[i] \in Quotes
<1>1. /\ Len(T) \in Nat /\ Len(U) = Len(T) + 1 /\ DOMAIN U = 1 .. Len(U) /\ DOMAIN T = 1 .. Len(T)
      /\ U[Len(U)] = s /\ U \in Seq(Quotes)
      /\ \A i \in 1 .. Len(T) : U[i] = T[i]
  BY DEF Tape, Longer
<1>2. \A i, j \in DOMAIN U : i < j => U[i].t < U[j].t
  <2> SUFFICES ASSUME NEW i \in DOMAIN U, NEW j \in DOMAIN U, i < j PROVE U[i].t < U[j].t
    OBVIOUS
  <2>1. i \in 1 .. Len(T) /\ U[i] = T[i]
    BY <1>1
  <2>2. CASE j \in 1 .. Len(T)
    BY <1>1, <2>1, <2>2 DEF Tape
  <2>3. CASE j = Len(U)
    BY <1>1, <2>1, <2>3 DEF Longer
  <2> QED
    BY <1>1, <2>2, <2>3
<1>3. \A i \in DOMAIN U : SchwabTotal(U[i])
  BY <1>1 DEF Tape, Longer
<1> QED
  BY <1>1, <1>2, <1>3 DEF Tape

\* A book on the old side ends every crossing, one beyond the level none, and
\* is part of one; an undecided one leaves the crossing as it is or ends it.
LEMMA CrossingGrows ==
  ASSUME NEW T, NEW s, NEW U, Tape(T), Longer(T, s, U), NEW side \in Sides, NEW a \in 0 .. Len(T)
  PROVE  /\ classify(s) = side => Crossing(U, a, side) = {}
         /\ classify(s) \notin {None, side} => Crossing(U, a, side) = Crossing(T, a, side) \cup {Len(U)}
         /\ classify(s) = None =>
              Crossing(U, a, side) = IF EndsCrossing(U, Len(U), side) THEN {} ELSE Crossing(T, a, side)
<1> DEFINE n == Len(T)
<1>1. /\ n \in Nat /\ Len(U) = n + 1 /\ U[n + 1] = s
      /\ \A i \in 1 .. n : U[i] = T[i]
  BY TapeGrows
<1>2. \A j \in 1 .. n : EndsCrossing(U, j, side) <=> EndsCrossing(T, j, side)
  <2> SUFFICES ASSUME NEW j \in 1 .. n
               PROVE  EndsCrossing(U, j, side) <=> EndsCrossing(T, j, side)
    OBVIOUS
  <2>1. U[j] = T[j]
    BY <1>1
  <2>2. j > Grace => \A k \in j - Grace .. j : U[k] = T[k]
    BY <1>1, LevelAssumption
  <2> QED
    BY <2>1, <2>2 DEF EndsCrossing
<1>3. None \notin Sides
  BY LevelAssumption DEF Sides
<1>4. Crossing(U, a, side) = {i \in a + 1 .. n + 1 :
         /\ classify(U[i]) \notin {None, side}
         /\ \A j \in i .. n + 1 : ~EndsCrossing(U, j, side)}
  BY <1>1 DEF Crossing
<1>5. Crossing(T, a, side) = {i \in a + 1 .. n :
         /\ classify(T[i]) \notin {None, side}
         /\ \A j \in i .. n : ~EndsCrossing(T, j, side)}
  BY DEF Crossing
<1>6. \A i \in a + 1 .. n : i \in Crossing(U, a, side) <=>
         i \in Crossing(T, a, side) /\ ~EndsCrossing(U, n + 1, side)
  <2> SUFFICES ASSUME NEW i \in a + 1 .. n
               PROVE  i \in Crossing(U, a, side) <=>
                        i \in Crossing(T, a, side) /\ ~EndsCrossing(U, n + 1, side)
    OBVIOUS
  <2>1. i \in 1 .. n /\ U[i] = T[i] /\ i \in a + 1 .. n + 1
    BY <1>1
  <2>2. (\A j \in i .. n + 1 : ~EndsCrossing(U, j, side))
          <=> (\A j \in i .. n : ~EndsCrossing(T, j, side)) /\ ~EndsCrossing(U, n + 1, side)
    <3>1. \A j \in i .. n + 1 : j = n + 1 \/ j \in i .. n
      BY <1>1
    <3>2. n + 1 \in i .. n + 1 /\ \A j \in i .. n : j \in i .. n + 1 /\ j \in 1 .. n
      BY <1>1
    <3> HIDE DEF n
    <3> QED
      BY <1>2, <3>1, <3>2
  <2> QED
    BY <1>4, <1>5, <2>1, <2>2
<1>7. n + 1 \in Crossing(U, a, side) <=>
         classify(s) \notin {None, side} /\ ~EndsCrossing(U, n + 1, side)
  BY <1>1, <1>4
<1>8. \A i \in Crossing(U, a, side) : i \in a + 1 .. n \/ i = n + 1
  BY <1>1, <1>4
<1>9. \A i \in Crossing(T, a, side) : i \in a + 1 .. n
  BY <1>5
<1>10. classify(s) = side => EndsCrossing(U, n + 1, side)
  BY <1>1 DEF EndsCrossing
<1>11. classify(s) \notin {None, side} => ~EndsCrossing(U, n + 1, side)
  BY <1>1, LevelAssumption DEF EndsCrossing
<1> HIDE DEF n
<1>12. Len(U) = n + 1
  BY <1>1
<1> DEFINE C == Crossing(T, a, side)
           D == Crossing(U, a, side)
<1> HIDE DEF C, D
<1>13. \A i : i \in C => i \in a + 1 .. n
  BY <1>9 DEF C
<1>14. \A i : i \in D => (i \in a + 1 .. n /\ i \in C /\ ~EndsCrossing(U, n + 1, side)) \/ i = n + 1
  BY <1>6, <1>8 DEF C, D
<1>15. \A i : i \in C /\ ~EndsCrossing(U, n + 1, side) => i \in D
  BY <1>6, <1>9 DEF C, D
<1>16. n + 1 \in D <=> classify(s) \notin {None, side} /\ ~EndsCrossing(U, n + 1, side)
  BY <1>7 DEF D
<1>17. CASE classify(s) = side
  <2>1. D = {}
    BY <1>10, <1>14, <1>16, <1>17
  <2> QED
    BY <1>3, <1>17, <2>1 DEF D
<1>18. CASE classify(s) \notin {None, side}
  <2>1. D = C \cup {n + 1}
    BY <1>11, <1>14, <1>15, <1>16, <1>18
  <2> QED
    BY <1>12, <1>18, <2>1 DEF C, D
<1>19. CASE classify(s) = None
  <2>1. D = IF EndsCrossing(U, n + 1, side) THEN {} ELSE C
    <3>1. CASE EndsCrossing(U, n + 1, side)
      BY <1>14, <1>16, <3>1
    <3>2. CASE ~EndsCrossing(U, n + 1, side)
      <4>1. D = C
        BY <1>13, <1>14, <1>15, <1>16, <1>19, <3>2
      <4> QED
        BY <3>2, <4>1
    <3> QED
      BY <3>1, <3>2
  <2> QED
    BY <1>3, <1>12, <1>19, <2>1 DEF C, D
<1> QED
  BY <1>17, <1>18, <1>19

-----------------------------------------------------------------------------
(* A level that follows a tape.                                            *)

\* Where a crossing may have begun: at the first quote, or at the last break.
Starts(T, F, a) ==
  /\ a \in 1 .. Len(T)
  /\ F = {} => T[a].book # "none" /\ \A j \in 1 .. a - 1 : T[j].book = "none"
  /\ F # {} => a \in F /\ \A j \in F : j <= a

\* The level knows the crossing C: its first snapshot, how many confirmed it,
\* and how many undecided ones came last.
UnderWay(lv, T, C) ==
  \/ lv.pending = None /\ C = {}
  \/ /\ lv.pending \in Sides /\ lv.pending # lv.side
     /\ \E first \in C : /\ \A i \in C : first <= i
                         /\ lv.t_at_cross = T[first].t /\ lv.vol_at_cross = T[first].volume
     /\ lv.snaps = Cardinality({T[i].t : i \in C})
     /\ lv.straddles <= Grace /\ lv.straddles < Len(T)
     /\ classify(T[Len(T) - lv.straddles]) # None
     /\ \A j \in Len(T) - lv.straddles + 1 .. Len(T) : classify(T[j]) = None

Follows(lv, T, F) ==
  /\ F \in SUBSET (1 .. Len(T))
  /\ lv.side = None => F = {} /\ lv.pending = None /\ \A i \in 1 .. Len(T) : T[i].book = "none"
  /\ F = {} => lv.last_fire = -Cooldown
  /\ lv.side # None =>
       \E a \in 1 .. Len(T) : /\ Starts(T, F, a)
                              /\ F # {} => lv.last_fire = T[a].read
                              /\ UnderWay(lv, T, Crossing(T, a, lv.side))

\* A crossing is a set of snapshots of the tape.
LEMMA CrossingType ==
  ASSUME NEW T, Tape(T), NEW a \in 0 .. Len(T), NEW side
  PROVE  /\ Crossing(T, a, side) \subseteq a + 1 .. Len(T)
         /\ Crossing(T, a, side) \subseteq 1 .. Len(T)
         /\ IsFiniteSet(Crossing(T, a, side))
<1>0. Len(T) \in Nat
  BY DEF Tape
<1>1. Crossing(T, a, side) \subseteq a + 1 .. Len(T)
  BY DEF Crossing
<1>2. Crossing(T, a, side) \subseteq 1 .. Len(T)
  BY <1>0, <1>1
<1>3. IsFiniteSet(1 .. Len(T))
  BY <1>0, FS_Interval
<1> QED
  BY <1>1, <1>2, <1>3, FS_Subset

\* One more snapshot of a crossing is one more point of time.
LEMMA OneMoreTime ==
  ASSUME NEW T, NEW s, NEW U, Tape(T), Longer(T, s, U),
         NEW C \in SUBSET (1 .. Len(T)), IsFiniteSet(C)
  PROVE  /\ {U[i].t : i \in C} = {T[i].t : i \in C}
         /\ Cardinality({T[i].t : i \in C}) \in Nat
         /\ Cardinality({U[i].t : i \in C \cup {Len(U)}}) = Cardinality({T[i].t : i \in C}) + 1
<1> DEFINE n == Len(T)
           A == {T[i].t : i \in C}
           B == {U[i].t : i \in C \cup {Len(U)}}
<1>1. /\ n \in Nat /\ Len(U) = n + 1 /\ U[Len(U)] = s /\ DOMAIN T = 1 .. n
      /\ \A i \in 1 .. n : U[i] = T[i]
  BY TapeGrows
<1>2. {U[i].t : i \in C} = A
  BY <1>1
<1>3. B = A \cup {s.t}
  BY <1>1
<1>4. s.t \notin A
  <2>1. \A i \in C : T[i].t < s.t /\ T[i].t \in Nat /\ s.t \in Nat
    <3>1. \A i \in C : i \in DOMAIN T /\ T[i] \in Quotes
      BY <1>1 DEF Tape
    <3> QED
      BY <3>1 DEF Longer, Quotes
  <2> QED
    BY <2>1
<1>5. IsFiniteSet(A)
  <2> DEFINE f == [i \in C |-> T[i].t]
  <2>1. f \in [C -> A] /\ \A y \in A : \E x \in C : f[x] = y
    OBVIOUS
  <2> HIDE DEF f, A
  <2> QED
    BY <2>1, OntoSize
<1> HIDE DEF A, B
<1> QED
  BY <1>2, <1>3, <1>4, <1>5, FS_AddElement, FS_CardinalityType DEF A, B

\* The parts of a crossing stay what they are as the tape grows.
LEMMA KeptFirst ==
  ASSUME NEW T, NEW s, NEW U, Tape(T), Longer(T, s, U), NEW C \in SUBSET (1 .. Len(T)),
         NEW first \in C, \A i \in C : first <= i
  PROVE  /\ U[first] = T[first]
         /\ \A i \in C \cup {Len(U)} : first <= i
BY TapeGrows

\* An undecided snapshot: one straddle more, or one too many.
LEMMA UndecidedStep ==
  ASSUME NEW T, NEW s, NEW U, Tape(T), Longer(T, s, U),
         NEW lv \in Levels, NEW a \in 1 .. Len(T), lv.side \in Sides,
         UnderWay(lv, T, Crossing(T, a, lv.side)), classify(s) = None
  PROVE  UnderWay(Undecided(lv), U, Crossing(U, a, lv.side))
<1> DEFINE n == Len(T)
           k == lv.straddles
           C == Crossing(T, a, lv.side)
           D == Crossing(U, a, lv.side)
<1>1. /\ n \in Nat /\ Len(U) = n + 1 /\ U[n + 1] = s
      /\ \A i \in 1 .. n : U[i] = T[i]
  BY TapeGrows
<1>2. C \subseteq 1 .. n /\ IsFiniteSet(C)
  BY CrossingType
<1>3. D = IF EndsCrossing(U, n + 1, lv.side) THEN {} ELSE C
  <2>1. a \in 0 .. Len(T)
    BY <1>1
  <2>2. Crossing(U, a, lv.side)
          = IF EndsCrossing(U, Len(U), lv.side) THEN {} ELSE Crossing(T, a, lv.side)
    <3> DEFINE side == lv.side
    <3> HIDE DEF C, D, side
    <3>1. side \in Sides
      BY DEF side
    <3>2. Crossing(U, a, side)
            = IF EndsCrossing(U, Len(U), side) THEN {} ELSE Crossing(T, a, side)
      BY <2>1, <3>1, CrossingGrows
    <3> QED
      BY <3>2 DEF side
  <2> QED
    BY <1>1, <2>2
<1>4. k \in Nat /\ None \notin Sides
  BY LevelAssumption DEF Levels, Sides
<1>5. CASE lv.pending = None /\ C = {}
  <2>1. Undecided(lv) = lv
    BY <1>5 DEF Undecided
  <2> QED
    BY <1>3, <1>5, <2>1 DEF UnderWay
<1>6. CASE lv.pending # None
  <2> DEFINE first == CHOOSE f \in C : /\ \A i \in C : f <= i
                                       /\ lv.t_at_cross = T[f].t /\ lv.vol_at_cross = T[f].volume
  <2>1. /\ lv.pending \in Sides /\ lv.pending # lv.side
        /\ lv.snaps = Cardinality({T[i].t : i \in C})
        /\ k <= Grace /\ k < n /\ classify(T[n - k]) # None
        /\ \A j \in n - k + 1 .. n : classify(T[j]) = None
        /\ \E f \in C : /\ \A i \in C : f <= i
                        /\ lv.t_at_cross = T[f].t /\ lv.vol_at_cross = T[f].volume
    BY <1>6 DEF UnderWay
  <2>2. first \in C /\ (\A i \in C : first <= i)
          /\ lv.t_at_cross = T[first].t /\ lv.vol_at_cross = T[first].volume
    BY <2>1
  <2> HIDE DEF first
  <2>3. CASE k + 1 > Grace
    <3>1. k = Grace
      BY <1>4, <2>1, <2>3, LevelAssumption
    <3>2. \A j \in (n + 1) - Grace .. n + 1 : classify(U[j]) = None
      <4> SUFFICES ASSUME NEW j \in (n + 1) - Grace .. n + 1 PROVE classify(U[j]) = None
        OBVIOUS
      <4>1. CASE j = n + 1
        BY <1>1, <4>1
      <4>2. CASE j # n + 1
        <5>1. j \in n - k + 1 .. n /\ j \in 1 .. n
          <6>1. n \in Nat /\ k \in Nat /\ k < n /\ j # n + 1 /\ k = Grace
            BY <1>1, <1>4, <2>1, <3>1, <4>2
          <6> HIDE DEF n, k
          <6> QED
            BY <6>1
        <5> QED
          BY <1>1, <2>1, <5>1
      <4> QED
        BY <4>1, <4>2
    <3>3. n + 1 > Grace
      BY <1>1, <1>4, <2>1, <3>1
    <3>4. D = {}
      <4>1. EndsCrossing(U, n + 1, lv.side)
        <5> HIDE DEF n
        <5> QED
          BY <3>2, <3>3 DEF EndsCrossing
      <4> QED
        BY <1>3, <4>1
    <3>5. Undecided(lv) = reset(lv) /\ reset(lv).pending = None
      <4>1. Undecided(lv) = reset(lv)
        BY <1>6, <2>3 DEF Undecided
      <4>2. reset(lv).pending = None
        BY LevelTypes
      <4> QED
        BY <4>1, <4>2
    <3> QED
      BY <3>4, <3>5 DEF UnderWay
  <2>4. CASE ~(k + 1 > Grace)
    <3> DEFINE lw == [lv EXCEPT !.straddles = @ + 1]
    <3>1. n - k \in (n + 1) - Grace .. n + 1 /\ n - k \in 1 .. n
      BY <1>1, <1>4, <2>1, <2>4, LevelAssumption
    <3>2. classify(U[n - k]) # None
      BY <1>1, <2>1, <3>1
    <3>3. classify(U[n + 1]) # lv.side
      BY <1>1, <1>4
    <3>4. D = C
      <4>1. ~EndsCrossing(U, n + 1, lv.side)
        <5> HIDE DEF n, k
        <5> QED
          BY <3>1, <3>2, <3>3 DEF EndsCrossing
      <4> QED
        BY <1>3, <4>1
    <3>5. Undecided(lv) = lw
      BY <1>6, <2>4 DEF Undecided
    <3>6. /\ lw.pending = lv.pending /\ lw.side = lv.side /\ lw.snaps = lv.snaps
          /\ lw.t_at_cross = lv.t_at_cross /\ lw.vol_at_cross = lv.vol_at_cross
          /\ lw.straddles = k + 1
      BY DEF Levels
    <3>7. U[first] = T[first]
      BY <1>2, <2>2, KeptFirst
    <3>8. {U[i].t : i \in C} = {T[i].t : i \in C}
      <4>1. C \in SUBSET (1 .. Len(T)) /\ IsFiniteSet(C)
        BY <1>2
      <4> HIDE DEF C
      <4> QED
        BY <1>1, <4>1
    <3>9. /\ k + 1 <= Grace /\ k + 1 < Len(U) /\ Len(U) - (k + 1) = n - k
          /\ \A j \in n - k + 1 .. n + 1 : classify(U[j]) = None
      <4>1. k + 1 <= Grace /\ k + 1 < Len(U) /\ Len(U) - (k + 1) = n - k
        BY <1>1, <1>4, <2>1, <2>4, LevelAssumption
      <4>2. \A j \in n - k + 1 .. n + 1 : j = n + 1 \/ (j \in n - k + 1 .. n /\ j \in 1 .. n)
        BY <1>1, <1>4, <2>1
      <4> HIDE DEF n, k
      <4> QED
        BY <1>1, <2>1, <4>1, <4>2
    <3> HIDE DEF lw, n, k, C, D
    <3>10. \E f \in D : /\ \A i \in D : f <= i
                        /\ lw.t_at_cross = U[f].t /\ lw.vol_at_cross = U[f].volume
      BY <2>2, <3>4, <3>6, <3>7
    <3>11. /\ lw.pending \in Sides /\ lw.pending # lw.side
           /\ lw.snaps = Cardinality({U[i].t : i \in D})
           /\ lw.straddles <= Grace /\ lw.straddles < Len(U)
           /\ classify(U[Len(U) - lw.straddles]) # None
      BY <2>1, <3>2, <3>4, <3>6, <3>8, <3>9
    <3>12. \A j \in Len(U) - lw.straddles + 1 .. Len(U) : classify(U[j]) = None
      BY <1>1, <3>6, <3>9
    <3>13. UnderWay(lw, U, D)
      BY <3>10, <3>11, <3>12 DEF UnderWay
    <3> QED
      BY <3>5, <3>13 DEF D
  <2> QED
    BY <2>3, <2>4
<1> QED
  BY <1>4, <1>5, <1>6 DEF UnderWay

\* The first snapshot beyond the level begins a crossing.
LEMMA BeginStep ==
  ASSUME NEW T, NEW s, NEW U, Tape(T), Longer(T, s, U),
         NEW lv \in Levels, NEW cand \in Sides, lv.side # cand, classify(s) = cand
  PROVE  UnderWay(BeginCross(lv, cand, s), U, {Len(U)})
<1> DEFINE n == Len(T)
           lw == BeginCross(lv, cand, s)
<1>1. n \in Nat /\ Len(U) = n + 1 /\ U[n + 1] = s
  BY TapeGrows
<1>2. /\ lw.pending = cand /\ lw.side = lv.side /\ lw.snaps = 1 /\ lw.straddles = 0
      /\ lw.t_at_cross = s.t /\ lw.vol_at_cross = s.volume
  BY DEF Levels, BeginCross
<1>3. {U[i].t : i \in {n + 1}} = {s.t}
  BY <1>1
<1>4. Cardinality({s.t}) = 1
  BY FS_Singleton
<1>5. cand # None
  BY LevelAssumption DEF Sides
<1>6. \A j \in Len(U) - 0 + 1 .. Len(U) : FALSE
  BY <1>1
<1>7. /\ lw.snaps = Cardinality({U[i].t : i \in {n + 1}})
      /\ lw.straddles <= Grace /\ lw.straddles < Len(U)
      /\ classify(U[Len(U) - lw.straddles]) # None
  <2> HIDE DEF lw
  <2>1. lw.snaps = Cardinality({U[i].t : i \in {n + 1}})
    BY <1>2, <1>3, <1>4, Zenon
  <2>2. /\ lw.straddles <= Grace /\ lw.straddles < Len(U)
        /\ classify(U[Len(U) - lw.straddles]) # None
    BY <1>1, <1>2, <1>5, LevelAssumption
  <2> QED
    BY <2>1, <2>2
<1>8. \E f \in {n + 1} : /\ \A i \in {n + 1} : f <= i
                         /\ lw.t_at_cross = U[f].t /\ lw.vol_at_cross = U[f].volume
  BY <1>1, <1>2
<1> HIDE DEF lw
<1>9. \A j \in (Len(U) - lw.straddles) + 1 .. Len(U) : classify(U[j]) = None
  BY <1>2, <1>6
<1> QED
  BY <1>1, <1>2, <1>7, <1>8, <1>9 DEF UnderWay, lw

\* Another one confirms it.
LEMMA ConfirmStep ==
  ASSUME NEW T, NEW s, NEW U, Tape(T), Longer(T, s, U),
         NEW lv \in Levels, NEW cand \in Sides, lv.pending = cand, classify(s) = cand,
         NEW C \in SUBSET (1 .. Len(T)), IsFiniteSet(C), UnderWay(lv, T, C)
  PROVE  UnderWay([lv EXCEPT !.snaps = @ + 1, !.straddles = 0], U, C \cup {Len(U)})
<1> DEFINE n == Len(T)
           lw == [lv EXCEPT !.snaps = @ + 1, !.straddles = 0]
<1>1. n \in Nat /\ Len(U) = n + 1 /\ U[n + 1] = s
  BY TapeGrows
<1>2. /\ lw.pending = cand /\ lw.side = lv.side /\ lw.snaps = lv.snaps + 1 /\ lw.straddles = 0
      /\ lw.t_at_cross = lv.t_at_cross /\ lw.vol_at_cross = lv.vol_at_cross
  <2> DEFINE l == [lv EXCEPT !.snaps = @ + 1]
  <2>1. /\ l \in Levels
        /\ l.pending = cand /\ l.side = lv.side /\ l.snaps = lv.snaps + 1
        /\ l.t_at_cross = lv.t_at_cross /\ l.vol_at_cross = lv.vol_at_cross
    BY DEF Levels
  <2>2. lw = [l EXCEPT !.straddles = 0]
    OBVIOUS
  <2> HIDE DEF l, lw
  <2> QED
    BY <2>1, <2>2 DEF Levels
<1> HIDE DEF lw
<1>3. cand # None
  BY LevelAssumption DEF Sides
<1>4. /\ cand # lv.side /\ lv.snaps = Cardinality({T[i].t : i \in C})
      /\ \E f \in C : /\ \A i \in C : f <= i
                      /\ lv.t_at_cross = T[f].t /\ lv.vol_at_cross = T[f].volume
  BY <1>3 DEF UnderWay
<1>5. PICK f \in C : /\ \A i \in C : f <= i
                     /\ lv.t_at_cross = T[f].t /\ lv.vol_at_cross = T[f].volume
  BY <1>4
<1>6. U[f] = T[f] /\ \A i \in C \cup {Len(U)} : f <= i
  BY <1>5, KeptFirst
<1>7. \E g \in C \cup {Len(U)} : /\ \A i \in C \cup {Len(U)} : g <= i
                                 /\ lw.t_at_cross = U[g].t /\ lw.vol_at_cross = U[g].volume
  BY <1>2, <1>5, <1>6
<1>8. Cardinality({U[i].t : i \in C \cup {Len(U)}}) = lw.snaps
  BY <1>2, <1>4, OneMoreTime
<1>9. /\ lw.straddles <= Grace /\ lw.straddles < Len(U)
      /\ classify(U[Len(U) - lw.straddles]) # None
  BY <1>1, <1>2, <1>3, LevelAssumption
<1>10. \A j \in (Len(U) - lw.straddles) + 1 .. Len(U) : classify(U[j]) = None
  BY <1>1, <1>2
<1> QED
  BY <1>2, <1>4, <1>7, <1>8, <1>9, <1>10 DEF UnderWay, lw

-----------------------------------------------------------------------------
(* A break is earned.                                                      *)

\* Totals of one vendor that are not zero.
Totals(U, a) == \A i \in a .. Len(U) : U[i].from = "schwab" /\ U[i].traded > 0

\* No break with the first snapshot of a crossing, nor outside of one.
LEMMA NotEarned ==
  ASSUME NEW T, NEW s, NEW U, Tape(T), Longer(T, s, U), NEW a, NEW side,
         Len(U) \notin Crossing(U, a, side) \/ Crossing(U, a, side) = {Len(U)}
  PROVE  ~Earned(U, a, side)
<1>1. U[Len(U)].t \in Nat
  BY TapeGrows DEF Longer, Quotes
<1>2. ~(U[Len(U)].t > U[Len(U)].t)
  BY <1>1
<1> QED
  BY <1>2 DEF Earned

\* The level reports a break when the tape earned it and the cooldown is over.
LEMMA EarnedStep ==
  ASSUME NEW T, NEW s, NEW U, Tape(T), Longer(T, s, U), NEW a \in 1 .. Len(T), NEW side,
         NEW lv \in Levels, lv.pending # None, Totals(U, a),
         Crossing(T, a, side) \subseteq a + 1 .. Len(T), IsFiniteSet(Crossing(T, a, side)),
         UnderWay(lv, T, Crossing(T, a, side)),
         Crossing(U, a, side) = Crossing(T, a, side) \cup {Len(U)},
         NEW at_time
  PROVE  Confirmed(lv, s, at_time) <=> Earned(U, a, side) /\ at_time - lv.last_fire >= Cooldown
<1> DEFINE n == Len(T)
           C == Crossing(T, a, side)
           D == Crossing(U, a, side)
<1>1. /\ n \in Nat /\ Len(U) = n + 1 /\ U[n + 1] = s
      /\ \A i \in 1 .. n : U[i] = T[i] /\ T[i] \in Quotes
      /\ \A i \in 1 .. n : T[i].t < s.t /\ SchwabTotal(T[i])
      /\ s \in Quotes /\ SchwabTotal(s)
  BY TapeGrows DEF Longer, Tape
<1>2. C \in SUBSET (1 .. n) /\ IsFiniteSet(C)
  BY <1>1
<1>3. /\ lv.snaps = Cardinality({T[i].t : i \in C})
      /\ \E f \in C : /\ \A i \in C : f <= i
                      /\ lv.t_at_cross = T[f].t /\ lv.vol_at_cross = T[f].volume
  BY DEF UnderWay
<1>4. PICK f \in C : /\ \A i \in C : f <= i
                     /\ lv.t_at_cross = T[f].t /\ lv.vol_at_cross = T[f].volume
  BY <1>3
<1>5. f \in D /\ n + 1 \in D /\ U[f] = T[f] /\ f \in 1 .. n /\ f \in a .. n + 1 /\ n + 1 \in a .. n + 1
      /\ \A i \in D : f <= i
  <2>1. U[f] = T[f] /\ \A i \in C \cup {Len(U)} : f <= i
    <3> HIDE DEF C
    <3> QED
      BY <1>2, <1>4, KeptFirst
  <2> QED
    BY <1>1, <1>2, <1>4, <2>1
<1>6. \A g \in D : (\A i \in D : g <= i) => g = f
  <2>1. \A g \in D : g \in Nat
    BY <1>1, <1>2
  <2> QED
    BY <1>5, <2>1
<1>7. Cardinality({U[i].t : i \in D}) = lv.snaps + 1
  <2>1. D = C \cup {Len(U)}
    OBVIOUS
  <2> HIDE DEF C, D
  <2> QED
    BY <1>2, <1>3, <2>1, OneMoreTime
<1>8. Traded(lv, s) = s.traded - U[f].traded
  <2>1. /\ s.from = "schwab" /\ s.traded > 0 /\ s.traded \in Nat
        /\ U[f].from = "schwab" /\ U[f].traded > 0 /\ U[f].traded \in Nat
    BY <1>1, <1>5 DEF Totals, Quotes
  <2>2. s.volume = s.traded /\ lv.vol_at_cross = U[f].traded
    BY <1>1, <1>4, <1>5, <2>1, LevelAssumption DEF SchwabTotal, Or
  <2> QED
    BY <2>1, <2>2, LevelAssumption DEF Traded, Or
<1>9. U[f].t < s.t /\ lv.t_at_cross = U[f].t
  BY <1>1, <1>4, <1>5
<1>10. U[f].t \in Nat /\ s.t \in Nat
  BY <1>1, <1>5 DEF Quotes
<1> DEFINE paced == s.traded - U[f].traded >= MinPace * (s.t - U[f].t)
<1>11. Confirmed(lv, s, at_time) <=> lv.snaps + 1 >= Confirm /\ paced /\ at_time - lv.last_fire >= Cooldown
  BY <1>8, <1>9 DEF Confirmed
<1>12. Earned(U, a, side) <=> paced /\ lv.snaps + 1 >= Confirm
  <2>1. Earned(U, a, side) <=>
          /\ n + 1 \in D
          /\ \E g \in D : /\ \A i \in D : g <= i
                          /\ s.t > U[g].t
                          /\ s.traded - U[g].traded >= MinPace * (s.t - U[g].t)
          /\ lv.snaps + 1 >= Confirm
    BY <1>1, <1>7 DEF Earned
  <2>2. s.t > U[f].t
    BY <1>9, <1>10
  <2> HIDE DEF D
  <2> QED
    BY <1>5, <1>6, <2>1, <2>2
<1> HIDE DEF paced
<1> QED
  BY <1>11, <1>12

-----------------------------------------------------------------------------
(* A level follows its tape, one snapshot after the other.                 *)

\* A break or the first quote is where crossings may begin from then on.
LEMMA StartsKept ==
  ASSUME NEW T, NEW s, NEW U, Tape(T), Longer(T, s, U),
         NEW F \in SUBSET (1 .. Len(T)), NEW a \in 1 .. Len(T), Starts(T, F, a)
  PROVE  Starts(U, F, a) /\ U[a] = T[a] /\ a \in 1 .. Len(U)
<1>1. /\ Len(T) \in Nat /\ Len(U) = Len(T) + 1
      /\ \A i \in 1 .. Len(T) : U[i] = T[i]
  BY TapeGrows
<1>2. \A j \in 1 .. a - 1 : j \in 1 .. Len(T)
  BY <1>1
<1> QED
  BY <1>1, <1>2 DEF Starts

\* A new break starts from the end of the tape, with no crossing under way.
LEMMA BreakStarts ==
  ASSUME NEW T, NEW s, NEW U, Tape(T), Longer(T, s, U),
         NEW F \in SUBSET (1 .. Len(T)), NEW side
  PROVE  /\ Starts(U, F \cup {Len(U)}, Len(U)) /\ Len(U) \in 1 .. Len(U)
         /\ F \cup {Len(U)} \in SUBSET (1 .. Len(U))
         /\ Crossing(U, Len(U), side) = {}
<1>1. Len(T) \in Nat /\ Len(U) = Len(T) + 1
  BY TapeGrows
<1>2. Crossing(U, Len(U), side) = {}
  BY <1>1 DEF Crossing
<1> DEFINE G == F \cup {Len(U)}
<1>3. Len(U) \in 1 .. Len(U) /\ G \in SUBSET (1 .. Len(U)) /\ Len(U) \in G /\ G # {}
  <2>1. Len(U) \in 1 .. Len(U) /\ 1 .. Len(T) \subseteq 1 .. Len(U)
    BY <1>1
  <2> QED
    BY <2>1
<1>4. \A j \in G : j <= Len(U)
  BY <1>1
<1> HIDE DEF G
<1>5. Starts(U, G, Len(U))
  BY <1>3, <1>4 DEF Starts
<1> QED
  BY <1>2, <1>3, <1>5 DEF G

\* The breaks after one more snapshot.
FiresAfter(F, lv, lw, U) == F \cup (IF Fires(lv, lw) THEN {Len(U)} ELSE {})

\* A level without a side looks for the first quote.
LEMMA BaselineStep ==
  ASSUME NEW T, NEW s, NEW U, Tape(T), Longer(T, s, U),
         NEW lv \in Levels, NEW F, Follows(lv, T, F), lv.side = None, NEW at_time \in Nat
  PROVE  LET lw == step_level(lv, s, at_time)
         IN  /\ ~Fires(lv, lw) /\ F = {}
             /\ Follows(lw, U, F)
             /\ lw.side # None => Starts(U, {}, Len(U)) /\ Crossing(U, Len(U), lw.side) = {}
<1> DEFINE n == Len(T)
           lw == step_level(lv, s, at_time)
<1>1. /\ n \in Nat /\ Len(U) = n + 1 /\ U[n + 1] = s
      /\ \A i \in 1 .. n : U[i] = T[i]
  BY TapeGrows
<1>2. s.book \in Books /\ s.t \in Nat /\ s.volume \in Nat \cup {None}
  BY DEF Longer, Quotes
<1>3. lw = [lv EXCEPT !.side = mid(s)] /\ (mid(s) = None <=> s.book = "none")
  BY <1>2, StepCases
<1>4. lw.side = mid(s) /\ lw.pending = lv.pending /\ lw.last_fire = lv.last_fire
  BY <1>3 DEF Levels
<1>5. F = {} /\ lv.pending = None /\ lv.last_fire = -Cooldown
        /\ \A i \in 1 .. n : T[i].book = "none"
  BY DEF Follows
<1>6. ~Fires(lv, lw)
  BY DEF Fires
<1> HIDE DEF lw
<1>7. \A i \in 1 .. n : U[i].book = "none"
  BY <1>1, <1>5
<1>8. CASE lw.side = None
  <2>1. \A i \in 1 .. Len(U) : U[i].book = "none"
    BY <1>1, <1>3, <1>4, <1>7, <1>8
  <2> QED
    BY <1>4, <1>5, <1>6, <1>8, <2>1 DEF Follows, lw
<1>9. CASE lw.side # None
  <2>1. Starts(U, {}, n + 1)
    BY <1>1, <1>3, <1>4, <1>7, <1>9 DEF Starts
  <2>2. Crossing(U, n + 1, lw.side) = {}
    BY <1>1 DEF Crossing
  <2>3. UnderWay(lw, U, Crossing(U, n + 1, lw.side))
    BY <1>4, <1>5, <2>2 DEF UnderWay
  <2>4. n + 1 \in 1 .. Len(U)
    BY <1>1
  <2>5. Follows(lw, U, F)
    BY <1>4, <1>5, <1>9, <2>1, <2>3, <2>4 DEF Follows
  <2> QED
    BY <1>1, <1>5, <1>6, <2>1, <2>2, <2>5 DEF lw
<1> QED
  BY <1>8, <1>9

\* A level with a side: it goes on to follow the tape, and reports what the tape
\* since its start earned.
LEMMA SideStep ==
  ASSUME NEW T, NEW s, NEW U, Tape(T), Longer(T, s, U),
         NEW lv \in Levels, NEW F, Follows(lv, T, F), NEW side \in Sides, lv.side = side,
         NEW at_time \in Nat, s.read = at_time
  PROVE  LET lw == step_level(lv, s, at_time)
         IN  /\ Follows(lw, U, FiresAfter(F, lv, lw, U))
             /\ Fires(lv, lw) => lw.side # lv.side /\ lw.side \in Sides
             /\ \E a \in 1 .. Len(T) :
                  /\ Starts(T, F, a)
                  /\ Totals(U, a) =>
                       (Fires(lv, lw) <=> /\ Earned(U, a, side)
                                          /\ (F = {} \/ at_time - U[a].read >= Cooldown))
<1> DEFINE n == Len(T)
           lw == step_level(lv, s, at_time)
           cand == classify(s)
<1>1. /\ n \in Nat /\ Len(U) = n + 1 /\ U[n + 1] = s
      /\ \A i \in 1 .. n : U[i] = T[i]
  BY TapeGrows
<1>2. s.book \in Books /\ s.t \in Nat /\ s.volume \in Nat \cup {None}
  BY DEF Longer, Quotes
<1>3. None \notin Sides
  BY LevelAssumption DEF Sides
<1>4. PICK a \in 1 .. n : /\ Starts(T, F, a)
                          /\ F # {} => lv.last_fire = T[a].read
                          /\ UnderWay(lv, T, Crossing(T, a, side))
  BY <1>3 DEF Follows
<1> DEFINE C == Crossing(T, a, side)
           D == Crossing(U, a, side)
<1>5. C \subseteq a + 1 .. n /\ C \in SUBSET (1 .. n) /\ IsFiniteSet(C) /\ a \in 0 .. n
  BY <1>1, CrossingType
<1>6. F \in SUBSET (1 .. n) /\ (F = {} => lv.last_fire = -Cooldown)
  BY DEF Follows
<1>7. Starts(U, F, a) /\ U[a] = T[a] /\ a \in 1 .. Len(U) /\ F \in SUBSET (1 .. Len(U))
  <2>1. Starts(U, F, a) /\ U[a] = T[a] /\ a \in 1 .. Len(U)
    BY <1>4, <1>6, StartsKept
  <2> QED
    BY <1>1, <1>6, <2>1
<1> DEFINE Told ==
      /\ Follows(lw, U, FiresAfter(F, lv, lw, U))
      /\ Fires(lv, lw) => lw.side # lv.side /\ lw.side \in Sides
      /\ Totals(U, a) => (Fires(lv, lw) <=> /\ Earned(U, a, side)
                                            /\ (F = {} \/ at_time - U[a].read >= Cooldown))
<1>8. ASSUME lw.side = side, lw.last_fire = lv.last_fire, UnderWay(lw, U, D)
      PROVE  Follows(lw, U, F) /\ ~Fires(lv, lw) /\ FiresAfter(F, lv, lw, U) = F
  <2>1. ~Fires(lv, lw)
    BY <1>8 DEF Fires
  <2>2. FiresAfter(F, lv, lw, U) = F
    BY <2>1 DEF FiresAfter
  <2>3. lw.side # None /\ (F = {} => lw.last_fire = -Cooldown)
    BY <1>3, <1>6, <1>8
  <2>4. /\ Starts(U, F, a)
        /\ F # {} => lw.last_fire = U[a].read
        /\ UnderWay(lw, U, Crossing(U, a, lw.side))
    BY <1>4, <1>7, <1>8
  <2> HIDE DEF lw, n
  <2>5. Follows(lw, U, F)
    BY <1>7, <2>3, <2>4 DEF Follows
  <2> QED
    BY <2>1, <2>2, <2>5
<1>9. ASSUME Follows(lw, U, F), ~Fires(lv, lw), FiresAfter(F, lv, lw, U) = F,
             n + 1 \notin D \/ D = {n + 1}
      PROVE  Told
  <2>1. ~Earned(U, a, side)
    BY <1>1, <1>9, NotEarned
  <2> HIDE DEF lw
  <2> QED
    BY <1>9, <2>1
<1>10. ASSUME cand = None PROVE Told
  <2>1. lw = Undecided(lv)
    BY <1>2, <1>3, <1>10, StepCases
  <2>2. UnderWay(Undecided(lv), U, Crossing(U, a, lv.side))
    BY <1>4, <1>10, UndecidedStep
  <2>3. lw.side = side /\ lw.last_fire = lv.last_fire
    <3>1. /\ reset(lv).side = side /\ reset(lv).last_fire = lv.last_fire
      BY LevelTypes
    <3>2. LET l == [lv EXCEPT !.straddles = @ + 1] IN l.side = side /\ l.last_fire = lv.last_fire
      BY DEF Levels
    <3> QED
      BY <2>1, <3>1, <3>2 DEF Undecided
  <2>4. n + 1 \notin D
    <3>1. D \subseteq C
      BY <1>5, <1>10, CrossingGrows
    <3> QED
      BY <1>1, <1>5, <3>1
  <2>5. UnderWay(lw, U, D)
    BY <2>1, <2>2
  <2> HIDE DEF lw, D, Told
  <2> QED
    BY <1>8, <1>9, <2>3, <2>4, <2>5
<1>11. ASSUME cand = side PROVE Told
  <2>1. lw = reset(lv)
    BY <1>2, <1>3, <1>11, StepCases
  <2>2. D = {}
    BY <1>5, <1>11, CrossingGrows
  <2>3. lw.side = side /\ lw.last_fire = lv.last_fire /\ lw.pending = None
    BY <2>1, LevelTypes
  <2>4. UnderWay(lw, U, D)
    BY <2>2, <2>3 DEF UnderWay
  <2> HIDE DEF lw, D, Told
  <2> QED
    BY <1>8, <1>9, <2>2, <2>3, <2>4
<1>12. ASSUME cand \notin {None, side} /\ lv.pending # cand PROVE Told
  <2>1. lw = BeginCross(lv, cand, s)
    BY <1>2, <1>3, <1>12, StepCases
  <2>2. cand \in Sides /\ classify(s) = cand
    BY <1>2, <1>12, StepCases
  <2>3. lw.side = side /\ lw.last_fire = lv.last_fire
    BY <2>1 DEF Levels, BeginCross
  <2>4. lv.pending = None /\ C = {}
    BY <1>4, <1>12, <2>2 DEF UnderWay, Sides
  <2>5. D = {Len(U)}
    BY <1>5, <1>12, <2>4, CrossingGrows
  <2>6. UnderWay(BeginCross(lv, cand, s), U, {Len(U)})
    <3> HIDE DEF cand
    <3> QED
      BY <1>12, <2>2, BeginStep
  <2>7. UnderWay(lw, U, D) /\ D = {n + 1}
    BY <1>1, <2>1, <2>5, <2>6
  <2> HIDE DEF lw, D, Told
  <2> QED
    BY <1>8, <1>9, <2>3, <2>7
<1>13. ASSUME cand \notin {None, side} /\ lv.pending = cand PROVE Told
  <2>1. lw = Confirming(lv, cand, s, at_time)
    BY <1>2, <1>3, <1>13, StepCases
  <2>2. cand \in Sides /\ classify(s) = cand
    BY <1>2, <1>13, StepCases
  <2>3. D = C \cup {Len(U)}
    BY <1>5, <1>13, CrossingGrows
  <2>4. Totals(U, a) =>
          (Confirmed(lv, s, at_time) <=> Earned(U, a, side) /\ at_time - lv.last_fire >= Cooldown)
    <3>1. lv.pending # None /\ at_time \in Nat
      BY <1>13
    <3> HIDE DEF cand
    <3> QED
      BY <1>4, <1>5, <2>3, <3>1, EarnedStep
  <2>5. at_time - lv.last_fire >= Cooldown <=> (F = {} \/ at_time - U[a].read >= Cooldown)
    <3>1. CASE F = {}
      BY <1>6, <3>1, LevelAssumption
    <3>2. CASE F # {}
      BY <1>4, <1>7, <3>2
    <3> QED
      BY <3>1, <3>2
  <2>6. CASE Confirmed(lv, s, at_time)
    <3>1. lw = [reset(lv) EXCEPT !.side = cand, !.last_fire = at_time]
      BY <2>1, <2>6 DEF Confirming
    <3>2. lw.side = cand /\ lw.last_fire = at_time /\ lw.pending = None
      <4> DEFINE q == [reset(lv) EXCEPT !.side = cand]
      <4>1. q \in Levels /\ q.side = cand /\ q.pending = None
        <5>1. reset(lv) \in Levels /\ reset(lv).pending = None
          BY LevelTypes
        <5> HIDE DEF cand
        <5> QED
          BY <2>2, <5>1 DEF Levels
      <4>2. lw = [q EXCEPT !.last_fire = at_time]
        BY <3>1
      <4> HIDE DEF q, lw
      <4> QED
        BY <4>1, <4>2 DEF Levels
    <3>3. Fires(lv, lw)
      BY <1>3, <1>13, <3>2 DEF Fires
    <3>4. FiresAfter(F, lv, lw, U) = F \cup {Len(U)}
      BY <3>3 DEF FiresAfter
    <3> DEFINE G == F \cup {Len(U)}
    <3>5. /\ Starts(U, G, Len(U)) /\ Len(U) \in 1 .. Len(U)
          /\ G \in SUBSET (1 .. Len(U)) /\ G # {}
          /\ Crossing(U, Len(U), lw.side) = {}
      <4> DEFINE x == lw.side
      <4> HIDE DEF x
      <4>1. Crossing(U, Len(U), x) = {}
        BY <1>6, BreakStarts
      <4>2. /\ Starts(U, F \cup {Len(U)}, Len(U)) /\ Len(U) \in 1 .. Len(U)
            /\ F \cup {Len(U)} \in SUBSET (1 .. Len(U))
        BY <1>6, BreakStarts
      <4> HIDE DEF lw
      <4> QED
        BY <4>1, <4>2 DEF x
    <3>6. lw.last_fire = U[Len(U)].read
      BY <1>1, <3>2
    <3> HIDE DEF lw, cand, D, G
    <3>7. UnderWay(lw, U, Crossing(U, Len(U), lw.side))
      BY <3>2, <3>5 DEF UnderWay
    <3>8. lw.side # None
      BY <1>3, <2>2, <3>2
    <3>9. Follows(lw, U, G)
      BY <3>5, <3>6, <3>7, <3>8 DEF Follows
    <3> QED
      BY <1>13, <2>2, <2>4, <2>5, <2>6, <3>2, <3>3, <3>4, <3>9 DEF G
  <2>7. CASE ~Confirmed(lv, s, at_time)
    <3> DEFINE l == [lv EXCEPT !.snaps = @ + 1, !.straddles = 0]
    <3>1. lw = l
      BY <2>1, <2>7 DEF Confirming
    <3>2. l.side = side /\ l.last_fire = lv.last_fire
      <4> DEFINE q == [lv EXCEPT !.snaps = @ + 1]
      <4>1. q \in Levels /\ q.side = side /\ q.last_fire = lv.last_fire
        BY DEF Levels
      <4>2. l = [q EXCEPT !.straddles = 0]
        OBVIOUS
      <4> HIDE DEF q, l
      <4> QED
        BY <4>1, <4>2 DEF Levels
    <3>3. UnderWay(l, U, C \cup {Len(U)})
      <4> HIDE DEF cand, C
      <4> QED
        BY <1>4, <1>5, <1>13, <2>2, ConfirmStep DEF C
    <3>4. Follows(lw, U, F) /\ ~Fires(lv, lw) /\ FiresAfter(F, lv, lw, U) = F
      <4> HIDE DEF lw, l, D, C
      <4> QED
        BY <1>8, <2>3, <3>1, <3>2, <3>3
    <3> HIDE DEF lw, l
    <3> QED
      BY <2>4, <2>5, <2>7, <3>4
  <2> QED
    BY <2>6, <2>7
<1>14. Told
  <2> HIDE DEF Told
  <2> QED
    BY <1>10, <1>11, <1>12, <1>13
<1> QED
  BY <1>4, <1>14

-----------------------------------------------------------------------------
(* Replays of a series.                                                    *)

\* Two snapshots that a level cannot tell apart, and two levels that no
\* snapshot can: a total of zero is as good as none.
AlikeSnapshots(s, q) == s.book = q.book /\ s.t = q.t /\ Or(s.volume, 0) = Or(q.volume, 0)
AlikeLevels(lv, rv) ==
  /\ lv.side = rv.side /\ lv.pending = rv.pending /\ lv.snaps = rv.snaps
  /\ lv.straddles = rv.straddles /\ lv.t_at_cross = rv.t_at_cross /\ lv.last_fire = rv.last_fire
  /\ Or(lv.vol_at_cross, 0) = Or(rv.vol_at_cross, 0)

LEMMA AlikeTraded ==
  ASSUME NEW lv \in Levels, NEW rv \in Levels, AlikeLevels(lv, rv),
         NEW s, NEW q, AlikeSnapshots(s, q)
  PROVE  Traded(lv, s) = Traded(rv, q)
<1> DEFINE v == lv.vol_at_cross
           w == rv.vol_at_cross
           x == Or(s.volume, 0)
<1>1. v \in Nat \cup {None} /\ w \in Nat \cup {None} /\ Or(v, 0) = Or(w, 0)
  BY DEF Levels, AlikeLevels
<1>2. Or(q.volume, 0) = x
  BY DEF AlikeSnapshots
<1>3. Or(v, x) = Or(w, x)
  <2> HIDE DEF v, w, x
  <2> QED
    BY <1>1, LevelAssumption DEF Or
<1> QED
  BY <1>2, <1>3 DEF Traded

\* Alike levels stay alike.
LEMMA AlikeStep ==
  ASSUME NEW lv \in Levels, NEW rv \in Levels, AlikeLevels(lv, rv),
         NEW s, s.book \in Books, s.t \in Nat, s.volume \in Nat \cup {None},
         NEW q, q.book \in Books, q.t \in Nat, q.volume \in Nat \cup {None},
         AlikeSnapshots(s, q), NEW at_time \in Nat
  PROVE  AlikeLevels(step_level(lv, s, at_time), step_level(rv, q, at_time))
<1> DEFINE lw == step_level(lv, s, at_time)
           rw == step_level(rv, q, at_time)
           cand == classify(s)
<1>1. classify(q) = cand /\ mid(q) = mid(s) /\ q.t = s.t
  BY DEF classify, mid, AlikeSnapshots
<1>2. lv.side = rv.side /\ lv.pending = rv.pending
  BY DEF AlikeLevels
<1>3. None \notin Sides
  BY LevelAssumption DEF Sides
<1>4. AlikeLevels(reset(lv), reset(rv))
  <2>1. /\ reset(lv) = [side |-> lv.side, pending |-> None, snaps |-> 0, straddles |-> 0,
                        vol_at_cross |-> None, t_at_cross |-> None, last_fire |-> lv.last_fire]
        /\ reset(rv) = [side |-> rv.side, pending |-> None, snaps |-> 0, straddles |-> 0,
                        vol_at_cross |-> None, t_at_cross |-> None, last_fire |-> rv.last_fire]
    BY LevelTypes
  <2> QED
    BY <2>1 DEF AlikeLevels
<1>5. CASE lv.side = None
  <2>1. lw = [lv EXCEPT !.side = mid(s)] /\ rw = [rv EXCEPT !.side = mid(q)]
    BY <1>2, <1>5, StepCases
  <2> QED
    BY <1>1, <2>1 DEF Levels, AlikeLevels
<1>6. CASE lv.side # None /\ cand = None
  <2>1. lw = Undecided(lv) /\ rw = Undecided(rv)
    BY <1>1, <1>2, <1>6, StepCases
  <2>2. AlikeLevels([lv EXCEPT !.straddles = @ + 1], [rv EXCEPT !.straddles = @ + 1])
    BY DEF Levels, AlikeLevels
  <2>3. lv.straddles = rv.straddles
    BY DEF AlikeLevels
  <2>4. CASE lv.pending = None
    BY <1>2, <2>1, <2>4 DEF Undecided
  <2>5. CASE lv.pending # None /\ lv.straddles + 1 > Grace
    BY <1>2, <1>4, <2>1, <2>3, <2>5 DEF Undecided
  <2>6. CASE lv.pending # None /\ ~(lv.straddles + 1 > Grace)
    BY <1>2, <2>1, <2>2, <2>3, <2>6 DEF Undecided
  <2> QED
    BY <2>4, <2>5, <2>6
<1>7. CASE lv.side # None /\ cand = lv.side
  <2>1. lw = reset(lv) /\ rw = reset(rv)
    BY <1>1, <1>2, <1>7, StepCases
  <2> QED
    BY <1>4, <2>1
<1>8. CASE lv.side # None /\ cand \notin {None, lv.side} /\ lv.pending # cand
  <2>1. lw = BeginCross(lv, cand, s) /\ rw = BeginCross(rv, cand, q)
    BY <1>1, <1>2, <1>8, StepCases
  <2>2. /\ lw.side = lv.side /\ lw.pending = cand /\ lw.snaps = 1 /\ lw.straddles = 0
        /\ lw.vol_at_cross = s.volume /\ lw.t_at_cross = s.t /\ lw.last_fire = lv.last_fire
    BY <2>1 DEF Levels, BeginCross
  <2>3. /\ rw.side = rv.side /\ rw.pending = cand /\ rw.snaps = 1 /\ rw.straddles = 0
        /\ rw.vol_at_cross = q.volume /\ rw.t_at_cross = q.t /\ rw.last_fire = rv.last_fire
    BY <2>1 DEF Levels, BeginCross
  <2>4. lv.side = rv.side /\ lv.last_fire = rv.last_fire /\ Or(s.volume, 0) = Or(q.volume, 0)
    BY DEF AlikeLevels, AlikeSnapshots
  <2> HIDE DEF lw, rw, cand
  <2>5. AlikeLevels(lw, rw)
    BY <1>1, <2>2, <2>3, <2>4 DEF AlikeLevels
  <2> QED
    BY <2>5 DEF lw, rw
<1>9. CASE lv.side # None /\ cand \notin {None, lv.side} /\ lv.pending = cand
  <2>1. lw = Confirming(lv, cand, s, at_time)
    BY <1>9, StepCases
  <2>5. rw = Confirming(rv, cand, q, at_time)
    <3>1. rw = Confirming(rv, classify(q), q, at_time)
      <4>1. rv.side # None /\ classify(q) \notin {None, rv.side} /\ rv.pending = classify(q)
        BY <1>1, <1>2, <1>9
      <4> QED
        BY <4>1, StepCases
    <3> QED
      BY <1>1, <3>1
  <2>2. Confirmed(lv, s, at_time) <=> Confirmed(rv, q, at_time)
    <3>1. Traded(lv, s) = Traded(rv, q)
      BY AlikeTraded
    <3>2. lv.snaps = rv.snaps /\ lv.t_at_cross = rv.t_at_cross /\ lv.last_fire = rv.last_fire
      BY DEF AlikeLevels
    <3> QED
      BY <1>1, <3>1, <3>2 DEF Confirmed
  <2>3. AlikeLevels([lv EXCEPT !.snaps = @ + 1, !.straddles = 0],
                    [rv EXCEPT !.snaps = @ + 1, !.straddles = 0])
    <3> DEFINE l == [lv EXCEPT !.snaps = @ + 1]
               r == [rv EXCEPT !.snaps = @ + 1]
    <3>1. l \in Levels /\ r \in Levels /\ AlikeLevels(l, r)
      BY DEF Levels, AlikeLevels
    <3> HIDE DEF l, r
    <3>2. AlikeLevels([l EXCEPT !.straddles = 0], [r EXCEPT !.straddles = 0])
      BY <3>1 DEF Levels, AlikeLevels
    <3> QED
      BY <3>2 DEF l, r
  <2>4. AlikeLevels([reset(lv) EXCEPT !.side = cand, !.last_fire = at_time],
                    [reset(rv) EXCEPT !.side = cand, !.last_fire = at_time])
    <3> DEFINE l == [reset(lv) EXCEPT !.side = cand]
               r == [reset(rv) EXCEPT !.side = cand]
    <3>1. cand \in Sides \cup {None}
      BY StepCases
    <3>2. l \in Levels /\ r \in Levels /\ AlikeLevels(l, r)
      <4>1. reset(lv) \in Levels /\ reset(rv) \in Levels
        BY LevelTypes
      <4> HIDE DEF cand
      <4> QED
        BY <1>4, <3>1, <4>1 DEF Levels, AlikeLevels
    <3> HIDE DEF l, r
    <3>3. AlikeLevels([l EXCEPT !.last_fire = at_time], [r EXCEPT !.last_fire = at_time])
      BY <3>2 DEF Levels, AlikeLevels
    <3> QED
      BY <3>3 DEF l, r
  <2>6. CASE Confirmed(lv, s, at_time)
    BY <2>1, <2>2, <2>4, <2>5, <2>6 DEF Confirming
  <2>7. CASE ~Confirmed(lv, s, at_time)
    BY <2>1, <2>2, <2>3, <2>5, <2>7 DEF Confirming
  <2> QED
    BY <2>6, <2>7
<1> QED
  BY <1>3, <1>5, <1>6, <1>7, <1>8, <1>9

\* The levels that a series takes a new one through.
Runs(S, R) ==
  R = [n \in 0 .. Len(S) |-> IF n = 0 THEN NewLevel ELSE step_level(R[n - 1], S[n], S[n].t)]

Rerun(S) == CHOOSE R : Runs(S, R)

LEMMA NewLevelType == NewLevel \in Levels
BY LevelAssumption DEF NewLevel, Levels

LEMMA RerunExists ==
  ASSUME NEW S \in Seq(Polled)
  PROVE  \E R \in [0 .. Len(S) -> Levels] : Runs(S, R)
<1> DEFINE Step(h, n) == IF n = 0 THEN NewLevel ELSE step_level(h[n - 1], S[n], S[n].t)
           Good == {m \in Nat : m <= Len(S) =>
                      \E h \in [0 .. m -> Levels] : \A n \in 0 .. m : h[n] = Step(h, n)}
<1>1. 0 \in Good
  <2> DEFINE h == [n \in 0 .. 0 |-> NewLevel]
  <2>1. h \in [0 .. 0 -> Levels] /\ \A n \in 0 .. 0 : h[n] = Step(h, n)
    BY NewLevelType
  <2> HIDE DEF h, Step
  <2> QED
    BY <2>1
<1>2. ASSUME NEW m \in Nat, m \in Good PROVE m + 1 \in Good
  <2> SUFFICES ASSUME m + 1 <= Len(S)
               PROVE  \E h \in [0 .. m + 1 -> Levels] : \A n \in 0 .. m + 1 : h[n] = Step(h, n)
    OBVIOUS
  <2>1. PICK h \in [0 .. m -> Levels] : \A n \in 0 .. m : h[n] = Step(h, n)
    BY <1>2
  <2> DEFINE k == [n \in 0 .. m + 1 |-> Step(h, n)]
  <2>2. \A n \in 0 .. m : k[n] = h[n]
    BY <2>1
  <2>3. Step(h, m + 1) \in Levels
    <3>1. S[m + 1] \in Polled /\ h[m] \in Levels
      BY <2>1
    <3>2. Step(h, m + 1) = step_level(h[m], S[m + 1], S[m + 1].t)
      OBVIOUS
    <3> QED
      BY <3>1, <3>2, StepTypes DEF Polled
  <2>4. k \in [0 .. m + 1 -> Levels]
    <3>1. \A n \in 0 .. m + 1 : n = m + 1 \/ n \in 0 .. m
      OBVIOUS
    <3> HIDE DEF Step
    <3> QED
      BY <2>1, <2>3, <3>1
  <2>5. ASSUME NEW n \in 0 .. m + 1 PROVE k[n] = Step(k, n)
    <3>1. k[n] = Step(h, n)
      OBVIOUS
    <3>2. n # 0 => k[n - 1] = h[n - 1]
      <4>1. n # 0 => n - 1 \in 0 .. m
        OBVIOUS
      <4> HIDE DEF k
      <4> QED
        BY <2>2, <4>1
    <3> HIDE DEF k
    <3> QED
      BY <3>1, <3>2
  <2> HIDE DEF k, Step
  <2> QED
    BY <2>4, <2>5
<1>3. Len(S) \in Nat /\ Len(S) \in Good
  <2>1. \A m \in Nat : m \in Good
    <3> HIDE DEF Good
    <3> QED
      BY <1>1, <1>2, EveryNatural
  <2>2. Len(S) \in Nat
    OBVIOUS
  <2> HIDE DEF Good
  <2> QED
    BY <2>1, <2>2
<1>4. PICK R \in [0 .. Len(S) -> Levels] : \A n \in 0 .. Len(S) : R[n] = Step(R, n)
  BY <1>3
<1>5. R = [n \in 0 .. Len(S) |-> Step(R, n)]
  BY <1>4
<1> QED
  BY <1>5 DEF Runs

\* A replay one snapshot at a time.
LEMMA RerunStep ==
  ASSUME NEW S \in Seq(Polled)
  PROVE  /\ Rerun(S)[0] = NewLevel
         /\ \A n \in 0 .. Len(S) : Rerun(S)[n] \in Levels
         /\ \A n \in 1 .. Len(S) :
              n - 1 \in 0 .. Len(S) /\ Rerun(S)[n] = step_level(Rerun(S)[n - 1], S[n], S[n].t)
<1> DEFINE R == Rerun(S)
<1>0. Len(S) \in Nat
  OBVIOUS
<1>1. Runs(S, R)
  BY RerunExists DEF Rerun
<1> HIDE DEF R
<1>2. /\ R[0] = NewLevel
      /\ \A n \in 1 .. Len(S) : R[n] = step_level(R[n - 1], S[n], S[n].t)
  <2>1. \A n \in 0 .. Len(S) :
           R[n] = IF n = 0 THEN NewLevel ELSE step_level(R[n - 1], S[n], S[n].t)
    BY <1>1 DEF Runs
  <2> QED
    BY <1>0, <2>1
<1> DEFINE Good == {m \in Nat : m <= Len(S) => R[m] \in Levels}
<1>3. 0 \in Good
  BY <1>2, NewLevelType
<1>4. ASSUME NEW m \in Nat, m \in Good PROVE m + 1 \in Good
  <2> SUFFICES ASSUME m + 1 <= Len(S) PROVE R[m + 1] \in Levels
    OBVIOUS
  <2>1. R[m] \in Levels /\ S[m + 1] \in Polled
    BY <1>0, <1>4
  <2>2. R[m + 1] = step_level(R[m], S[m + 1], S[m + 1].t)
    BY <1>0, <1>2
  <2> QED
    BY <2>1, <2>2, StepTypes DEF Polled
<1>5. \A m \in Nat : m \in Good
  <2> HIDE DEF Good
  <2> QED
    BY <1>3, <1>4, EveryNatural
<1>6. \A n \in 0 .. Len(S) : R[n] \in Levels
  BY <1>0, <1>5
<1>7. \A n \in 1 .. Len(S) : n - 1 \in 0 .. Len(S)
  BY <1>0
<1> QED
  BY <1>2, <1>6, <1>7 DEF R

\* A longer series replays as the shorter one did.
LEMMA RerunPrefix ==
  ASSUME NEW S \in Seq(Polled), NEW q \in Polled
  PROVE  \A n \in 0 .. Len(S) : Rerun(Append(S, q))[n] = Rerun(S)[n]
<1> DEFINE V == Append(S, q)
           Good == {m \in Nat : m <= Len(S) => Rerun(V)[m] = Rerun(S)[m]}
<1>1. V \in Seq(Polled) /\ Len(S) \in Nat /\ Len(V) = Len(S) + 1
        /\ \A i \in 1 .. Len(S) : V[i] = S[i]
  OBVIOUS
<1> HIDE DEF V
<1>2. 0 \in Good
  BY <1>1, RerunStep
<1>3. ASSUME NEW m \in Nat, m \in Good PROVE m + 1 \in Good
  <2> SUFFICES ASSUME m + 1 <= Len(S) PROVE Rerun(V)[m + 1] = Rerun(S)[m + 1]
    OBVIOUS
  <2>1. m + 1 \in 1 .. Len(S) /\ m + 1 \in 1 .. Len(V) /\ (m + 1) - 1 = m
    BY <1>1
  <2>2. /\ Rerun(V)[m + 1] = step_level(Rerun(V)[m], V[m + 1], V[m + 1].t)
        /\ Rerun(S)[m + 1] = step_level(Rerun(S)[m], S[m + 1], S[m + 1].t)
    BY <1>1, <2>1, RerunStep
  <2>3. Rerun(V)[m] = Rerun(S)[m]
    BY <1>1, <1>3
  <2> QED
    BY <1>1, <2>1, <2>2, <2>3
<1>4. \A m \in Nat : m \in Good
  <2> HIDE DEF Good
  <2> QED
    BY <1>2, <1>3, EveryNatural
<1> QED
  BY <1>1, <1>4 DEF V

-----------------------------------------------------------------------------
(* A replay of the series and the tape.                                    *)

\* A series is in order of time.
Ordered(S) == S \in Seq(Polled) /\ \A i, j \in 1 .. Len(S) : i < j => S[i].t < S[j].t

\* The alerter read the first k snapshots of the series at once, and no others.
Covers(T, S, k) ==
  /\ {T[i].t : i \in DOMAIN T} = {S[i].t : i \in 1 .. k}
  /\ \A i \in DOMAIN T : T[i].from = "schwab" /\ T[i].read = T[i].t

\* The breaks of a replay of the first k snapshots.
Broken(S, k) == {S[i].t : i \in {j \in 1 .. k : Fires(Rerun(S)[j - 1], Rerun(S)[j])}}

\* The replay comes to the same level and to the same breaks.
Repeats(lv, T, F, S, k) ==
  /\ AlikeLevels(lv, Rerun(S)[k])
  /\ Broken(S, k) = {T[i].t : i \in F}

\* A snapshot that the alerter did not read yet leaves what was said of the others.
LEMMA PollKeeps ==
  ASSUME NEW T, Tape(T), NEW F, NEW lv, NEW S, Ordered(S), NEW q \in Polled,
         \A i \in 1 .. Len(T) : T[i].t < q.t, \A i \in 1 .. Len(S) : S[i].t < q.t,
         \A k \in 0 .. Len(S) : Covers(T, S, k) => Repeats(lv, T, F, S, k)
  PROVE  /\ Ordered(Append(S, q)) /\ Len(Append(S, q)) = Len(S) + 1
         /\ \A k \in 0 .. Len(S) + 1 :
              Covers(T, Append(S, q), k) => Repeats(lv, T, F, Append(S, q), k)
<1> DEFINE V == Append(S, q)
<1>1. /\ V \in Seq(Polled) /\ Len(S) \in Nat /\ Len(V) = Len(S) + 1 /\ V[Len(S) + 1] = q
      /\ \A i \in 1 .. Len(S) : V[i] = S[i]
  BY DEF Ordered
<1>2. \A n \in 0 .. Len(S) : Rerun(V)[n] = Rerun(S)[n]
  BY RerunPrefix DEF Ordered
<1> HIDE DEF V
<1>3. Ordered(V)
  <2> SUFFICES ASSUME NEW i \in 1 .. Len(V), NEW j \in 1 .. Len(V), i < j PROVE V[i].t < V[j].t
    BY <1>1 DEF Ordered
  <2>1. i \in 1 .. Len(S)
    BY <1>1
  <2>2. j = Len(S) + 1 \/ j \in 1 .. Len(S)
    BY <1>1
  <2> QED
    BY <1>1, <2>1, <2>2 DEF Ordered
<1>4. ~Covers(T, V, Len(S) + 1)
  <2>1. q.t \in {V[i].t : i \in 1 .. Len(S) + 1}
    BY <1>1
  <2>2. DOMAIN T = 1 .. Len(T) /\ q.t \in Nat
    BY DEF Tape, Polled
  <2>3. q.t \notin {T[i].t : i \in DOMAIN T}
    BY <2>2
  <2> QED
    BY <2>1, <2>3 DEF Covers
<1>5. ASSUME NEW k \in 0 .. Len(S), Covers(T, V, k) PROVE Repeats(lv, T, F, V, k)
  <2>1. \A i \in 1 .. k : i \in 1 .. Len(S) /\ i \in 0 .. Len(S) /\ i - 1 \in 0 .. Len(S)
    BY <1>1
  <2>2. {V[i].t : i \in 1 .. k} = {S[i].t : i \in 1 .. k}
    BY <1>1, <2>1
  <2>3. Covers(T, S, k)
    BY <1>5, <2>2 DEF Covers
  <2>4. Broken(V, k) = Broken(S, k)
    <3>1. \A j \in 1 .. k : Fires(Rerun(V)[j - 1], Rerun(V)[j]) <=> Fires(Rerun(S)[j - 1], Rerun(S)[j])
      BY <1>2, <2>1
    <3> DEFINE A == {j \in 1 .. k : Fires(Rerun(V)[j - 1], Rerun(V)[j])}
               B == {j \in 1 .. k : Fires(Rerun(S)[j - 1], Rerun(S)[j])}
    <3>2. A = B /\ \A i \in B : V[i] = S[i]
      BY <1>1, <2>1, <3>1
    <3> HIDE DEF A, B
    <3>3. {V[i].t : i \in A} = {S[i].t : i \in B}
      BY <3>2
    <3> QED
      BY <3>3 DEF Broken, A, B
  <2> QED
    BY <1>2, <2>3, <2>4 DEF Repeats
<1>6. \A k \in 0 .. Len(S) + 1 : k = Len(S) + 1 \/ k \in 0 .. Len(S)
  BY <1>1
<1> QED
  BY <1>1, <1>3, <1>4, <1>5, <1>6 DEF V

\* A snapshot that the alerter reads.
LEMMA ReadRepeats ==
  ASSUME NEW T, NEW s, NEW U, Tape(T), Longer(T, s, U), NEW F \in SUBSET (1 .. Len(T)),
         NEW lv \in Levels, NEW S, Ordered(S), NEW k \in 0 .. Len(S),
         Covers(U, S, k),
         \A i \in 1 .. Len(S) : S[i].t = s.t /\ s.from = "schwab" => AlikeSnapshots(s, S[i]),
         \A m \in 0 .. Len(S) : Covers(T, S, m) => Repeats(lv, T, F, S, m)
  PROVE  LET lw == step_level(lv, s, s.read)
         IN  Repeats(lw, U, FiresAfter(F, lv, lw, U), S, k)
<1> DEFINE n == Len(T)
           lw == step_level(lv, s, s.read)
           R == Rerun(S)
<1>1. /\ n \in Nat /\ Len(U) = n + 1 /\ U[n + 1] = s /\ DOMAIN U = 1 .. n + 1 /\ DOMAIN T = 1 .. n
      /\ \A i \in 1 .. n : U[i] = T[i] /\ T[i].t < s.t /\ T[i] \in Quotes
      /\ s \in Quotes
  BY TapeGrows DEF Longer, Tape
<1>2. /\ {U[i].t : i \in 1 .. n + 1} = {S[i].t : i \in 1 .. k}
      /\ \A i \in 1 .. n + 1 : U[i].from = "schwab" /\ U[i].read = U[i].t
  BY <1>1 DEF Covers
<1>3. s.from = "schwab" /\ s.read = s.t /\ s.t \in Nat
        /\ s.book \in Books /\ s.volume \in Nat \cup {None}
  BY <1>1, <1>2 DEF Quotes
<1>4. Len(S) \in Nat /\ k \in Nat /\ k <= Len(S) /\ \A i \in 1 .. Len(S) : S[i] \in Polled /\ S[i].t \in Nat
  <2>1. S \in Seq(Polled)
    BY DEF Ordered
  <2>2. Len(S) \in Nat /\ \A i \in 1 .. Len(S) : S[i] \in Polled
    BY <2>1
  <2> QED
    BY <2>2 DEF Polled
<1>5. k \in 1 .. Len(S) /\ S[k].t = s.t
  <2>1. \E i \in 1 .. k : S[i].t = s.t
    <3>1. n + 1 \in 1 .. n + 1 /\ U[n + 1].t = s.t
      BY <1>1
    <3>2. s.t \in {U[i].t : i \in 1 .. n + 1}
      BY <3>1
    <3> QED
      BY <1>2, <3>2
  <2>2. PICK i \in 1 .. k : S[i].t = s.t
    BY <2>1
  <2>3. k \in 1 .. k /\ k \in 1 .. Len(S) /\ i \in 1 .. Len(S)
    BY <1>4
  <2>4. \E j \in 1 .. n + 1 : U[j].t = S[k].t
    BY <1>2, <2>3
  <2>5. S[k].t <= s.t
    BY <1>1, <1>3, <1>4, <2>3, <2>4 DEF Quotes
  <2>6. i < k => S[i].t < S[k].t
    BY <2>3 DEF Ordered
  <2> QED
    BY <1>3, <1>4, <2>2, <2>3, <2>5, <2>6
<1>6. Covers(T, S, k - 1)
  <2>1. \A i \in 1 .. k - 1 : i \in 1 .. k /\ i \in 1 .. Len(S) /\ S[i].t < s.t
    <3>1. \A i \in 1 .. k - 1 : i \in 1 .. k /\ i \in 1 .. Len(S) /\ i < k
      BY <1>4, <1>5
    <3> QED
      BY <1>5, <3>1 DEF Ordered
  <2>2. ASSUME NEW i \in 1 .. n PROVE T[i].t \in {S[j].t : j \in 1 .. k - 1}
    <3>1. U[i].t \in {S[j].t : j \in 1 .. k} /\ U[i] = T[i] /\ T[i].t # s.t
      <4>1. U[i] = T[i] /\ T[i].t # s.t /\ i \in 1 .. n + 1
        BY <1>1, <1>3 DEF Quotes
      <4>2. U[i].t \in {U[j].t : j \in 1 .. n + 1}
        BY <4>1
      <4> QED
        BY <1>2, <4>1, <4>2
    <3>2. PICK j \in 1 .. k : T[i].t = S[j].t
      BY <3>1
    <3>3. j # k
      BY <1>5, <3>1, <3>2
    <3> QED
      BY <1>4, <3>2, <3>3
  <2>3. ASSUME NEW j \in 1 .. k - 1 PROVE S[j].t \in {T[i].t : i \in 1 .. n}
    <3>1. \E i \in 1 .. n + 1 : U[i].t = S[j].t
      BY <1>2, <2>1
    <3>2. PICK i \in 1 .. n + 1 : U[i].t = S[j].t
      BY <3>1
    <3>3. S[j].t # s.t
      BY <1>3, <1>4, <2>1
    <3>4. i \in 1 .. n
      BY <1>1, <3>2, <3>3
    <3> QED
      BY <1>1, <3>2, <3>4
  <2>4. {T[i].t : i \in 1 .. n} = {S[j].t : j \in 1 .. k - 1}
    BY <2>2, <2>3
  <2>5. \A i \in 1 .. n : T[i].from = "schwab" /\ T[i].read = T[i].t
    BY <1>1, <1>2
  <2> QED
    BY <1>1, <2>4, <2>5 DEF Covers
<1>7. AlikeLevels(lv, R[k - 1]) /\ Broken(S, k - 1) = {T[i].t : i \in F}
  <2>1. k - 1 \in 0 .. Len(S)
    BY <1>4, <1>5
  <2> QED
    BY <1>6, <2>1 DEF Repeats
<1>8. /\ R[k - 1] \in Levels /\ R[k] \in Levels
      /\ R[k] = step_level(R[k - 1], S[k], S[k].t)
  BY <1>5, RerunStep DEF Ordered
<1>9. AlikeLevels(lw, R[k])
  <2>1. AlikeSnapshots(s, S[k])
    BY <1>3, <1>5
  <2>2. S[k].book \in Books /\ S[k].t \in Nat /\ S[k].volume \in Nat \cup {None}
    BY <1>4, <1>5 DEF Polled
  <2> DEFINE at_time == s.read
  <2>3. at_time \in Nat /\ S[k].t = at_time
    BY <1>3, <1>5
  <2> HIDE DEF R, at_time
  <2>4. AlikeLevels(step_level(lv, s, at_time), step_level(R[k - 1], S[k], at_time))
    BY <1>3, <1>7, <1>8, <2>1, <2>2, <2>3, AlikeStep
  <2> QED
    BY <1>8, <2>3, <2>4 DEF at_time
<1>10. Fires(lv, lw) <=> Fires(R[k - 1], R[k])
  BY <1>7, <1>9 DEF Fires, AlikeLevels
<1> HIDE DEF lw, R
<1> DEFINE G == FiresAfter(F, lv, lw, U)
<1>11. Broken(S, k) = Broken(S, k - 1) \cup (IF Fires(lv, lw) THEN {s.t} ELSE {})
  <2> DEFINE A == {j \in 1 .. k - 1 : Fires(R[j - 1], R[j])}
             B == {j \in 1 .. k : Fires(R[j - 1], R[j])}
  <2>1. Broken(S, k) = {S[i].t : i \in B} /\ Broken(S, k - 1) = {S[i].t : i \in A}
    BY DEF Broken, R
  <2>2. CASE Fires(lv, lw)
    <3>1. B = A \cup {k}
      BY <1>4, <1>5, <1>10, <2>2
    <3> HIDE DEF A, B
    <3> QED
      BY <1>5, <2>1, <2>2, <3>1
  <2>3. CASE ~Fires(lv, lw)
    <3>1. B = A
      BY <1>4, <1>5, <1>10, <2>3
    <3> HIDE DEF A, B
    <3> QED
      BY <2>1, <2>3, <3>1
  <2> QED
    BY <2>2, <2>3
<1>12. {U[i].t : i \in G} = {T[i].t : i \in F} \cup (IF Fires(lv, lw) THEN {s.t} ELSE {})
  <2>1. \A i \in F : U[i] = T[i]
    BY <1>1
  <2>2. CASE Fires(lv, lw)
    <3>1. G = F \cup {n + 1}
      BY <1>1, <2>2 DEF FiresAfter
    <3> HIDE DEF G
    <3> QED
      BY <1>1, <2>1, <2>2, <3>1
  <2>3. CASE ~Fires(lv, lw)
    <3>1. G = F
      BY <2>3 DEF FiresAfter
    <3> HIDE DEF G
    <3> QED
      BY <2>1, <2>3, <3>1
  <2> QED
    BY <2>2, <2>3
<1>13. Broken(S, k) = {U[i].t : i \in G}
  BY <1>7, <1>11, <1>12
<1> QED
  BY <1>9, <1>13 DEF Repeats, lw, R

-----------------------------------------------------------------------------
(* The watcher and the alerter.                                            *)

\* The series holds what the file holds of the same poll.
SeriesMatches ==
  \A i \in 1 .. Len(series) :
     series[i].t = doc.t /\ doc.from = "schwab" => AlikeSnapshots(doc, series[i])

WatchInv ==
  /\ WatchTypes /\ InOrder /\ SeriesMatches
  /\ Follows(level, tape, fires)
  /\ BreaksAreEarned
  /\ \A k \in 0 .. Len(series) :
        Covers(tape, series, k) => Repeats(level, tape, fires, series, k)

LEMMA InvOrder ==
  ASSUME WatchTypes, InOrder
  PROVE  Tape(tape) /\ Ordered(series)
<1>1. DOMAIN series = 1 .. Len(series)
  BY DEF WatchTypes
<1> QED
  BY <1>1 DEF WatchTypes, InOrder, Tape, Ordered

\* The time of reading is nothing to a level.
LEMMA ReadTime ==
  ASSUME NEW lv \in Levels, NEW d \in Quotes, NEW r \in Nat, NEW at_time \in Nat
  PROVE  LET s == [d EXCEPT !.read = r]
         IN  /\ s \in Quotes /\ s.read = r /\ s.t = d.t /\ s.from = d.from /\ s.traded = d.traded
             /\ s.book = d.book /\ s.volume = d.volume
             /\ step_level(lv, s, at_time) = step_level(lv, d, at_time)
<1> DEFINE s == [d EXCEPT !.read = r]
<1>1. /\ s \in Quotes /\ s.read = r /\ s.t = d.t /\ s.from = d.from /\ s.traded = d.traded
      /\ s.book = d.book /\ s.volume = d.volume
  BY DEF Quotes
<1> HIDE DEF s
<1>2. classify(s) = classify(d) /\ mid(s) = mid(d)
  BY <1>1 DEF classify, mid
<1>3. \A c : BeginCross(lv, c, s) = BeginCross(lv, c, d)
  BY <1>1 DEF BeginCross
<1>4. Confirmed(lv, s, at_time) <=> Confirmed(lv, d, at_time)
  BY <1>1 DEF Confirmed, Traded
<1>5. \A c : Confirming(lv, c, s, at_time) = Confirming(lv, c, d, at_time)
  BY <1>4 DEF Confirming
<1>6. d.book \in Books /\ d.t \in Nat /\ d.volume \in Nat \cup {None}
  BY DEF Quotes
<1>7. classify(d) \in Sides \cup {None}
  BY <1>6, StepCases
<1> DEFINE c == classify(d)
<1>8. CASE lv.side = None
  <2>1. step_level(lv, s, at_time) = [lv EXCEPT !.side = mid(s)] /\ step_level(lv, d, at_time) = [lv EXCEPT !.side = mid(d)]
    BY <1>1, <1>2, <1>6, <1>8, StepCases
  <2> QED
    BY <1>1, <1>2, <2>1 DEF s
<1>9. CASE lv.side # None /\ c = None
  <2>1. step_level(lv, s, at_time) = Undecided(lv) /\ step_level(lv, d, at_time) = Undecided(lv)
    BY <1>1, <1>2, <1>6, <1>9, StepCases
  <2> QED
    BY <1>1, <1>2, <2>1 DEF s
<1>10. CASE lv.side # None /\ c = lv.side
  <2>1. step_level(lv, s, at_time) = reset(lv) /\ step_level(lv, d, at_time) = reset(lv)
    BY <1>1, <1>2, <1>6, <1>10, StepCases
  <2> QED
    BY <1>1, <1>2, <2>1 DEF s
<1>11. CASE lv.side # None /\ c \notin {None, lv.side} /\ lv.pending # c
  <2>1. /\ step_level(lv, s, at_time) = BeginCross(lv, c, s)
        /\ step_level(lv, d, at_time) = BeginCross(lv, c, d)
    BY <1>1, <1>2, <1>6, <1>11, StepCases
  <2> QED
    BY <1>1, <1>3, <2>1 DEF s
<1>12. CASE lv.side # None /\ c \notin {None, lv.side} /\ lv.pending = c
  <2>1. /\ step_level(lv, s, at_time) = Confirming(lv, c, s, at_time)
        /\ step_level(lv, d, at_time) = Confirming(lv, c, d, at_time)
    BY <1>1, <1>2, <1>6, <1>12, StepCases
  <2> QED
    BY <1>1, <1>5, <2>1 DEF s
<1> QED
  BY <1>8, <1>9, <1>10, <1>11, <1>12

LEMMA WatchStarts == WatchInit => WatchInv
<1> SUFFICES ASSUME WatchInit PROVE WatchInv
  OBVIOUS
<1>1. WatchTypes
  <2>1. NoDoc \in Quotes
    BY DEF NoDoc, Quotes, Books
  <2>2. series \in Seq(Polled) /\ tape \in Seq(Quotes) /\ fires \in SUBSET (1 .. Len(tape))
    BY DEF WatchInit
  <2>3. /\ time \in Nat /\ traded \in Nat /\ last_epoch \in Nat /\ age \in Nat /\ mishaps \in Nat
        /\ watcher \in {"up", "dead"} /\ alerter \in {"off", "up", "dead"} /\ stall_fired \in BOOLEAN
    BY DEF WatchInit
  <2>4. doc \in Quotes /\ level \in Levels
    BY <2>1, NewLevelType DEF WatchInit
  <2> QED
    BY <2>2, <2>3, <2>4 DEF WatchTypes
<1>2. InOrder
  BY LevelAssumption, WatchAssumption DEF WatchInit, InOrder, NoDoc, SchwabTotal
<1>3. SeriesMatches
  BY DEF WatchInit, SeriesMatches
<1>4. Follows(level, tape, fires)
  BY DEF WatchInit, Follows, NewLevel
<1>5. BreaksAreEarned
  BY DEF WatchInit, BreaksAreEarned
<1>6. ASSUME NEW k \in 0 .. Len(series), Covers(tape, series, k)
      PROVE  Repeats(level, tape, fires, series, k)
  <2>1. k = 0 /\ series \in Seq(Polled)
    BY DEF WatchInit
  <2>2. Rerun(series)[0] = NewLevel
    BY <2>1, RerunStep
  <2>3. Broken(series, 0) = {}
    BY DEF Broken
  <2> QED
    BY <2>1, <2>2, <2>3 DEF WatchInit, Repeats, AlikeLevels
<1> QED
  BY <1>1, <1>2, <1>3, <1>4, <1>5, <1>6 DEF WatchInv

\* What a poll may leave.
LEMMA PollWrites ==
  ASSUME WatchInv, Poll
  PROVE  WatchTypes' /\ InOrder' /\ SeriesMatches'
         /\ UNCHANGED <<level, tape, fires>>
         /\ \/ series' = series
            \/ \E q \in Polled : series' = Append(series, q) /\ q.t = time'
<1>1. /\ WatchTypes /\ InOrder /\ SeriesMatches
  BY DEF WatchInv
<1>2. /\ time' = time + 1 /\ traded' \in Nat
      /\ UNCHANGED <<watcher, alerter, level, last_epoch, age, stall_fired, tape, fires>>
  BY <1>1, WatchAssumption DEF Poll, alerts, WatchTypes
<1>3. PICK book \in {"above", "below"} \cup Around, from \in {"schwab", "alpaca", None}, written \in BOOLEAN :
         /\ mishaps' = mishaps + Cardinality({f \in 1 .. 3 :
                            \/ f = 1 /\ from # "schwab"
                            \/ f = 2 /\ ~written
                            \/ f = 3 /\ alerter = "up" /\ IsFresh})
         /\ _write_atomic(Snapshot(book, traded', from), written)
         /\ series' = IF from = None THEN series
                      ELSE Append(series, [t |-> time', book |-> book,
                                           volume |-> IF from = "schwab" THEN traded' ELSE None])
  BY Zenon DEF Poll
<1> DEFINE s == Snapshot(book, traded', from)
           q == [t |-> time', book |-> book, volume |-> IF from = "schwab" THEN traded' ELSE None]
<1>4. mishaps' \in Nat
  <2> DEFINE A == {f \in 1 .. 3 : \/ f = 1 /\ from # "schwab"
                                  \/ f = 2 /\ ~written
                                  \/ f = 3 /\ alerter = "up" /\ IsFresh}
  <2>1. A \subseteq 1 .. 3 /\ IsFiniteSet(1 .. 3)
    <3>1. 1 \in Int /\ 3 \in Int
      OBVIOUS
    <3>2. IsFiniteSet(1 .. 3)
      BY <3>1, FS_Interval, Zenon
    <3> QED
      BY <3>2
  <2>2. Cardinality(A) \in Nat
    <3> HIDE DEF A
    <3> QED
      BY <2>1, FS_Subset, FS_CardinalityType
  <2> HIDE DEF A
  <2>3. mishaps' = mishaps + Cardinality(A) /\ mishaps \in Nat
    BY <1>1, <1>3 DEF WatchTypes, A
  <2> QED
    BY <2>2, <2>3
<1>5. /\ s \in Quotes /\ s.t = time' /\ SchwabTotal(s) /\ s.from = from
      /\ from = "schwab" => s.book = book /\ s.volume = Or(traded', None)
  <2>1. time' \in Nat
    BY <1>1, <1>2 DEF WatchTypes
  <2> DEFINE v == CASE from = "schwab" -> Or(traded', None)
                    [] from = "alpaca" -> traded' \div AlpacaPart
                    [] OTHER -> None
  <2>2. v \in Nat \cup {None} /\ (from = "schwab" => v = Or(traded', None))
    <3>1. CASE from = "schwab"
      BY <1>2, <3>1 DEF Or
    <3>2. CASE from = "alpaca"
      <4>1. traded' \div AlpacaPart \in Nat
        <5> DEFINE total == traded'
        <5>1. total \in Nat /\ AlpacaPart \in Nat /\ AlpacaPart > 0
          BY <1>2, WatchAssumption
        <5> HIDE DEF total
        <5>2. total \div AlpacaPart \in Nat
          BY <5>1
        <5> QED
          BY <5>2 DEF total
      <4>2. v = traded' \div AlpacaPart
        BY <3>2
      <4> QED
        BY <3>2, <4>1, <4>2
    <3>3. CASE from = None
      BY <3>3, WatchAssumption
    <3> QED
      BY <3>1, <3>2, <3>3
  <2>3. s = [t |-> time', traded |-> traded', from |-> from, read |-> 0,
             book |-> IF from = None THEN "none" ELSE book, volume |-> v]
    BY DEF Snapshot
  <2>4. (IF from = None THEN "none" ELSE book) \in Books
    BY WatchAssumption DEF Books, Sides
  <2> HIDE DEF v, s
  <2>5. s \in Quotes
    BY <1>2, <2>1, <2>2, <2>3, <2>4 DEF Quotes
  <2> QED
    BY <2>2, <2>3, <2>5, WatchAssumption DEF SchwabTotal
<1>6. q \in Polled /\ q.t = time' /\ (from = "schwab" => q.book = book /\ q.volume = traded')
  BY <1>1, <1>2, WatchAssumption DEF Polled, WatchTypes, Books, Sides
<1>7. series' = series \/ series' = Append(series, q)
  BY <1>3
<1>8. doc' = s \/ doc' = doc
  BY <1>3 DEF _write_atomic
<1>9. time \in Nat /\ doc \in Quotes /\ doc.t \in Nat /\ series \in Seq(Polled) /\ last_epoch \in Nat
  BY <1>1 DEF WatchTypes, Quotes
<1>10. WatchTypes'
  <2> HIDE DEF s, q
  <2>1. series' \in Seq(Polled) /\ doc' \in Quotes /\ time' \in Nat
    <3>1. series' \in Seq(Polled)
      BY <1>6, <1>7, <1>9
    <3>2. doc' \in Quotes
      BY <1>5, <1>8, <1>9
    <3>3. time' \in Nat
      BY <1>2, <1>9
    <3> QED
      BY <3>1, <3>2, <3>3
  <2>2. /\ level \in Levels /\ tape \in Seq(Quotes) /\ fires \in SUBSET (1 .. Len(tape))
        /\ watcher \in {"up", "dead"} /\ alerter \in {"off", "up", "dead"}
        /\ age \in Nat /\ stall_fired \in BOOLEAN
    BY <1>1 DEF WatchTypes
  <2> QED
    BY <1>2, <1>4, <1>9, <2>1, <2>2 DEF WatchTypes
<1> HIDE DEF s, q
<1>11. /\ series' \in Seq(Polled) /\ Len(series) \in Nat
       /\ \A i \in 1 .. Len(series) : series'[i] = series[i] /\ series[i].t <= time /\ series[i].t \in Nat
       /\ \/ Len(series') = Len(series) /\ series' = series
          \/ /\ Len(series') = Len(series) + 1 /\ series'[Len(series) + 1] = q
             /\ series' = Append(series, q)
  <2>1. \A i \in 1 .. Len(series) : series[i].t <= time /\ series[i].t \in Nat
    <3>1. \A i \in 1 .. Len(series) : i \in DOMAIN series /\ series[i] \in Polled
      BY <1>9
    <3> QED
      BY <1>1, <3>1 DEF InOrder, Polled
  <2>2. Len(series) \in Nat
    BY <1>9
  <2>3. CASE series' = series
    BY <1>9, <2>1, <2>2, <2>3
  <2>4. CASE series' = Append(series, q)
    <3>1. /\ series' \in Seq(Polled) /\ Len(series') = Len(series) + 1
          /\ series'[Len(series) + 1] = q
          /\ \A i \in 1 .. Len(series) : series'[i] = series[i]
      BY <1>6, <1>9, <2>4
    <3> QED
      BY <2>1, <2>2, <2>4, <3>1
  <2> QED
    BY <1>7, <2>3, <2>4
<1>12. \A i, j \in 1 .. Len(series') : i < j => series'[i].t < series'[j].t
  <2> SUFFICES ASSUME NEW i \in 1 .. Len(series'), NEW j \in 1 .. Len(series'), i < j
               PROVE  series'[i].t < series'[j].t
    OBVIOUS
  <2>1. i \in 1 .. Len(series)
    BY <1>11
  <2>2. CASE j \in 1 .. Len(series)
    <3>1. series[i].t < series[j].t
      BY <1>1, <1>9, <2>1, <2>2 DEF InOrder
    <3> QED
      BY <1>11, <2>1, <2>2, <3>1
  <2>3. CASE j \notin 1 .. Len(series)
    <3>1. series'[j] = q
      BY <1>11, <2>3
    <3> QED
      BY <1>2, <1>6, <1>9, <1>11, <2>1, <3>1
  <2> QED
    BY <2>2, <2>3
<1>13. \A i \in 1 .. Len(series') : series'[i].t <= time'
  <2> SUFFICES ASSUME NEW i \in 1 .. Len(series') PROVE series'[i].t <= time'
    OBVIOUS
  <2>1. CASE i \in 1 .. Len(series)
    BY <1>2, <1>9, <1>11, <2>1
  <2>2. CASE i \notin 1 .. Len(series)
    <3>1. series'[i] = q
      BY <1>11, <2>2
    <3> QED
      BY <1>2, <1>6, <1>9, <3>1
  <2> QED
    BY <2>1, <2>2
<1>14. doc'.t <= time' /\ last_epoch' <= doc'.t /\ SchwabTotal(doc')
  <2>1. doc.t <= time /\ last_epoch <= doc.t /\ SchwabTotal(doc)
    BY <1>1 DEF InOrder
  <2> QED
    BY <1>2, <1>5, <1>8, <1>9, <2>1
<1>15. InOrder'
  <2>1. DOMAIN series' = 1 .. Len(series')
    BY <1>11
  <2>2. /\ (\A i \in DOMAIN tape : tape[i].t <= last_epoch /\ SchwabTotal(tape[i]))'
        /\ (\A i, j \in DOMAIN tape : i < j => tape[i].t < tape[j].t)'
    BY <1>1, <1>2 DEF InOrder, SchwabTotal
  <2> QED
    BY <1>12, <1>13, <1>14, <2>1, <2>2 DEF InOrder, SchwabTotal
<1>16. SeriesMatches'
  <2> SUFFICES ASSUME NEW i \in 1 .. Len(series'), series'[i].t = doc'.t, doc'.from = "schwab"
               PROVE  AlikeSnapshots(doc', series'[i])
    BY DEF SeriesMatches, AlikeSnapshots
  <2>1. doc.t <= time
    BY <1>1 DEF InOrder
  <2>2. CASE i \in 1 .. Len(series)
    <3>1. series'[i] = series[i] /\ series[i].t <= time
      BY <1>11, <2>2
    <3>2. doc' = doc
      <4>1. doc' = s => doc'.t = time + 1
        BY <1>2, <1>5
      <4>2. doc'.t <= time
        BY <3>1
      <4> QED
        BY <1>8, <1>9, <4>1, <4>2
    <3> QED
      BY <1>1, <2>2, <3>1, <3>2 DEF SeriesMatches
  <2>3. CASE i \notin 1 .. Len(series)
    <3>1. series'[i] = q
      BY <1>11, <2>3
    <3>2. doc' = s /\ from = "schwab"
      <4>1. doc'.t = time + 1
        BY <1>2, <1>6, <3>1
      <4>2. doc' = s
        BY <1>8, <1>9, <2>1, <4>1
      <4> QED
        BY <1>5, <4>2
    <3>3. Or(Or(traded', None), 0) = Or(traded', 0)
      BY <1>2, LevelAssumption DEF Or
    <3> QED
      BY <1>5, <1>6, <3>1, <3>2, <3>3 DEF AlikeSnapshots
  <2> QED
    BY <2>2, <2>3
<1> QED
  BY <1>2, <1>6, <1>7, <1>10, <1>15, <1>16

LEMMA PollSafe == WatchInv /\ Poll => WatchInv'
<1> SUFFICES ASSUME WatchInv, Poll PROVE WatchInv'
  OBVIOUS
<1>1. /\ WatchTypes' /\ InOrder' /\ SeriesMatches'
      /\ level' = level /\ tape' = tape /\ fires' = fires
      /\ \/ series' = series
         \/ \E q \in Polled : series' = Append(series, q) /\ q.t = time'
  BY PollWrites
<1>2. Follows(level', tape', fires')
  BY <1>1 DEF WatchInv
<1>3. BreaksAreEarned'
  BY <1>1 DEF WatchInv, BreaksAreEarned, Comparable, Since, Baseline, SideBefore, Cooled
<1>4. \A k \in 0 .. Len(series) :
        Covers(tape, series, k) => Repeats(level, tape, fires, series, k)
  BY DEF WatchInv
<1>5. \A k \in 0 .. Len(series') :
        Covers(tape, series', k) => Repeats(level, tape, fires, series', k)
  <2>1. CASE series' = series
    BY <1>4, <2>1
  <2>2. ASSUME NEW q \in Polled, series' = Append(series, q), q.t = time'
        PROVE  \A k \in 0 .. Len(series') :
                  Covers(tape, series', k) => Repeats(level, tape, fires, series', k)
    <3>1. Tape(tape) /\ Ordered(series) /\ WatchTypes /\ InOrder
      BY InvOrder DEF WatchInv
    <3>2. /\ time' = time + 1 /\ time \in Nat /\ last_epoch <= time /\ last_epoch \in Nat
          /\ DOMAIN tape = 1 .. Len(tape) /\ DOMAIN series = 1 .. Len(series)
      BY <3>1 DEF Poll, WatchTypes, InOrder, Quotes
    <3>3. \A i \in 1 .. Len(tape) : tape[i].t < q.t
      <4> SUFFICES ASSUME NEW i \in 1 .. Len(tape) PROVE tape[i].t < q.t
        OBVIOUS
      <4>1. tape[i].t <= last_epoch /\ tape[i] \in Quotes
        BY <3>1, <3>2 DEF InOrder, WatchTypes
      <4> QED
        BY <2>2, <3>2, <4>1 DEF Quotes
    <3>4. \A i \in 1 .. Len(series) : series[i].t < q.t
      <4> SUFFICES ASSUME NEW i \in 1 .. Len(series) PROVE series[i].t < q.t
        OBVIOUS
      <4>1. series[i].t <= time /\ series[i] \in Polled
        BY <3>1, <3>2 DEF InOrder, WatchTypes
      <4> QED
        BY <2>2, <3>2, <4>1 DEF Polled
    <3>5. /\ Len(Append(series, q)) = Len(series) + 1
          /\ \A k \in 0 .. Len(series) + 1 :
               Covers(tape, Append(series, q), k) => Repeats(level, tape, fires, Append(series, q), k)
      BY <1>4, <3>1, <3>3, <3>4, PollKeeps
    <3> QED
      BY <2>2, <3>5
  <2> QED
    BY <1>1, <2>1, <2>2
<1> QED
  BY <1>1, <1>2, <1>3, <1>5 DEF WatchInv

\* The position that CHOOSE finds.
LEMMA LatestIs ==
  ASSUME NEW E \in SUBSET Nat, NEW a \in E, \A j \in E : j <= a
  PROVE  (CHOOSE i \in E : \A j \in E : j <= i) = a
<1>1. \A i \in E : (\A j \in E : j <= i) => i = a
  OBVIOUS
<1> QED
  BY <1>1

LEMMA FirstQuoteIs ==
  ASSUME NEW T, DOMAIN T \subseteq Nat \ {0}, NEW a \in DOMAIN T,
         T[a].book # "none", \A j \in 1 .. a - 1 : T[j].book = "none"
  PROVE  (CHOOSE i \in DOMAIN T : T[i].book # "none" /\ \A j \in 1 .. i - 1 : T[j].book = "none") = a
<1> DEFINE First(i) == T[i].book # "none" /\ \A j \in 1 .. i - 1 : T[j].book = "none"
<1>1. ASSUME NEW i \in DOMAIN T, First(i) PROVE i = a
  <2>1. ~(i < a)
    BY <1>1
  <2>2. ~(a < i)
    BY <1>1
  <2> QED
    BY <2>1, <2>2
<1>2. First(a)
  OBVIOUS
<1> HIDE DEF First
<1>3. (CHOOSE i \in DOMAIN T : First(i)) = a
  BY <1>1, <1>2
<1> QED
  BY <1>3 DEF First

\* What an alerter that reads a new snapshot does, with that snapshot on the tape.
LEMMA FreshRead ==
  ASSUME WatchInv, ReadsFresh
  PROVE  \E s : /\ Tape(tape) /\ Longer(tape, s, tape') /\ level \in Levels
                /\ s.read = time /\ time \in Nat /\ s.t = doc.t /\ s.from = doc.from
                /\ s.book = doc.book /\ s.volume = doc.volume
                /\ level' = step_level(level, s, time)
                /\ fires' = FiresAfter(fires, level, level', tape')
<1> DEFINE s == [doc EXCEPT !.read = time]
<1>1. WatchTypes /\ InOrder /\ Tape(tape)
  BY InvOrder DEF WatchInv
<1>2. doc \in Quotes /\ time \in Nat /\ level \in Levels /\ doc.t \in Nat /\ last_epoch \in Nat
        /\ DOMAIN tape = 1 .. Len(tape)
  BY <1>1 DEF WatchTypes, Quotes
<1>3. /\ s \in Quotes /\ s.read = time /\ s.t = doc.t /\ s.from = doc.from /\ s.traded = doc.traded
      /\ s.book = doc.book /\ s.volume = doc.volume
      /\ step_level(level, s, time) = step_level(level, doc, time)
  BY <1>2, ReadTime
<1>4. tape' = Append(tape, s) /\ level' = step_level(level, doc, time)
        /\ fires' = FiresAfter(fires, level, level', tape') /\ doc.t # last_epoch
  BY DEF ReadsFresh, IsFresh, FiresAfter
<1> HIDE DEF s
<1>5. \A i \in DOMAIN tape : tape[i].t < s.t
  <2> SUFFICES ASSUME NEW i \in DOMAIN tape PROVE tape[i].t < s.t
    OBVIOUS
  <2>1. tape[i].t <= last_epoch /\ last_epoch <= doc.t /\ tape[i].t \in Nat
    <3>1. tape[i] \in Quotes
      BY <1>1 DEF WatchTypes
    <3> QED
      BY <1>1, <3>1 DEF InOrder, Quotes
  <2> QED
    BY <1>2, <1>3, <1>4, <2>1
<1>6. SchwabTotal(s)
  BY <1>1, <1>3 DEF InOrder, SchwabTotal
<1>7. Longer(tape, s, tape')
  BY <1>3, <1>4, <1>5, <1>6 DEF Longer
<1> QED
  BY <1>1, <1>2, <1>3, <1>4, <1>7

\* A fresh read reports what is earned.
LEMMA ReadEarned ==
  ASSUME WatchInv, ReadsFresh
  PROVE  Follows(level, tape, fires)' /\ BreaksAreEarned'
<1>1. PICK s : /\ Tape(tape) /\ Longer(tape, s, tape') /\ level \in Levels
               /\ s.read = time /\ time \in Nat /\ s.t = doc.t /\ s.from = doc.from
               /\ s.book = doc.book /\ s.volume = doc.volume
               /\ level' = step_level(level, s, time)
               /\ fires' = FiresAfter(fires, level, level', tape')
  BY FreshRead, Zenon
<1> DEFINE n == Len(tape)
<1>2. /\ n \in Nat /\ Len(tape') = n + 1 /\ tape'[n + 1] = s
      /\ DOMAIN tape' = 1 .. n + 1 /\ \A i \in 1 .. n : tape'[i] = tape[i]
  BY <1>1, TapeGrows
<1>3. Follows(level, tape, fires) /\ fires \in SUBSET (1 .. n)
  BY DEF WatchInv, Follows
<1>4. None \notin Sides /\ level.side \in Sides \cup {None}
  BY <1>1, LevelAssumption DEF Sides, Levels
<1>5. fires' \ {n + 1} = fires
  BY <1>1, <1>2, <1>3 DEF FiresAfter
<1>6. n + 1 \in fires' <=> Fires(level, level')
  BY <1>1, <1>2, <1>3 DEF FiresAfter
<1>7. ASSUME NEW a \in 1 .. n + 1, Starts(tape', fires, a) PROVE Since' = a
  <2>1. Since' = IF fires = {} THEN Baseline'
                 ELSE CHOOSE i \in fires : \A j \in fires : j <= i
    <3> DEFINE E == fires' \ {Len(tape')}
    <3>1. E = fires
      BY <1>2, <1>5
    <3>2. Since' = IF E = {} THEN Baseline' ELSE CHOOSE i \in E : \A j \in E : j <= i
      BY DEF Since
    <3> HIDE DEF E
    <3> QED
      BY <3>1, <3>2
  <2>2. CASE fires = {}
    <3>1. tape'[a].book # "none" /\ \A j \in 1 .. a - 1 : tape'[j].book = "none"
      BY <1>7, <2>2 DEF Starts
    <3>2. Baseline' = a
      <4> DEFINE U == tape'
      <4>1. DOMAIN U \subseteq Nat \ {0} /\ a \in DOMAIN U
        BY <1>2
      <4>2. U[a].book # "none" /\ \A j \in 1 .. a - 1 : U[j].book = "none"
        BY <3>1
      <4> HIDE DEF U
      <4>3. (CHOOSE i \in DOMAIN U : U[i].book # "none" /\ \A j \in 1 .. i - 1 : U[j].book = "none") = a
        BY <4>1, <4>2, FirstQuoteIs
      <4> QED
        BY <4>3 DEF Baseline, U
    <3> QED
      BY <2>1, <2>2, <3>2
  <2>3. CASE fires # {}
    <3>1. a \in fires /\ \A j \in fires : j <= a
      BY <1>7, <2>3 DEF Starts
    <3>2. fires \in SUBSET Nat
      BY <1>3
    <3>3. (CHOOSE i \in fires : \A j \in fires : j <= i) = a
      BY <3>1, <3>2, LatestIs
    <3> QED
      BY <2>1, <2>3, <3>3
  <2> QED
    BY <2>2, <2>3
<1>8. CASE level.side = None
  <2>1. /\ ~Fires(level, level') /\ fires = {}
        /\ Follows(level', tape', fires)
        /\ level'.side # None =>
             Starts(tape', {}, n + 1) /\ Crossing(tape', n + 1, level'.side) = {}
    <3> DEFINE F == fires
               lv == level
    <3>1. /\ Tape(tape) /\ Longer(tape, s, tape') /\ lv \in Levels /\ time \in Nat
          /\ Follows(lv, tape, F) /\ lv.side = None
      BY <1>1, <1>3, <1>8
    <3> HIDE DEF F, lv
    <3>2. LET lw == step_level(lv, s, time)
          IN  /\ ~Fires(lv, lw) /\ F = {}
              /\ Follows(lw, tape', F)
              /\ lw.side # None => Starts(tape', {}, Len(tape')) /\ Crossing(tape', Len(tape'), lw.side) = {}
      BY <3>1, BaselineStep
    <3> QED
      BY <1>1, <1>2, <3>2 DEF F, lv
  <2>2. fires' = fires
    BY <1>1, <2>1 DEF FiresAfter
  <2>3. ASSUME level'.side # None PROVE ~Earned(tape', Since', SideBefore')
    <3>1. Since' = n + 1
      BY <1>2, <1>7, <2>1, <2>3
    <3>2. SideBefore' = level'.side
      BY <1>2, <1>6, <2>1 DEF SideBefore
    <3>3. Len(tape') \notin Crossing(tape', n + 1, level'.side)
      BY <2>1, <2>3
    <3> DEFINE sd == level'.side
    <3>4. ~Earned(tape', n + 1, sd)
      <4> HIDE DEF sd
      <4> QED
        BY <1>1, <3>3, NotEarned DEF sd
    <3> QED
      BY <3>1, <3>2, <3>4
  <2> QED
    BY <1>2, <1>6, <2>1, <2>2, <2>3 DEF BreaksAreEarned
<1>9. CASE level.side # None
  <2> DEFINE side == level.side
  <2>1. side \in Sides /\ level.side = side
    BY <1>4, <1>9
  <2>2. LET lw == step_level(level, s, time)
        IN  /\ Follows(lw, tape', FiresAfter(fires, level, lw, tape'))
            /\ Fires(level, lw) => lw.side # level.side /\ lw.side \in Sides
            /\ \E a \in 1 .. Len(tape) :
                  /\ Starts(tape, fires, a)
                  /\ Totals(tape', a) =>
                       (Fires(level, lw) <=> /\ Earned(tape', a, side)
                                             /\ (fires = {} \/ time - tape'[a].read >= Cooldown))
    <3> DEFINE F == fires
               lv == level
    <3>1. /\ Tape(tape) /\ Longer(tape, s, tape') /\ lv \in Levels /\ time \in Nat /\ s.read = time
          /\ Follows(lv, tape, F) /\ side \in Sides /\ lv.side = side
      BY <1>1, <1>3, <2>1
    <3> HIDE DEF F, lv, side
    <3>2. LET lw == step_level(lv, s, time)
          IN  /\ Follows(lw, tape', FiresAfter(F, lv, lw, tape'))
              /\ Fires(lv, lw) => lw.side # lv.side /\ lw.side \in Sides
              /\ \E a \in 1 .. Len(tape) :
                    /\ Starts(tape, F, a)
                    /\ Totals(tape', a) =>
                         (Fires(lv, lw) <=> /\ Earned(tape', a, side)
                                            /\ (F = {} \/ time - tape'[a].read >= Cooldown))
      BY <3>1, SideStep
    <3> QED
      BY <3>2 DEF F, lv
  <2>3. /\ Follows(level', tape', fires')
        /\ Fires(level, level') => level'.side # level.side /\ level'.side \in Sides
    BY <1>1, <2>2
  <2>4. PICK a \in 1 .. n :
           /\ Starts(tape, fires, a)
           /\ Totals(tape', a) =>
                (Fires(level, level') <=> /\ Earned(tape', a, side)
                                          /\ (fires = {} \/ time - tape'[a].read >= Cooldown))
    BY <1>1, <2>2
  <2>5. Since' = a
    <3>1. Starts(tape', fires, a) /\ a \in 1 .. n + 1
      BY <1>1, <1>2, <1>3, <2>4, StartsKept
    <3> QED
      BY <1>7, <3>1
  <2>6. SideBefore' = side
    <3>1. CASE Fires(level, level')
      BY <1>2, <1>6, <2>1, <2>3, <3>1 DEF SideBefore, Sides
    <3>2. CASE ~Fires(level, level')
      BY <1>2, <1>6, <1>9, <3>2 DEF SideBefore, Fires
    <3> QED
      BY <3>1, <3>2
  <2>7. Cooled' <=> (fires = {} \/ time - tape'[a].read >= Cooldown)
    <3>1. fires' \subseteq {n + 1} <=> fires = {}
      BY <1>2, <1>3, <1>5
    <3> QED
      BY <1>1, <1>2, <2>5, <3>1 DEF Cooled
  <2>8. Comparable' <=> Totals(tape', a)
    BY <2>5 DEF Comparable, Totals
  <2>9. BreaksAreEarned'
    BY <1>2, <1>6, <2>4, <2>5, <2>6, <2>7, <2>8 DEF BreaksAreEarned
  <2> QED
    BY <2>3, <2>9
<1> QED
  BY <1>8, <1>9

LEMMA ReadsFreshSafe == WatchInv /\ ReadsFresh => WatchInv'
<1> SUFFICES ASSUME WatchInv, ReadsFresh PROVE WatchInv'
  OBVIOUS
<1>1. PICK s : /\ Tape(tape) /\ Longer(tape, s, tape') /\ level \in Levels
               /\ s.read = time /\ time \in Nat /\ s.t = doc.t /\ s.from = doc.from
               /\ s.book = doc.book /\ s.volume = doc.volume
               /\ level' = step_level(level, s, time)
               /\ fires' = FiresAfter(fires, level, level', tape')
  BY FreshRead, Zenon
<1>2. WatchTypes /\ InOrder /\ SeriesMatches /\ Ordered(series)
  BY InvOrder DEF WatchInv
<1>3. /\ last_epoch' = doc.t /\ age' = Age /\ stall_fired' = FALSE
      /\ UNCHANGED <<time, traded, watcher, doc, series, mishaps>>
      /\ alerter' \in {"off", "up", "dead"}
  BY DEF ReadsFresh, market, Heartbeat
<1>4. Follows(level, tape, fires)' /\ BreaksAreEarned'
  BY ReadEarned
<1>5. /\ Tape(tape') /\ Len(tape) \in Nat /\ Len(tape') = Len(tape) + 1 /\ tape'[Len(tape')] = s
      /\ DOMAIN tape' = 1 .. Len(tape') /\ DOMAIN tape = 1 .. Len(tape)
      /\ \A i \in 1 .. Len(tape) : tape'[i] = tape[i]
  BY <1>1, TapeGrows
<1>6. doc.t \in Nat /\ doc \in Quotes /\ s \in Quotes
  BY <1>1, <1>2 DEF WatchTypes, Quotes, Longer
<1>7. WatchTypes'
  <2>1. level' \in Levels
    BY <1>1, <1>6, StepTypes DEF Quotes
  <2>2. fires' \in SUBSET (1 .. Len(tape'))
    BY <1>4 DEF Follows
  <2>3. age' \in Nat
    BY <1>2, <1>3 DEF Age, WatchTypes
  <2>4. tape' \in Seq(Quotes)
    BY <1>5 DEF Tape
  <2> QED
    BY <1>2, <1>3, <1>6, <2>1, <2>2, <2>3, <2>4 DEF WatchTypes
<1>8. InOrder'
  <2>1. \A i \in DOMAIN tape' : tape'[i].t <= doc.t
    <3> SUFFICES ASSUME NEW i \in DOMAIN tape' PROVE tape'[i].t <= doc.t
      OBVIOUS
    <3>1. CASE i \in 1 .. Len(tape)
      <4>1. tape'[i] = tape[i] /\ tape[i].t <= last_epoch /\ last_epoch <= doc.t
              /\ tape[i].t \in Nat /\ last_epoch \in Nat
        <5>1. tape[i] \in Quotes
          BY <1>2, <3>1 DEF WatchTypes
        <5> QED
          BY <1>2, <1>5, <3>1, <5>1 DEF InOrder, WatchTypes, Quotes
      <4> QED
        BY <1>6, <4>1
    <3>2. CASE i = Len(tape')
      BY <1>1, <1>5, <1>6, <3>2
    <3> QED
      BY <1>5, <3>1, <3>2
  <2>2. /\ doc.t <= time /\ SchwabTotal(doc) /\ doc.t <= doc.t
        /\ \A i \in DOMAIN series : series[i].t <= time
        /\ \A i, j \in DOMAIN series : i < j => series[i].t < series[j].t
    BY <1>2, <1>6 DEF InOrder
  <2>3. /\ \A i \in DOMAIN tape' : SchwabTotal(tape'[i])
        /\ \A i, j \in DOMAIN tape' : i < j => tape'[i].t < tape'[j].t
    BY <1>5 DEF Tape
  <2> QED
    BY <1>3, <2>1, <2>2, <2>3 DEF InOrder, SchwabTotal
<1>9. SeriesMatches'
  BY <1>2, <1>3 DEF SeriesMatches, AlikeSnapshots
<1>10. ASSUME NEW k \in 0 .. Len(series'), Covers(tape', series', k)
       PROVE  Repeats(level', tape', fires', series', k)
  <2>1. \A m \in 0 .. Len(series) :
          Covers(tape, series, m) => Repeats(level, tape, fires, series, m)
    BY DEF WatchInv
  <2>2. \A i \in 1 .. Len(series) :
          series[i].t = s.t /\ s.from = "schwab" => AlikeSnapshots(s, series[i])
    BY <1>1, <1>2 DEF SeriesMatches, AlikeSnapshots
  <2>3. k \in 0 .. Len(series) /\ Covers(tape', series, k) /\ fires \in SUBSET (1 .. Len(tape))
    BY <1>2, <1>3, <1>10 DEF WatchTypes
  <2>4. LET lw == step_level(level, s, s.read)
        IN  Repeats(lw, tape', FiresAfter(fires, level, lw, tape'), series, k)
    BY <1>1, <1>2, <2>1, <2>2, <2>3, ReadRepeats
  <2> QED
    BY <1>1, <1>3, <2>4
<1> QED
  BY <1>4, <1>7, <1>8, <1>9, <1>10 DEF WatchInv

LEMMA OthersSafe ==
  WatchInv /\ (WatcherDies \/ AlertStarts \/ ReadsAgain \/ ReadFails \/ UNCHANGED watchVars) => WatchInv'
<1> SUFFICES ASSUME WatchInv, WatcherDies \/ AlertStarts \/ ReadsAgain \/ ReadFails \/ UNCHANGED watchVars
             PROVE  WatchInv'
  OBVIOUS
<1>1. UNCHANGED <<time, traded, doc, series, level, last_epoch, tape, fires>>
  BY DEF WatcherDies, AlertStarts, ReadsAgain, ReadFails, watchVars, market, alerts
<1>2. WatchTypes
  BY DEF WatchInv
<1>3. /\ watcher' \in {"up", "dead"} /\ alerter' \in {"off", "up", "dead"}
      /\ age' \in Nat /\ stall_fired' \in BOOLEAN /\ mishaps' \in Nat
  <2>1. CASE WatcherDies
    BY <1>2, <2>1 DEF WatcherDies, alerts, WatchTypes
  <2>2. CASE AlertStarts
    BY <1>2, <2>2 DEF AlertStarts, market, WatchTypes
  <2>3. CASE ReadsAgain
    <3>1. age' \in Nat /\ stall_fired' \in BOOLEAN
      BY <1>2, <2>3 DEF ReadsAgain, Age, WatchTypes
    <3>2. alerter' \in {"off", "up", "dead"}
      BY <2>3 DEF ReadsAgain, Heartbeat
    <3> QED
      BY <1>2, <2>3, <3>1, <3>2 DEF ReadsAgain, market, WatchTypes
  <2>4. CASE UNCHANGED watchVars
    BY <1>2, <2>4 DEF watchVars, market, alerts, WatchTypes
  <2>5. CASE ReadFails
    BY <1>2, <2>5 DEF ReadFails, WatchTypes
  <2> QED
    BY <2>1, <2>2, <2>3, <2>4, <2>5
<1>4. WatchTypes'
  BY <1>1, <1>2, <1>3 DEF WatchTypes
<1>5. InOrder' /\ SeriesMatches'
  BY <1>1 DEF WatchInv, InOrder, SeriesMatches, SchwabTotal, AlikeSnapshots
<1>6. BreaksAreEarned'
  BY <1>1 DEF WatchInv, BreaksAreEarned, Comparable, Since, Baseline, SideBefore, Cooled
<1> QED
  BY <1>1, <1>4, <1>5, <1>6 DEF WatchInv

\* The inductive invariant of the watcher and the alerter.
THEOREM WatchInvariant == WatchSpec => []WatchInv
<1>1. WatchInit => WatchInv
  BY WatchStarts
<1>2. WatchInv /\ [WatchNext]_watchVars => WatchInv'
  BY PollSafe, ReadsFreshSafe, OthersSafe DEF WatchNext
<1> QED
  BY <1>1, <1>2, PTL DEF WatchSpec

(***************************************************************************)
(* Breaks are reported with exactly the snapshots that earn them, and a    *)
(* replay of the series reports the same ones, whatever the thresholds.    *)
(***************************************************************************)
THEOREM BreaksAreRight == WatchSpec => []BreaksFollowTheTape
<1>1. WatchInv => BreaksFollowTheTape
  <2> SUFFICES ASSUME WatchInv PROVE ReplayAgrees
    BY DEF WatchInv, BreaksFollowTheTape
  <2>1. series \in Seq(Polled) /\ Len(series) \in Nat /\ DOMAIN series = 1 .. Len(series)
    BY DEF WatchInv, WatchTypes
  <2>2. ReplayedLevel = Rerun(series)
    BY DEF ReplayedLevel, Rerun, Runs
  <2>3. Replayed(Len(series)) = Broken(series, Len(series))
    BY <2>2 DEF Replayed, Broken
  <2>4. ASSUME /\ {tape[i].t : i \in DOMAIN tape} = {series[i].t : i \in DOMAIN series}
               /\ \A i \in DOMAIN tape : tape[i].from = "schwab" /\ tape[i].read = tape[i].t
        PROVE  Replayed(Len(series)) = {tape[i].t : i \in fires}
    <3>1. Covers(tape, series, Len(series))
      BY <2>1, <2>4 DEF Covers
    <3>2. Repeats(level, tape, fires, series, Len(series))
      BY <2>1, <3>1 DEF WatchInv
    <3> QED
      BY <2>3, <3>2 DEF Repeats
  <2> QED
    BY <2>4 DEF ReplayAgrees
<1> QED
  BY <1>1, WatchInvariant, PTL
===============================================================================
