--------------------------- MODULE BarFeed_proofs ---------------------------
(***************************************************************************)
(* Theorems about BarFeed, for every session calendar, window length,      *)
(* watchlist, capacity of the rolling list, number of late bars and number *)
(* of restarts.                                                            *)
(***************************************************************************)
EXTENDS BarFeed, Sums, SequenceTheorems

----------------------------------------------------------------------------
(* Windows and extremes.                                                   *)

\* A window starts at a multiple of its length, no later than its minutes.
LEMMA WindowFloor ==
  ASSUME NEW m \in Nat
  PROVE  /\ _window_start_for(m) \in Nat
         /\ _window_start_for(m) <= m
         /\ \E i \in Nat : _window_start_for(m) = Window * i
<1>1. Window \in Nat \ {0}
  BY BarFeedAssumption
<1>2. m \div Window \in Nat /\ m % Window \in Nat
  BY <1>1
<1>3. m = Window * (m \div Window) + (m % Window)
  BY <1>1
<1>4. _window_start_for(m) = Window * (m \div Window)
  BY <1>1, <1>2, <1>3 DEF _window_start_for
<1>5. _window_start_for(m) \in Nat /\ _window_start_for(m) <= m
  <2>1. m % Window <= m
    BY <1>1
  <2> QED
    BY <1>2, <2>1 DEF _window_start_for
<1> QED
  BY <1>2, <1>4, <1>5

\* Of two windows the earlier one is over when the later one starts.
LEMMA WindowsDoNotOverlap ==
  ASSUME NEW i \in Nat, NEW j \in Nat, Window * i < Window * j
  PROVE  Window * i + Window <= Window * j
<1>1. Window \in Nat \ {0}
  BY BarFeedAssumption
<1>2. i < j
  BY <1>1, Z3
<1> QED
  BY <1>1, <1>2, MultiplesApart

\* A non-empty set of naturals has a smallest element.
LEMMA SmallestExists ==
  ASSUME NEW S, S \subseteq Nat, S # {}
  PROVE  \E x \in S : \A y \in S : x <= y
<1>1. PICK x \in S : \A y \in S : ~(<<y, x>> \in OpToRel(<, Nat))
  BY NatLessThanWellFounded, WFMin
<1>2. \A y \in S : y < x => <<y, x>> \in OpToRel(<, Nat)
  BY DEF OpToRel
<1>3. \A y \in S : ~(y < x)
  BY <1>1, <1>2
<1>4. \A y \in S : x <= y
  BY <1>3
<1> QED
  BY <1>4

\* Every non-empty set of numbers up to n has a largest and a smallest element.
LEMMA Extremes ==
  ASSUME NEW n \in Nat, NEW S, S \subseteq 1..n, S # {}
  PROVE  Max(S) \in S /\ Min(S) \in S
<1>1. \E x \in S : \A y \in S : x <= y
  <2>1. S \subseteq Nat
    OBVIOUS
  <2> QED
    BY <2>1, SmallestExists
<1>2. \E x \in S : \A y \in S : x >= y
  <2> DEFINE T == {n - x : x \in S}
  <2>1. T \subseteq Nat /\ T # {}
    <3>1. \A x \in S : n - x \in Nat
      OBVIOUS
    <3> QED
      BY <3>1
  <2>2. PICK t \in T : \A u \in T : t <= u
    BY <2>1, SmallestExists
  <2>3. PICK x \in S : t = n - x
    BY <2>2
  <2>4. ASSUME NEW y \in S PROVE x >= y
    <3>1. n - y \in T
      OBVIOUS
    <3>2. n - x <= n - y
      BY <2>2, <2>3, <3>1
    <3> QED
      BY <3>2
  <2> QED
    BY <2>4
<1> QED
  BY <1>1, <1>2 DEF Max, Min

----------------------------------------------------------------------------
(* The data the actions build.                                             *)

\* A minute starts its window inside the horizon.
LEMMA WindowIsMinute ==
  ASSUME NEW m \in Minute
  PROVE  _window_start_for(m) \in Minute
<1>1. Horizon \in Nat /\ m \in Nat
  BY BarFeedAssumption DEF Minute
<1> QED
  BY <1>1, WindowFloor DEF Minute

\* The five-minute bar of a non-empty buffer is well formed.
LEMMA AggregateTyped ==
  ASSUME NEW w \in Minute, NEW mbars \in Seq(MinuteBar), mbars # <<>>
  PROVE  Aggregate(w, mbars) \in FiveMinBar
<1>1. Len(mbars) \in Nat \ {0} /\ DOMAIN mbars = 1..Len(mbars)
  OBVIOUS
<1>2. \A i \in DOMAIN mbars : mbars[i].price \in Price
  <2>1. \A i \in DOMAIN mbars : mbars[i] \in MinuteBar
    OBVIOUS
  <2> QED
    BY <2>1 DEF MinuteBar
<1>3. 1 \in DOMAIN mbars /\ Len(mbars) \in DOMAIN mbars
  BY <1>1
<1>4. PricesOf(mbars) \subseteq 1..MaxPrice /\ PricesOf(mbars) # {}
  BY <1>2, <1>3 DEF PricesOf, Price
<1>5. MaxPrice \in Nat
  BY BarFeedAssumption
<1>6. Max(PricesOf(mbars)) \in Price /\ Min(PricesOf(mbars)) \in Price
  BY <1>4, <1>5, Extremes DEF Price
<1> QED
  BY <1>1, <1>2, <1>3, <1>6 DEF Aggregate, FiveMinBar

\* The rolling list keeps its elements' type and its bound.
LEMMA AppendBoundedTyped ==
  ASSUME NEW S, NEW rows \in Seq(S), NEW row \in S, Len(rows) <= BarCapacity
  PROVE  /\ AppendBounded(rows, row) \in Seq(S)
         /\ Len(AppendBounded(rows, row)) <= BarCapacity
<1>1. BarCapacity \in Nat \ {0} /\ Len(rows) \in Nat
  BY BarFeedAssumption
<1>2. CASE Len(rows) < BarCapacity
  BY <1>1, <1>2, AppendProperties DEF AppendBounded
<1>3. CASE Len(rows) = BarCapacity
  <2>1. rows # <<>>
    BY <1>1, <1>3, EmptySeq
  <2>2. Tail(rows) \in Seq(S) /\ Len(Tail(rows)) = Len(rows) - 1
    BY <2>1, HeadTailProperties
  <2>3. Append(Tail(rows), row) \in Seq(S) /\ Len(Append(Tail(rows), row)) = Len(rows)
    BY <1>1, <2>2, AppendProperties
  <2>4. AppendBounded(rows, row) = Append(Tail(rows), row)
    BY <1>1, <1>3 DEF AppendBounded
  <2> QED
    BY <1>3, <2>3, <2>4
<1> QED
  BY <1>1, <1>2, <1>3

\* The context of a symbol is well formed.
LEMMA ContextTyped ==
  ASSUME TypeOK, NEW s \in Symbol
  PROVE  PremarketContextOf(s) \in PremarketContext \cup {NONE}
<1>1. CASE PmRows(s) = {} /\ bars[s] = <<>>
  BY <1>1 DEF PremarketContextOf
<1>2. CASE ~(PmRows(s) = {} /\ bars[s] = <<>>)
  <2>1. Day(now) \in Nat
    <3>1. now \in Nat /\ DayLen \in Nat \ {0}
      BY BarFeedAssumption DEF TypeOK
    <3>2. now \div DayLen \in Nat
      BY <3>1
    <3> QED
      BY <3>2 DEF Day
  <2>2. premarket_bars[s] \in Seq(FiveMinBar) /\ bars[s] \in Seq(FiveMinBar)
    BY DEF TypeOK
  <2>3. Len(premarket_bars[s]) \in Nat /\ PmRows(s) \subseteq 1..Len(premarket_bars[s])
    BY <2>2 DEF PmRows
  <2>4. PmVolume(s) \in Nat
    <3> DEFINE Shares == {share \in PmRows(s) \X (1..Horizon) :
                            share[2] <= premarket_bars[s][share[1]].bar_count}
    <3>1. Horizon \in Nat /\ IsFiniteSet(1..Horizon)
      BY BarFeedAssumption, FS_Interval
    <3>2. IsFiniteSet(PmRows(s))
      <4>1. IsFiniteSet(1..Len(premarket_bars[s]))
        BY <2>3, FS_Interval
      <4> QED
        BY <2>3, <4>1, FS_Subset
    <3>3. IsFiniteSet(PmRows(s) \X (1..Horizon))
      BY <3>1, <3>2, FS_Product
    <3>4. IsFiniteSet(Shares)
      BY <3>3, FS_Subset
    <3>5. Cardinality(Shares) \in Nat
      BY <3>4, FS_CardinalityType
    <3> QED
      BY <3>5 DEF PmVolume
  <2>5. CASE bars[s] = <<>>
    <3>1. Max(PmRows(s)) \in PmRows(s)
      BY <1>2, <2>3, <2>5, Extremes
    <3>2. premarket_bars[s][Max(PmRows(s))] \in FiveMinBar
      <4>1. Max(PmRows(s)) \in 1..Len(premarket_bars[s])
        BY <2>3, <3>1
      <4> QED
        BY <2>2, <4>1
    <3>3. premarket_bars[s][Max(PmRows(s))].timestamp \in Minute
      BY <3>2 DEF FiveMinBar
    <3> QED
      BY <1>2, <2>1, <2>4, <2>5, <3>3 DEF PremarketContextOf, PremarketContext
  <2>6. CASE bars[s] # <<>>
    <3>1. 1 \in DOMAIN bars[s]
      BY <2>2, <2>6
    <3>2. bars[s][1] \in FiveMinBar
      BY <2>2, <3>1
    <3>3. bars[s][1].timestamp \in Minute
      BY <3>2 DEF FiveMinBar
    <3> QED
      BY <1>2, <2>1, <2>4, <2>6, <3>3 DEF PremarketContextOf, PremarketContext
  <2> QED
    BY <2>5, <2>6
<1> QED
  BY <1>1, <1>2

----------------------------------------------------------------------------
(* The inductive invariant.                                                *)

\* What the open window says of the buffer and of the evaluations so far.
OpenWindow(s) ==
  /\ window_start[s] # NONE =>
       buffers[s] # <<>> /\ \E i \in Nat : window_start[s] = Window * i
  /\ \A i \in DOMAIN decisions[s] :
       window_start[s] # NONE /\ decisions[s][i].window < window_start[s]

Closed(s) ==
  \A i \in DOMAIN decisions[s] :
    /\ decisions[s][i].window + Window <= decisions[s][i].at
    /\ \A j \in 1..(i - 1) : decisions[s][j].window < decisions[s][i].window

FeedInv == TypeOK /\ \A s \in Symbol : OpenWindow(s) /\ Closed(s)

LEMMA InitFeed == Init => FeedInv
<1> SUFFICES ASSUME Init PROVE FeedInv
  OBVIOUS
<1>1. TypeOK
  BY BarFeedAssumption, EmptySeq DEF Init, TypeOK
<1>2. \A s \in Symbol : OpenWindow(s) /\ Closed(s)
  BY DEF Init, OpenWindow, Closed
<1> QED
  BY <1>1, <1>2 DEF FeedInv

\* A row that the aggregator emits when its window is over keeps the types, and
\* its evaluation, if it has one, comes after those of earlier windows.
LEMMA EmittedRow ==
  ASSUME FeedInv, NEW s \in Symbol, NEW m \in Minute, m < now,
         window_start[s] # NONE, window_start[s] < _window_start_for(m),
         _on_5min_bar(s, Aggregate(window_start[s], buffers[s]))
  PROVE  /\ bars' \in [Symbol -> Seq(FiveMinBar)]
         /\ \A r \in Symbol : Len(bars'[r]) <= BarCapacity
         /\ premarket_bars' \in [Symbol -> Seq(FiveMinBar)]
         /\ decisions' \in [Symbol -> Seq(Decision)]
         /\ \A r \in Symbol \ {s} : decisions'[r] = decisions[r]
         /\ \A i \in DOMAIN decisions'[s] : decisions'[s][i].window < _window_start_for(m)
         /\ Closed(s)'
<1> DEFINE w == window_start[s]
           row == Aggregate(w, buffers[s])
<1>1. TypeOK /\ OpenWindow(s) /\ Closed(s)
  BY DEF FeedInv
<1>2. w \in Minute /\ buffers[s] \in Seq(MinuteBar) /\ buffers[s] # <<>>
  BY <1>1 DEF TypeOK, OpenWindow
<1>3. row \in FiveMinBar /\ row.timestamp = w
  BY <1>2, AggregateTyped DEF Aggregate
<1>4. w \in Nat /\ now \in Nat /\ m \in Nat /\ Window \in Nat
  BY <1>1, <1>2, BarFeedAssumption DEF TypeOK, Minute
<1>5. w + Window <= now
  <2>1. PICK i \in Nat : w = Window * i
    BY <1>1 DEF OpenWindow
  <2>2. PICK j \in Nat : _window_start_for(m) = Window * j
    BY <1>4, WindowFloor
  <2>3. _window_start_for(m) \in Nat /\ _window_start_for(m) <= m
    BY <1>4, WindowFloor
  <2>4. w + Window <= _window_start_for(m)
    BY <2>1, <2>2, WindowsDoNotOverlap
  <2> QED
    BY <1>4, <2>3, <2>4
<1>6. /\ bars' \in [Symbol -> Seq(FiveMinBar)]
      /\ \A r \in Symbol : Len(bars'[r]) <= BarCapacity
      /\ premarket_bars' \in [Symbol -> Seq(FiveMinBar)]
  <2>1. bars[s] \in Seq(FiveMinBar) /\ Len(bars[s]) <= BarCapacity
    BY <1>1 DEF TypeOK
  <2>2. /\ AppendBounded(bars[s], row) \in Seq(FiveMinBar)
        /\ Len(AppendBounded(bars[s], row)) <= BarCapacity
    BY <1>3, <2>1, AppendBoundedTyped
  <2>3. Append(premarket_bars[s], row) \in Seq(FiveMinBar)
    BY <1>1, <1>3, AppendProperties DEF TypeOK
  <2>4. CASE is_rth(row.timestamp)
    <3>1. /\ bars' = [bars EXCEPT ![s] = AppendBounded(bars[s], row)]
          /\ premarket_bars' = premarket_bars
      BY <2>4 DEF _on_5min_bar, StoreRow
    <3> QED
      BY <1>1, <2>2, <3>1 DEF TypeOK
  <2>5. CASE ~is_rth(row.timestamp)
    <3>1. /\ premarket_bars' = [premarket_bars EXCEPT ![s] = Append(premarket_bars[s], row)]
          /\ bars' = bars
      BY <2>5 DEF _on_5min_bar, StoreRow
    <3> QED
      BY <1>1, <2>3, <3>1 DEF TypeOK
  <2> QED
    BY <2>4, <2>5
<1>7. _window_start_for(m) \in Nat
  BY <1>4, WindowFloor
<1>8. decisions[s] \in Seq(Decision)
  BY <1>1 DEF TypeOK
<1>9. \A i \in DOMAIN decisions[s] : decisions[s][i] \in Decision /\ decisions[s][i].window \in Nat
  <2>1. \A i \in DOMAIN decisions[s] : decisions[s][i] \in Decision
    BY <1>8
  <2>2. \A d \in Decision : d.window \in Nat
    BY DEF Decision, Minute
  <2> QED
    BY <2>1, <2>2
<1>10. CASE Evaluates(row)
  <2> DEFINE d == [window |-> w, at |-> now]
  <2>1. decisions' = [decisions EXCEPT ![s] = Append(decisions[s], d)]
    BY <1>3, <1>10 DEF _on_5min_bar, Evaluate
  <2>2. d \in Decision
    BY <1>2, <1>4 DEF Decision
  <2>3. decisions[s] \in Seq(Decision) /\ decisions \in [Symbol -> Seq(Decision)]
    BY <1>1 DEF TypeOK
  <2> DEFINE n == Len(decisions[s])
             new == Append(decisions[s], d)
  <2>4. n \in Nat /\ DOMAIN decisions[s] = 1..n
    BY <2>3
  <2>5. /\ new \in Seq(Decision) /\ DOMAIN new = 1..(n + 1)
        /\ \A i \in 1..n : new[i] = decisions[s][i]
        /\ new[n + 1] = d
    BY <2>2, <2>3, AppendProperties
  <2>6. decisions'[s] = new /\ decisions' \in [Symbol -> Seq(Decision)]
        /\ \A r \in Symbol \ {s} : decisions'[r] = decisions[r]
    BY <2>1, <2>3, <2>5
  <2>7. \A i \in 1..n : decisions[s][i].window < w
    BY <1>1, <2>4 DEF OpenWindow
  <2>8. \A i \in 1..(n + 1) : new[i].window < _window_start_for(m)
    <3> SUFFICES ASSUME NEW i \in 1..(n + 1) PROVE new[i].window < _window_start_for(m)
      OBVIOUS
    <3>1. CASE i = n + 1
      BY <2>5, <3>1
    <3>2. CASE i \in 1..n
      <4>1. new[i].window \in Nat /\ new[i].window < w
        BY <1>9, <2>4, <2>5, <2>7, <3>2
      <4> HIDE DEF new
      <4> QED
        BY <1>4, <1>7, <4>1
    <3> QED
      BY <2>4, <3>1, <3>2
  <2>9. \A i \in 1..(n + 1) : /\ new[i].window + Window <= new[i].at
                              /\ \A j \in 1..(i - 1) : new[j].window < new[i].window
    <3> SUFFICES ASSUME NEW i \in 1..(n + 1)
                 PROVE  /\ new[i].window + Window <= new[i].at
                        /\ \A j \in 1..(i - 1) : new[j].window < new[i].window
      OBVIOUS
    <3>1. CASE i = n + 1
      BY <1>5, <2>4, <2>5, <2>7, <3>1
    <3>2. CASE i \in 1..n
      <4>1. \A j \in 1..(i - 1) : j \in 1..n
        BY <2>4, <3>2
      <4> QED
        BY <1>1, <2>4, <2>5, <3>2, <4>1 DEF Closed
    <3> QED
      BY <2>4, <3>1, <3>2
  <2> QED
    BY <1>6, <2>5, <2>6, <2>8, <2>9 DEF Closed
<1>11. CASE ~Evaluates(row)
  <2>1. decisions' = decisions
    BY <1>11 DEF _on_5min_bar, Evaluate
  <2>2. \A i \in DOMAIN decisions[s] : decisions[s][i].window < w
    BY <1>1 DEF OpenWindow
  <2>3. \A i \in DOMAIN decisions[s] : decisions[s][i].window < _window_start_for(m)
    BY <1>4, <1>7, <1>9, <2>2
  <2> QED
    BY <1>1, <1>6, <2>1, <2>3 DEF Closed, TypeOK
<1> QED
  BY <1>10, <1>11

\* The four outcomes of a received bar.
LEMMA ReceiveFeed ==
  ASSUME FeedInv, NEW s \in Symbol, NEW m \in Minute, NEW p \in Price, Receive(s, m, p)
  PROVE  FeedInv'
<1> DEFINE bar == [minute |-> m, price |-> p]
           w == _window_start_for(m)
<1>1. TypeOK /\ \A r \in Symbol : OpenWindow(r) /\ Closed(r)
  BY DEF FeedInv
<1>2. /\ m < now /\ on_minute_bar(s, bar)
      /\ received' = [received EXCEPT ![s] = Append(received[s], bar)]
      /\ UNCHANGED <<now, booted, daily_df, premarket_ctx, backfill_done_for, pm_done_for>>
  BY DEF Receive, routineVars
<1>3. bar \in MinuteBar /\ bar.minute = m
  BY DEF MinuteBar
<1>4. received' \in [Symbol -> Seq(MinuteBar)]
  <2>1. Append(received[s], bar) \in Seq(MinuteBar)
    BY <1>1, <1>3, AppendProperties DEF TypeOK
  <2> QED
    BY <1>1, <1>2, <2>1 DEF TypeOK
<1>5. w \in Minute /\ w \in Nat /\ w # NONE /\ \E i \in Nat : w = Window * i
  <2>1. m \in Nat
    BY DEF Minute
  <2>2. w \in Minute
    BY WindowIsMinute
  <2> QED
    BY <2>1, <2>2, WindowFloor, BarFeedAssumption
<1>6. ASSUME /\ buffers' \in [Symbol -> Seq(MinuteBar)]
             /\ window_start' \in [Symbol -> Minute \cup {NONE}]
             /\ bars' \in [Symbol -> Seq(FiveMinBar)]
             /\ \A r \in Symbol : Len(bars'[r]) <= BarCapacity
             /\ premarket_bars' \in [Symbol -> Seq(FiveMinBar)]
             /\ decisions' \in [Symbol -> Seq(Decision)]
      PROVE  TypeOK'
  BY <1>1, <1>2, <1>4, <1>6 DEF TypeOK
<1>7. Append(buffers[s], bar) \in Seq(MinuteBar) /\ Append(buffers[s], bar) # <<>>
  <2>1. buffers[s] \in Seq(MinuteBar)
    BY <1>1 DEF TypeOK
  <2> QED
    BY <1>3, <2>1, AppendProperties
<1>8. CASE OpenFirst(s, bar)
  <2>1. /\ window_start[s] = NONE
        /\ buffers' = [buffers EXCEPT ![s] = Append(buffers[s], bar)]
        /\ window_start' = [window_start EXCEPT ![s] = w]
        /\ UNCHANGED <<bars, premarket_bars, decisions>>
    BY <1>3, <1>8 DEF OpenFirst
  <2>2. TypeOK'
    BY <1>1, <1>5, <1>6, <1>7, <2>1 DEF TypeOK
  <2>3. window_start'[s] = w /\ buffers'[s] # <<>> /\ DOMAIN decisions[s] = {}
    <3>1. DOMAIN decisions[s] = {}
      BY <1>1, <2>1 DEF OpenWindow
    <3> QED
      BY <1>1, <1>7, <2>1, <3>1 DEF TypeOK
  <2>4. \A r \in Symbol \ {s} : /\ window_start'[r] = window_start[r]
                                /\ buffers'[r] = buffers[r]
    BY <1>1, <2>1 DEF TypeOK
  <2>5. OpenWindow(s)'
    BY <1>5, <2>1, <2>3 DEF OpenWindow
  <2>6. \A r \in Symbol \ {s} : OpenWindow(r)'
    BY <1>1, <2>1, <2>4 DEF OpenWindow
  <2>7. \A r \in Symbol : Closed(r)'
    BY <1>1, <2>1 DEF Closed
  <2> QED
    BY <2>2, <2>5, <2>6, <2>7 DEF FeedInv
<1>9. CASE Extend(s, bar)
  <2>1. /\ window_start[s] = w
        /\ buffers' = [buffers EXCEPT ![s] = Append(buffers[s], bar)]
        /\ UNCHANGED <<window_start, bars, premarket_bars, decisions>>
    BY <1>3, <1>9 DEF Extend
  <2>2. TypeOK'
    BY <1>1, <1>6, <1>7, <2>1 DEF TypeOK
  <2>3. \A r \in Symbol : buffers'[r] = buffers[r] \/ buffers'[r] # <<>>
    BY <1>1, <1>7, <2>1 DEF TypeOK
  <2>4. \A r \in Symbol : OpenWindow(r)' /\ Closed(r)'
    BY <1>1, <2>1, <2>3 DEF OpenWindow, Closed
  <2> QED
    BY <2>2, <2>4 DEF FeedInv
<1>10. CASE RollOver(s, bar)
  <2>1. /\ window_start[s] # NONE /\ window_start[s] < w
        /\ _on_5min_bar(s, Aggregate(window_start[s], buffers[s]))
        /\ buffers' = [buffers EXCEPT ![s] = <<bar>>]
        /\ window_start' = [window_start EXCEPT ![s] = w]
    BY <1>3, <1>10 DEF RollOver, NextBuffer
  <2>2. /\ bars' \in [Symbol -> Seq(FiveMinBar)]
        /\ \A r \in Symbol : Len(bars'[r]) <= BarCapacity
        /\ premarket_bars' \in [Symbol -> Seq(FiveMinBar)]
        /\ decisions' \in [Symbol -> Seq(Decision)]
        /\ \A r \in Symbol \ {s} : decisions'[r] = decisions[r]
        /\ \A i \in DOMAIN decisions'[s] : decisions'[s][i].window < w
        /\ Closed(s)'
    BY <1>2, <2>1, EmittedRow
  <2>3. <<bar>> \in Seq(MinuteBar) /\ <<bar>> # <<>>
    BY <1>3
  <2>4. /\ buffers' \in [Symbol -> Seq(MinuteBar)]
        /\ window_start' \in [Symbol -> Minute \cup {NONE}]
    BY <1>1, <1>5, <2>1, <2>3 DEF TypeOK
  <2>5. TypeOK'
    BY <1>6, <2>2, <2>4
  <2>6. window_start'[s] = w /\ buffers'[s] # <<>>
    BY <1>1, <2>1, <2>3 DEF TypeOK
  <2>7. OpenWindow(s)'
    BY <1>5, <2>2, <2>6 DEF OpenWindow
  <2>8. \A r \in Symbol \ {s} : window_start'[r] = window_start[r] /\ buffers'[r] = buffers[r]
    BY <1>1, <2>1 DEF TypeOK
  <2>9. \A r \in Symbol \ {s} : OpenWindow(r)' /\ Closed(r)'
    BY <1>1, <2>2, <2>8 DEF OpenWindow, Closed
  <2> QED
    BY <2>2, <2>5, <2>7, <2>9 DEF FeedInv
<1>11. CASE DropLate(s, bar)
  <2>1. UNCHANGED <<buffers, window_start, bars, premarket_bars, decisions>>
    BY <1>11 DEF DropLate
  <2>2. TypeOK'
    BY <1>1, <1>6, <2>1 DEF TypeOK
  <2>3. \A r \in Symbol : OpenWindow(r)' /\ Closed(r)'
    BY <1>1, <2>1 DEF OpenWindow, Closed
  <2> QED
    BY <2>2, <2>3 DEF FeedInv
<1> QED
  BY <1>2, <1>8, <1>9, <1>10, <1>11 DEF on_minute_bar

LEMMA StepFeed == FeedInv /\ [Next]_vars => FeedInv'
<1> SUFFICES ASSUME FeedInv, [Next]_vars PROVE FeedInv'
  OBVIOUS
<1>1. TypeOK /\ \A s \in Symbol : OpenWindow(s) /\ Closed(s)
  BY DEF FeedInv
<1>2. ASSUME UNCHANGED streamVars, TypeOK' PROVE FeedInv'
  <2>1. UNCHANGED <<buffers, window_start, decisions>>
    BY <1>2 DEF streamVars
  <2>2. \A s \in Symbol : OpenWindow(s)' /\ Closed(s)'
    BY <1>1, <2>1 DEF OpenWindow, Closed
  <2> QED
    BY <1>2, <2>2 DEF FeedInv
<1>3. Day(now) \in Nat
  <2>1. now \in Nat /\ DayLen \in Nat \ {0}
    BY <1>1, BarFeedAssumption DEF TypeOK
  <2>2. now \div DayLen \in Nat
    BY <2>1
  <2> QED
    BY <2>2 DEF Day
<1>4. CASE \E s \in Symbol, m \in Minute, p \in Price : Receive(s, m, p)
  BY <1>4, ReceiveFeed
<1>5. CASE \E loaded \in SUBSET Symbol : RunBaselineBackfill(loaded)
  <2>1. PICK loaded \in SUBSET Symbol : RunBaselineBackfill(loaded)
    BY <1>5
  <2>2. /\ daily_df' = daily_df \cup loaded /\ backfill_done_for' = Day(now)
        /\ UNCHANGED <<now, booted, streamVars, premarket_ctx, pm_done_for>>
    BY <2>1 DEF RunBaselineBackfill
  <2>3. TypeOK'
    BY <1>1, <1>3, <2>2 DEF TypeOK, streamVars
  <2> QED
    BY <1>2, <2>2, <2>3
<1>6. CASE ComputePremarketContexts
  <2>1. /\ premarket_ctx' = [s \in Symbol |->
             IF FrameIsEmpty(s) \/ s \notin daily_df THEN premarket_ctx[s]
             ELSE PremarketContextOf(s)]
        /\ pm_done_for' = Day(now)
        /\ UNCHANGED <<now, booted, streamVars, daily_df, backfill_done_for>>
    BY <1>6 DEF ComputePremarketContexts
  <2>2. premarket_ctx' \in [Symbol -> PremarketContext \cup {NONE}]
    <3>1. \A s \in Symbol : PremarketContextOf(s) \in PremarketContext \cup {NONE}
      BY <1>1, ContextTyped
    <3>2. \A s \in Symbol : premarket_ctx[s] \in PremarketContext \cup {NONE}
      BY <1>1 DEF TypeOK
    <3> QED
      BY <2>1, <3>1, <3>2
  <2>3. TypeOK'
    BY <1>1, <1>3, <2>1, <2>2 DEF TypeOK, streamVars
  <2> QED
    BY <1>2, <2>1, <2>3
<1>7. CASE Tick
  <2>1. now < Horizon /\ now' = now + 1 /\ UNCHANGED <<booted, streamVars, routineVars>>
    BY <1>7 DEF Tick
  <2>2. TypeOK'
    BY <1>1, <2>1, BarFeedAssumption DEF TypeOK, streamVars, routineVars
  <2> QED
    BY <1>2, <2>1, <2>2
<1>8. CASE Restart
  <2>1. TypeOK'
    BY <1>1, <1>8, EmptySeq, BarFeedAssumption DEF Restart, TypeOK
  <2>2. \A s \in Symbol : OpenWindow(s)' /\ Closed(s)'
    BY <1>8 DEF Restart, OpenWindow, Closed
  <2> QED
    BY <2>1, <2>2 DEF FeedInv
<1>9. CASE UNCHANGED vars
  BY <1>1, <1>2, <1>9 DEF vars, streamVars, routineVars, TypeOK
<1> QED
  BY <1>4, <1>5, <1>6, <1>7, <1>8, <1>9 DEF Next

LEMMA FeedInvariant == Spec => []FeedInv
<1> QED
  BY InitFeed, StepFeed, PTL DEF Spec

\* The aggregator, the rows of every symbol and the contexts keep their types,
\* and the rolling list of session bars never outgrows its capacity.
THEOREM TypeCorrect == Spec => []TypeOK
<1>1. FeedInv => TypeOK
  BY DEF FeedInv
<1> QED
  BY <1>1, FeedInvariant, PTL

\* No evaluation looks ahead: whatever bars are late, missing or delayed, a
\* signal is evaluated on windows that are over, each at most once, in order.
THEOREM NoLookAhead == Spec => []ClosedBeforeEvaluated
<1>1. FeedInv => ClosedBeforeEvaluated
  BY DEF FeedInv, Closed, ClosedBeforeEvaluated
<1> QED
  BY <1>1, FeedInvariant, PTL

----------------------------------------------------------------------------
(* What relates the buffer and the rows of a symbol to the bars received.  *)

\* The accepted positions of a window, and the closed windows.
Here(seq, w) == {i \in AcceptedIn(seq) : _window_start_for(seq[i].minute) = w}
SessionIn(seq) == {w \in ClosedWindowsIn(seq) : is_rth(w)}
OutsideIn(seq) == ClosedWindowsIn(seq) \ SessionIn(seq)

\* The buffer holds what was accepted for w, the youngest window.
OpenBuffer(seq, buffer, w) ==
  /\ \A i \in DOMAIN seq : _window_start_for(seq[i].minute) <= w
  /\ w \in WindowsIn(seq)
  /\ buffer # <<>> /\ Len(buffer) = Cardinality(Here(seq, w))
  /\ PricesOf(buffer) = {seq[i].price : i \in Here(seq, w)}
  /\ buffer[1].price = seq[Min(Here(seq, w))].price
  /\ buffer[Len(buffer)].price = seq[Max(Here(seq, w))].price

\* The rows are the bars of the windows owed, in order.
RowsOf(rows, seq, owed) ==
  /\ BarsInOrder(rows)
  /\ \A i \in DOMAIN rows : /\ rows[i].timestamp \in owed
                            /\ rows[i] = ReferenceBar(seq, rows[i].timestamp)
  /\ \A w \in owed : \E i \in DOMAIN rows : rows[i].timestamp = w

Younger(windows, w) == {v \in windows : v > w}

\* Every row is followed by the rows of all younger windows.
Ranked(rows, windows) ==
  \A i \in DOMAIN rows : Cardinality(Younger(windows, rows[i].timestamp)) = Len(rows) - i

\* The books of a symbol are in order.
Book(s) ==
  /\ \A i \in DOMAIN received[s] : received[s][i].minute < now
  /\ IF received[s] = <<>> THEN window_start[s] = NONE /\ buffers[s] = <<>>
     ELSE window_start[s] # NONE /\ OpenBuffer(received[s], buffers[s], window_start[s])
  /\ RowsOf(bars[s], received[s], Newest(SessionIn(received[s]), BarCapacity))
  /\ Ranked(bars[s], SessionIn(received[s]))
  /\ RowsOf(premarket_bars[s], received[s], OutsideIn(received[s]))

----------------------------------------------------------------------------
(* The reference and one more bar.                                         *)

\* The positions of a window, and the windows, are finitely many numbers.
LEMMA Positions ==
  ASSUME NEW seq \in Seq(MinuteBar)
  PROVE  /\ Len(seq) \in Nat /\ DOMAIN seq = 1..Len(seq)
         /\ \A i \in DOMAIN seq : /\ seq[i].minute \in Nat /\ seq[i].price \in Price
                                  /\ _window_start_for(seq[i].minute) \in Nat
         /\ AcceptedIn(seq) \subseteq 1..Len(seq)
         /\ \A w : Here(seq, w) \subseteq 1..Len(seq) /\ IsFiniteSet(Here(seq, w))
         /\ WindowsIn(seq) \subseteq Nat /\ IsFiniteSet(WindowsIn(seq))
         /\ \A w \in WindowsIn(seq) : Here(seq, w) # {}
<1>1. Len(seq) \in Nat /\ DOMAIN seq = 1..Len(seq)
  OBVIOUS
<1>2. \A i \in DOMAIN seq : seq[i] \in MinuteBar
  OBVIOUS
<1>3. \A b \in MinuteBar : b.minute \in Nat /\ b.price \in Price
  BY DEF MinuteBar, Minute
<1>4. \A i \in DOMAIN seq : /\ seq[i].minute \in Nat /\ seq[i].price \in Price
                            /\ _window_start_for(seq[i].minute) \in Nat
  BY <1>2, <1>3, WindowFloor
<1>5. AcceptedIn(seq) \subseteq 1..Len(seq)
  BY <1>1 DEF AcceptedIn
<1>6. IsFiniteSet(1..Len(seq))
  BY <1>1, FS_Interval
<1>7. \A w : Here(seq, w) \subseteq 1..Len(seq) /\ IsFiniteSet(Here(seq, w))
  <2>1. \A w : Here(seq, w) \subseteq 1..Len(seq)
    BY <1>5 DEF Here
  <2> QED
    BY <1>6, <2>1, FS_Subset
<1>8. WindowsIn(seq) \subseteq Nat
  BY <1>1, <1>4, <1>5 DEF WindowsIn
<1>9. IsFiniteSet(WindowsIn(seq))
  <2> DEFINE f == [i \in AcceptedIn(seq) |-> _window_start_for(seq[i].minute)]
  <2>1. IsFiniteSet(AcceptedIn(seq))
    BY <1>5, <1>6, FS_Subset
  <2>2. f \in Surjection(AcceptedIn(seq), WindowsIn(seq))
    BY DEF Surjection, WindowsIn
  <2> QED
    BY <2>1, <2>2, FS_Surjection
<1>10. \A w \in WindowsIn(seq) : Here(seq, w) # {}
  BY DEF WindowsIn, Here
<1> QED
  BY <1>1, <1>4, <1>5, <1>7, <1>8, <1>9, <1>10

\* One more bar is accepted when no younger window preceded it, and what was
\* accepted before stays accepted.
LEMMA OneMoreBar ==
  ASSUME NEW seq \in Seq(MinuteBar), NEW bar \in MinuteBar
  PROVE  LET more == Append(seq, bar)
             taken == \A i \in DOMAIN seq :
                        _window_start_for(seq[i].minute) <= _window_start_for(bar.minute)
         IN  /\ more \in Seq(MinuteBar) /\ Len(more) = Len(seq) + 1
             /\ DOMAIN more = 1..(Len(seq) + 1)
             /\ \A i \in DOMAIN seq : more[i] = seq[i]
             /\ more[Len(seq) + 1] = bar
             /\ AcceptedIn(more) =
                  AcceptedIn(seq) \cup (IF taken THEN {Len(seq) + 1} ELSE {})
<1> DEFINE more == Append(seq, bar)
           n == Len(seq)
           W(i) == _window_start_for(more[i].minute)
           taken == \A i \in DOMAIN seq :
                      _window_start_for(seq[i].minute) <= _window_start_for(bar.minute)
<1>1. n \in Nat /\ DOMAIN seq = 1..n
  OBVIOUS
<1>2. /\ more \in Seq(MinuteBar) /\ Len(more) = n + 1 /\ DOMAIN more = 1..(n + 1)
      /\ \A i \in 1..n : more[i] = seq[i]
      /\ more[n + 1] = bar
  BY <1>1, AppendProperties
<1> HIDE DEF more
<1>3. \A i \in 1..n : i \in AcceptedIn(more) <=> i \in AcceptedIn(seq)
  <2> SUFFICES ASSUME NEW i \in 1..n PROVE i \in AcceptedIn(more) <=> i \in AcceptedIn(seq)
    OBVIOUS
  <2>1. \A j \in 1..(i - 1) : j \in 1..n
    BY <1>1
  <2>2. i \in DOMAIN more /\ i \in DOMAIN seq
    BY <1>1, <1>2
  <2>3. more[i] = seq[i] /\ \A j \in 1..(i - 1) : more[j] = seq[j]
    BY <1>2, <2>1
  <2> QED
    BY <2>2, <2>3 DEF AcceptedIn
<1>4. n + 1 \in AcceptedIn(more) <=> taken
  <2>1. n + 1 \in DOMAIN more /\ (n + 1) - 1 = n
    BY <1>1, <1>2
  <2>2. n + 1 \in AcceptedIn(more) <=> \A j \in 1..n : W(j) <= W(n + 1)
    BY <2>1 DEF AcceptedIn
  <2>3. \A j \in 1..n : W(j) = _window_start_for(seq[j].minute)
    BY <1>2
  <2>4. W(n + 1) = _window_start_for(bar.minute)
    BY <1>2
  <2> HIDE DEF W
  <2> QED
    BY <1>1, <2>2, <2>3, <2>4
<1>5. AcceptedIn(more) \subseteq 1..(n + 1) /\ AcceptedIn(seq) \subseteq 1..n
  BY <1>1, <1>2 DEF AcceptedIn
<1>6. AcceptedIn(more) = AcceptedIn(seq) \cup (IF taken THEN {n + 1} ELSE {})
  <2>1. 1..(n + 1) = 1..n \cup {n + 1} /\ n + 1 \notin 1..n
    BY <1>1
  <2> HIDE DEF taken
  <2> QED
    BY <1>3, <1>4, <1>5, <2>1
<1> QED
  BY <1>1, <1>2, <1>6 DEF more

\* A window whose positions and bars are the same has the same reference bar.
LEMMA SameReference ==
  ASSUME NEW seq \in Seq(MinuteBar), NEW bar \in MinuteBar, NEW w \in WindowsIn(seq),
         Here(Append(seq, bar), w) = Here(seq, w)
  PROVE  ReferenceBar(Append(seq, bar), w) = ReferenceBar(seq, w)
<1> DEFINE more == Append(seq, bar)
           here == Here(seq, w)
<1>1. here \subseteq DOMAIN seq /\ here # {} /\ DOMAIN seq = 1..Len(seq) /\ Len(seq) \in Nat
  BY Positions
<1>2. \A i \in here : more[i] = seq[i]
  BY <1>1, OneMoreBar
<1>3. Min(here) \in here /\ Max(here) \in here
  BY <1>1, Extremes
<1>4. {more[i].price : i \in here} = {seq[i].price : i \in here}
  BY <1>2
<1>5. {i \in AcceptedIn(more) : _window_start_for(more[i].minute) = w} = here
  BY DEF Here
<1>6. {i \in AcceptedIn(seq) : _window_start_for(seq[i].minute) = w} = here
  BY DEF Here
<1>7. more[Min(here)] = seq[Min(here)] /\ more[Max(here)] = seq[Max(here)]
  BY <1>2, <1>3
<1> HIDE DEF more, here
<1>8. ReferenceBar(more, w) = ReferenceBar(seq, w)
  BY <1>4, <1>5, <1>6, <1>7 DEF ReferenceBar
<1> QED
  BY <1>8 DEF more

\* The bar of the open window is what the aggregator will emit for it.
LEMMA OpenReference ==
  ASSUME NEW seq, NEW buffer, NEW w, OpenBuffer(seq, buffer, w)
  PROVE  Aggregate(w, buffer) = ReferenceBar(seq, w)
<1>1. {i \in AcceptedIn(seq) : _window_start_for(seq[i].minute) = w} = Here(seq, w)
  BY DEF Here
<1> QED
  BY <1>1 DEF OpenBuffer, Aggregate, ReferenceBar

\* What one more bar adds to its window, if it is accepted, and to no other.
LEMMA OneMoreHere ==
  ASSUME NEW seq \in Seq(MinuteBar), NEW bar \in MinuteBar
  PROVE  LET more == Append(seq, bar)
             w == _window_start_for(bar.minute)
             taken == \A i \in DOMAIN seq : _window_start_for(seq[i].minute) <= w
         IN  /\ \A v : Here(more, v) =
                  Here(seq, v) \cup (IF taken /\ v = w THEN {Len(seq) + 1} ELSE {})
             /\ WindowsIn(more) = WindowsIn(seq) \cup (IF taken THEN {w} ELSE {})
<1> DEFINE more == Append(seq, bar)
           n == Len(seq)
           w == _window_start_for(bar.minute)
           taken == \A i \in DOMAIN seq : _window_start_for(seq[i].minute) <= w
<1>1. /\ \A i \in DOMAIN seq : more[i] = seq[i]
      /\ more[n + 1] = bar
      /\ AcceptedIn(more) = AcceptedIn(seq) \cup (IF taken THEN {n + 1} ELSE {})
  BY OneMoreBar
<1>2. AcceptedIn(seq) \subseteq DOMAIN seq /\ n \in Nat /\ DOMAIN seq = 1..n
  BY DEF AcceptedIn
<1>3. /\ \A i \in AcceptedIn(seq) :
           _window_start_for(more[i].minute) = _window_start_for(seq[i].minute)
      /\ _window_start_for(more[n + 1].minute) = w
  BY <1>1, <1>2
<1> HIDE DEF more, taken
<1>4. \A v : Here(more, v) = Here(seq, v) \cup (IF taken /\ v = w THEN {n + 1} ELSE {})
  <2> SUFFICES ASSUME NEW v, NEW i
               PROVE  i \in Here(more, v) <=> i \in Here(seq, v) \/ (taken /\ v = w /\ i = n + 1)
    OBVIOUS
  <2>1. i \in AcceptedIn(more) <=> i \in AcceptedIn(seq) \/ (taken /\ i = n + 1)
    BY <1>1
  <2> QED
    BY <1>3, <2>1 DEF Here
<1>5. WindowsIn(more) = WindowsIn(seq) \cup (IF taken THEN {w} ELSE {})
  <2> DEFINE U(i) == _window_start_for(more[i].minute)
             V(i) == _window_start_for(seq[i].minute)
  <2>1. /\ WindowsIn(more) = {U(i) : i \in AcceptedIn(more)}
        /\ WindowsIn(seq) = {V(i) : i \in AcceptedIn(seq)}
    BY DEF WindowsIn
  <2>2. (\A i \in AcceptedIn(seq) : U(i) = V(i)) /\ U(n + 1) = w
    BY <1>3
  <2> HIDE DEF U, V
  <2> QED
    BY <1>1, <2>1, <2>2
<1> QED
  BY <1>4, <1>5 DEF more, taken

\* A number above all of a set of numbers is its largest, and leaves its
\* smallest alone.
LEMMA ExtremesGrow ==
  ASSUME NEW n \in Nat, NEW S, S \subseteq 1..n
  PROVE  /\ Max(S \cup {n + 1}) = n + 1
         /\ S # {} => Min(S \cup {n + 1}) = Min(S)
         /\ Min({n + 1}) = n + 1
<1> DEFINE T == S \cup {n + 1}
<1>1. \A x \in T : x \in Nat /\ n + 1 >= x
  OBVIOUS
<1>2. Max(T) = n + 1
  <2>1. \A x \in T : (\A y \in T : x >= y) <=> x = n + 1
    BY <1>1
  <2>2. n + 1 \in T
    OBVIOUS
  <2> HIDE DEF T
  <2>3. (CHOOSE x \in T : \A y \in T : x >= y) = n + 1
    BY <2>1, <2>2
  <2> QED
    BY <2>3 DEF Max
<1>3. ASSUME S # {} PROVE Min(T) = Min(S)
  <2>1. Min(S) \in S
    BY <1>3, Extremes
  <2>2. \A y \in S : Min(S) <= y
    <3>1. \E x \in S : \A y \in S : x <= y
      <4>1. S \subseteq Nat
        OBVIOUS
      <4> QED
        BY <1>3, <4>1, SmallestExists
    <3> QED
      BY <3>1 DEF Min
  <2>3. \A x \in T : (\A y \in T : x <= y) <=> x = Min(S)
    <3> SUFFICES ASSUME NEW x \in T PROVE (\A y \in T : x <= y) <=> x = Min(S)
      OBVIOUS
    <3> DEFINE k == Min(S)
    <3>1. k \in 1..n /\ k \in S /\ \A y \in S : k <= y
      BY <2>1, <2>2
    <3> HIDE DEF k
    <3>2. (\A y \in T : x <= y) <=> x = k
      BY <1>1, <3>1
    <3> QED
      BY <3>2 DEF k
  <2>4. Min(S) \in T
    BY <2>1
  <2> HIDE DEF T
  <2>5. (CHOOSE x \in T : \A y \in T : x <= y) = Min(S)
    BY <2>3, <2>4
  <2> QED
    BY <2>5 DEF Min
<1>4. Min({n + 1}) = n + 1
  BY DEF Min
<1> QED
  BY <1>2, <1>3, <1>4

\* A bar younger than all before it starts a buffer of its own.
LEMMA BarOpens ==
  ASSUME NEW seq \in Seq(MinuteBar), NEW bar \in MinuteBar,
         \A i \in DOMAIN seq :
           _window_start_for(seq[i].minute) < _window_start_for(bar.minute)
  PROVE  LET more == Append(seq, bar)
             w == _window_start_for(bar.minute)
         IN  /\ OpenBuffer(more, <<bar>>, w)
             /\ WindowsIn(more) = WindowsIn(seq) \cup {w}
             /\ \A v \in WindowsIn(seq) : v < w /\ Here(more, v) = Here(seq, v)
<1> DEFINE more == Append(seq, bar)
           n == Len(seq)
           w == _window_start_for(bar.minute)
<1>1. /\ n \in Nat /\ DOMAIN seq = 1..n
      /\ \A i \in DOMAIN seq : _window_start_for(seq[i].minute) \in Nat
      /\ AcceptedIn(seq) \subseteq 1..n
  BY Positions
<1>2. w \in Nat
  BY WindowFloor DEF MinuteBar, Minute
<1>3. \A i \in DOMAIN seq : _window_start_for(seq[i].minute) <= w
  BY <1>1, <1>2
<1>4. /\ \A v : Here(more, v) = Here(seq, v) \cup (IF v = w THEN {n + 1} ELSE {})
      /\ WindowsIn(more) = WindowsIn(seq) \cup {w}
  BY <1>3, OneMoreHere
<1>5. \A v \in WindowsIn(seq) : v < w
  BY <1>1 DEF WindowsIn
<1>6. Here(more, w) = {n + 1}
  <2>1. Here(seq, w) = {}
    <3>1. \A i \in Here(seq, w) : i \in DOMAIN seq /\ _window_start_for(seq[i].minute) = w
      BY <1>1 DEF Here
    <3> QED
      BY <1>1, <1>2, <3>1
  <2> QED
    BY <1>4, <2>1
<1>7. /\ DOMAIN more = 1..(n + 1) /\ more[n + 1] = bar
      /\ \A i \in DOMAIN seq : more[i] = seq[i]
  BY OneMoreBar
<1> HIDE DEF more
<1>8. OpenBuffer(more, <<bar>>, w)
  <2>1. \A i \in DOMAIN more : _window_start_for(more[i].minute) <= w
    <3>1. \A i \in DOMAIN more : i \in 1..n \/ i = n + 1
      BY <1>1, <1>7
    <3>2. w <= w
      BY <1>2
    <3> QED
      BY <1>1, <1>3, <1>7, <3>1, <3>2
  <2>2. w \in WindowsIn(more)
    BY <1>4
  <2>3. Cardinality({n + 1}) = 1 /\ Len(<<bar>>) = 1 /\ <<bar>> # <<>>
    BY FS_Singleton
  <2>4. Min({n + 1}) = n + 1 /\ Max({n + 1}) = n + 1
    <3>1. Max({} \cup {n + 1}) = n + 1 /\ Min({n + 1}) = n + 1
      BY <1>1, ExtremesGrow
    <3>2. {} \cup {n + 1} = {n + 1}
      OBVIOUS
    <3> QED
      BY <3>1, <3>2
  <2>5. PricesOf(<<bar>>) = {more[i].price : i \in {n + 1}}
    <3>1. DOMAIN <<bar>> = {1}
      OBVIOUS
    <3> QED
      BY <1>7, <3>1 DEF PricesOf
  <2> QED
    BY <1>6, <1>7, <2>1, <2>2, <2>3, <2>4, <2>5 DEF OpenBuffer
<1>9. \A v \in WindowsIn(seq) : v < w /\ Here(more, v) = Here(seq, v)
  <2> SUFFICES ASSUME NEW v \in WindowsIn(seq) PROVE v < w /\ Here(more, v) = Here(seq, v)
    OBVIOUS
  <2>1. v < w /\ v # w
    BY <1>2, <1>5
  <2>2. Here(more, v) = Here(seq, v) \cup {}
    BY <1>4, <2>1
  <2> QED
    BY <2>1, <2>2
<1> QED
  BY <1>4, <1>8, <1>9 DEF more

\* A bar of the open window joins its buffer.
LEMMA BarExtends ==
  ASSUME NEW seq \in Seq(MinuteBar), NEW bar \in MinuteBar,
         NEW buffer \in Seq(MinuteBar), NEW w,
         OpenBuffer(seq, buffer, w), _window_start_for(bar.minute) = w
  PROVE  LET more == Append(seq, bar)
         IN  /\ OpenBuffer(more, Append(buffer, bar), w)
             /\ WindowsIn(more) = WindowsIn(seq)
             /\ \A v \in WindowsIn(seq) \ {w} : Here(more, v) = Here(seq, v)
<1> DEFINE more == Append(seq, bar)
           longer == Append(buffer, bar)
           n == Len(seq)
           k == Len(buffer)
           here == Here(seq, w)
<1>1. /\ n \in Nat /\ DOMAIN seq = 1..n
      /\ here \subseteq 1..n /\ IsFiniteSet(here)
  BY Positions
<1>2. /\ \A i \in DOMAIN seq : _window_start_for(seq[i].minute) <= w
      /\ w \in WindowsIn(seq)
      /\ buffer # <<>> /\ k = Cardinality(here)
      /\ PricesOf(buffer) = {seq[i].price : i \in here}
      /\ buffer[1].price = seq[Min(here)].price
  BY DEF OpenBuffer
<1>3. here # {}
  BY <1>2, Positions
<1>4. /\ \A v : Here(more, v) = Here(seq, v) \cup (IF v = w THEN {n + 1} ELSE {})
      /\ WindowsIn(more) = WindowsIn(seq) \cup {w}
  BY <1>2, OneMoreHere
<1>5. Here(more, w) = here \cup {n + 1}
  BY <1>4
<1>6. /\ DOMAIN more = 1..(n + 1) /\ more[n + 1] = bar
      /\ \A i \in 1..n : more[i] = seq[i]
  BY <1>1, OneMoreBar
<1>7. /\ k \in Nat \ {0} /\ DOMAIN buffer = 1..k /\ Len(longer) = k + 1
      /\ DOMAIN longer = 1..(k + 1)
      /\ longer[k + 1] = bar /\ longer # <<>>
      /\ \A i \in 1..k : longer[i] = buffer[i]
  <2>1. k \in Nat /\ DOMAIN buffer = 1..k /\ k # 0
    BY <1>2, EmptySeq
  <2>2. /\ longer \in Seq(MinuteBar) /\ Len(longer) = k + 1 /\ DOMAIN longer = 1..(k + 1)
        /\ longer[k + 1] = bar /\ \A i \in 1..k : longer[i] = buffer[i]
    BY <2>1, AppendProperties
  <2>3. longer # <<>>
    BY <2>1, <2>2, EmptySeq
  <2> QED
    BY <2>1, <2>2, <2>3
<1> HIDE DEF more, longer, here, n, k
<1>8. \A i \in DOMAIN more : _window_start_for(more[i].minute) <= w
  <2>1. \A i \in DOMAIN more : i \in 1..n \/ i = n + 1
    BY <1>1, <1>6
  <2>2. w \in Nat
    BY WindowFloor DEF MinuteBar, Minute
  <2>3. w <= w
    BY <2>2
  <2> QED
    BY <1>1, <1>2, <1>6, <2>1, <2>3
<1>9. Cardinality(here \cup {n + 1}) = k + 1
  <2>1. n + 1 \notin here
    BY <1>1
  <2> QED
    BY <1>1, <1>2, <2>1, FS_AddElement
<1>10. PricesOf(longer) = {more[i].price : i \in here \cup {n + 1}}
  <2>1. 1..(k + 1) = 1..k \cup {k + 1}
    BY <1>7
  <2>2. PricesOf(longer) = {longer[i].price : i \in 1..k} \cup {bar.price}
    BY <1>7, <2>1 DEF PricesOf
  <2>3. {longer[i].price : i \in 1..k} = PricesOf(buffer)
    BY <1>7 DEF PricesOf
  <2>4. {more[i].price : i \in here \cup {n + 1}} = {more[i].price : i \in here} \cup {bar.price}
    BY <1>6
  <2>5. {more[i].price : i \in here} = {seq[i].price : i \in here}
    BY <1>1, <1>6
  <2> QED
    BY <1>2, <2>2, <2>3, <2>4, <2>5
<1>11. Max(here \cup {n + 1}) = n + 1 /\ Min(here \cup {n + 1}) = Min(here)
  BY <1>1, <1>3, ExtremesGrow
<1>12. longer[1] = buffer[1] /\ more[Min(here)] = seq[Min(here)]
  <2>1. Min(here) \in 1..n
    BY <1>1, <1>3, Extremes
  <2>2. 1 \in 1..k
    BY <1>7
  <2> QED
    BY <1>6, <1>7, <2>1, <2>2
<1>13. OpenBuffer(more, longer, w)
  BY <1>2, <1>4, <1>5, <1>6, <1>7, <1>8, <1>9, <1>10, <1>11, <1>12 DEF OpenBuffer
<1>14. \A v \in WindowsIn(seq) \ {w} : Here(more, v) = Here(seq, v)
  BY <1>4
<1> QED
  BY <1>2, <1>4, <1>13, <1>14 DEF more, longer

\* A bar older than the open window changes nothing.
LEMMA BarIsLate ==
  ASSUME NEW seq \in Seq(MinuteBar), NEW bar \in MinuteBar, NEW buffer, NEW w,
         OpenBuffer(seq, buffer, w), w > _window_start_for(bar.minute)
  PROVE  LET more == Append(seq, bar)
         IN  /\ OpenBuffer(more, buffer, w)
             /\ WindowsIn(more) = WindowsIn(seq)
             /\ \A v : Here(more, v) = Here(seq, v)
<1> DEFINE more == Append(seq, bar)
           n == Len(seq)
           here == Here(seq, w)
           taken == \A i \in DOMAIN seq :
                      _window_start_for(seq[i].minute) <= _window_start_for(bar.minute)
<1>1. /\ n \in Nat /\ DOMAIN seq = 1..n /\ here \subseteq 1..n
      /\ AcceptedIn(seq) \subseteq 1..n /\ WindowsIn(seq) \subseteq Nat
  BY Positions
<1>2. w \in WindowsIn(seq)
  BY DEF OpenBuffer
<1>3. _window_start_for(bar.minute) \in Nat /\ w \in Nat
  BY <1>1, <1>2, WindowFloor DEF MinuteBar, Minute
<1>4. ~taken
  <2>1. PICK i \in AcceptedIn(seq) : _window_start_for(seq[i].minute) = w
    BY <1>2 DEF WindowsIn
  <2>2. i \in DOMAIN seq
    BY <1>1, <2>1
  <2>3. ~(_window_start_for(seq[i].minute) <= _window_start_for(bar.minute))
    BY <1>3, <2>1
  <2> QED
    BY <2>2, <2>3
<1>5. /\ \A v : Here(more, v) = Here(seq, v)
      /\ WindowsIn(more) = WindowsIn(seq)
  <2> DEFINE m == _window_start_for(bar.minute)
  <2>1. /\ \A v : Here(more, v) = Here(seq, v) \cup (IF taken /\ v = m THEN {n + 1} ELSE {})
        /\ WindowsIn(more) = WindowsIn(seq) \cup (IF taken THEN {m} ELSE {})
    BY OneMoreHere
  <2> HIDE DEF taken, more, n, m
  <2> QED
    BY <1>4, <2>1
<1>6. /\ DOMAIN more = 1..(n + 1) /\ more[n + 1] = bar
      /\ \A i \in 1..n : more[i] = seq[i]
  BY <1>1, OneMoreBar
<1>7. here # {}
  BY <1>2, Positions
<1> HIDE DEF more, here, n
<1>8. \A i \in DOMAIN more : _window_start_for(more[i].minute) <= w
  <2>1. \A i \in DOMAIN more : i \in 1..n \/ i = n + 1
    BY <1>1, <1>6
  <2>2. _window_start_for(bar.minute) <= w
    BY <1>3
  <2> QED
    BY <1>1, <1>6, <2>1, <2>2 DEF OpenBuffer
<1>9. \A i \in here : more[i] = seq[i]
  BY <1>1, <1>6
<1>10. Min(here) \in here /\ Max(here) \in here
  BY <1>1, <1>7, Extremes
<1>11. {more[i].price : i \in here} = {seq[i].price : i \in here}
  BY <1>9
<1>12. Here(more, w) = here /\ Here(seq, w) = here
  BY <1>5 DEF here
<1>13. OpenBuffer(more, buffer, w)
  BY <1>2, <1>5, <1>8, <1>9, <1>10, <1>11, <1>12 DEF OpenBuffer
<1> QED
  BY <1>5, <1>13 DEF more

----------------------------------------------------------------------------
(* Rows of closed windows.                                                 *)

\* All windows but the open one are closed.
LEMMA AllButTheOpen ==
  ASSUME NEW seq \in Seq(MinuteBar), NEW buffer, NEW w, OpenBuffer(seq, buffer, w)
  PROVE  ClosedWindowsIn(seq) = WindowsIn(seq) \ {w} /\ \A v \in ClosedWindowsIn(seq) : v < w
<1>1. WindowsIn(seq) \subseteq Nat /\ AcceptedIn(seq) \subseteq DOMAIN seq
  BY Positions
<1>2. w \in WindowsIn(seq) /\ \A v \in WindowsIn(seq) : v <= w
  BY <1>1 DEF OpenBuffer, WindowsIn
<1> QED
  BY <1>1, <1>2 DEF ClosedWindowsIn

\* A row's reference depends on the tape only through its window.
LEMMA RowsCarryOver ==
  ASSUME NEW rows, NEW seq, NEW more, NEW owed, RowsOf(rows, seq, owed),
         \A w \in owed : ReferenceBar(more, w) = ReferenceBar(seq, w)
  PROVE  RowsOf(rows, more, owed)
BY DEF RowsOf

\* A younger row at the end.
LEMMA RowsAppended ==
  ASSUME NEW rows \in Seq(FiveMinBar), NEW row \in FiveMinBar, NEW seq, NEW owed,
         RowsOf(rows, seq, owed), row = ReferenceBar(seq, row.timestamp),
         \A w \in owed : w < row.timestamp
  PROVE  RowsOf(Append(rows, row), seq, owed \cup {row.timestamp})
<1> DEFINE more == Append(rows, row)
           n == Len(rows)
           x == row.timestamp
<1>1. /\ n \in Nat /\ DOMAIN rows = 1..n /\ DOMAIN more = 1..(n + 1)
      /\ \A i \in 1..n : more[i] = rows[i]
      /\ more[n + 1] = row
  BY AppendProperties
<1>2. 1..(n + 1) = 1..n \cup {n + 1} /\ n + 1 \notin 1..n
  BY <1>1
<1>3. /\ \A i \in 1..n : rows[i].timestamp \in owed /\ rows[i].timestamp < x
      /\ \A i \in 1..n : rows[i] = ReferenceBar(seq, rows[i].timestamp)
      /\ \A w \in owed : \E i \in 1..n : rows[i].timestamp = w
      /\ \A i, j \in 1..n : i < j => rows[i].timestamp < rows[j].timestamp
  BY <1>1 DEF RowsOf, BarsInOrder
<1> HIDE DEF more, n
<1>4. BarsInOrder(more)
  <2> SUFFICES ASSUME NEW i \in 1..(n + 1), NEW j \in 1..(n + 1), i < j
               PROVE  more[i].timestamp < more[j].timestamp
    BY <1>1 DEF BarsInOrder
  <2>1. i \in 1..n
    BY <1>1
  <2>2. CASE j = n + 1
    BY <1>1, <1>3, <2>1, <2>2
  <2>3. CASE j \in 1..n
    BY <1>1, <1>3, <2>1, <2>3
  <2> QED
    BY <1>2, <2>2, <2>3
<1>5. \A i \in 1..(n + 1) : /\ more[i].timestamp \in owed \cup {x}
                            /\ more[i] = ReferenceBar(seq, more[i].timestamp)
  BY <1>1, <1>2, <1>3
<1>6. \A w \in owed \cup {x} : \E i \in 1..(n + 1) : more[i].timestamp = w
  <2>1. n + 1 \in 1..(n + 1) /\ more[n + 1].timestamp = x
    BY <1>1
  <2>2. \A w \in owed : \E i \in 1..(n + 1) : more[i].timestamp = w
    BY <1>1, <1>2, <1>3
  <2> QED
    BY <2>1, <2>2
<1>7. RowsOf(more, seq, owed \cup {x})
  BY <1>1, <1>4, <1>5, <1>6 DEF RowsOf
<1> QED
  BY <1>7 DEF more

\* The oldest row removed.
LEMMA RowsDropped ==
  ASSUME NEW rows \in Seq(FiveMinBar), NEW seq, NEW owed, owed \subseteq Nat,
         RowsOf(rows, seq, owed), rows # <<>>
  PROVE  RowsOf(Tail(rows), seq, owed \ {rows[1].timestamp})
<1> DEFINE rest == Tail(rows)
           n == Len(rows)
<1>1. /\ n \in Nat \ {0} /\ DOMAIN rows = 1..n /\ DOMAIN rest = 1..(n - 1)
      /\ \A i \in 1..(n - 1) : rest[i] = rows[i + 1]
  <2>1. n \in Nat \ {0} /\ DOMAIN rows = 1..n
    BY EmptySeq
  <2>2. /\ rest \in Seq(FiveMinBar) /\ Len(rest) = n - 1
        /\ \A i \in 1..(n - 1) : rest[i] = rows[i + 1]
    BY <2>1, HeadTailProperties
  <2> QED
    BY <2>1, <2>2
<1>2. /\ \A i \in 1..n : rows[i].timestamp \in owed
      /\ \A i \in 1..n : rows[i] = ReferenceBar(seq, rows[i].timestamp)
      /\ \A w \in owed : \E i \in 1..n : rows[i].timestamp = w
      /\ \A i, j \in 1..n : i < j => rows[i].timestamp < rows[j].timestamp
  BY <1>1 DEF RowsOf, BarsInOrder
<1> HIDE DEF rest, n
<1>3. \A i \in 1..(n - 1) : i + 1 \in 1..n /\ 1 < i + 1 /\ 1 \in 1..n
  BY <1>1
<1>4. BarsInOrder(rest)
  <2> SUFFICES ASSUME NEW i \in 1..(n - 1), NEW j \in 1..(n - 1), i < j
               PROVE  rest[i].timestamp < rest[j].timestamp
    BY <1>1 DEF BarsInOrder
  <2>1. i + 1 < j + 1 /\ i + 1 \in 1..n /\ j + 1 \in 1..n
    BY <1>3
  <2> QED
    BY <1>1, <1>2, <2>1
<1>5. \A i \in 1..(n - 1) : /\ rest[i].timestamp \in owed \ {rows[1].timestamp}
                            /\ rest[i] = ReferenceBar(seq, rest[i].timestamp)
  <2> SUFFICES ASSUME NEW i \in 1..(n - 1)
               PROVE  /\ rest[i].timestamp \in owed \ {rows[1].timestamp}
                      /\ rest[i] = ReferenceBar(seq, rest[i].timestamp)
    OBVIOUS
  <2>1. rows[1].timestamp < rows[i + 1].timestamp /\ rows[1].timestamp \in Nat
    BY <1>2, <1>3
  <2>2. rows[i + 1].timestamp # rows[1].timestamp
    BY <2>1
  <2> QED
    BY <1>1, <1>2, <1>3, <2>2
<1>6. \A w \in owed \ {rows[1].timestamp} : \E i \in 1..(n - 1) : rest[i].timestamp = w
  <2> SUFFICES ASSUME NEW w \in owed \ {rows[1].timestamp}
               PROVE  \E i \in 1..(n - 1) : rest[i].timestamp = w
    OBVIOUS
  <2>1. PICK j \in 1..n : rows[j].timestamp = w
    BY <1>2
  <2>2. j - 1 \in 1..(n - 1) /\ (j - 1) + 1 = j
    BY <1>1, <2>1
  <2> QED
    BY <1>1, <2>1, <2>2
<1>7. RowsOf(rest, seq, owed \ {rows[1].timestamp})
  BY <1>1, <1>4, <1>5, <1>6 DEF RowsOf
<1> QED
  BY <1>7 DEF rest

\* A window younger than all the others moves every one of them a rank down.
LEMMA RanksMove ==
  ASSUME NEW T, T \subseteq Nat, IsFiniteSet(T), NEW x \in Nat, \A v \in T : v < x
  PROVE  /\ Cardinality(Younger(T \cup {x}, x)) = 0
         /\ \A w \in T : /\ Cardinality(Younger(T, w)) \in Nat
                         /\ Cardinality(Younger(T \cup {x}, w)) = Cardinality(Younger(T, w)) + 1
<1>1. Younger(T \cup {x}, x) = {}
  <2>1. \A v \in T \cup {x} : ~(v > x)
    OBVIOUS
  <2> QED
    BY <2>1 DEF Younger
<1>2. ASSUME NEW w \in T
      PROVE  /\ Cardinality(Younger(T, w)) \in Nat
             /\ Cardinality(Younger(T \cup {x}, w)) = Cardinality(Younger(T, w)) + 1
  <2>1. Younger(T \cup {x}, w) = Younger(T, w) \cup {x} /\ x \notin Younger(T, w)
    BY DEF Younger
  <2>2. IsFiniteSet(Younger(T, w))
    BY FS_Subset DEF Younger
  <2> QED
    BY <2>1, <2>2, FS_AddElement, FS_CardinalityType
<1> QED
  BY <1>1, <1>2, FS_EmptySet

\* The rolling list takes a younger row: it still holds the newest windows, in
\* their places.
LEMMA RowsRoll ==
  ASSUME NEW rows \in Seq(FiveMinBar), NEW row \in FiveMinBar, NEW seq,
         NEW T, T \subseteq Nat, IsFiniteSet(T), \A v \in T : v < row.timestamp,
         Len(rows) <= BarCapacity, RowsOf(rows, seq, Newest(T, BarCapacity)), Ranked(rows, T),
         row = ReferenceBar(seq, row.timestamp)
  PROVE  /\ RowsOf(AppendBounded(rows, row), seq, Newest(T \cup {row.timestamp}, BarCapacity))
         /\ Ranked(AppendBounded(rows, row), T \cup {row.timestamp})
<1> DEFINE n == Len(rows)
           x == row.timestamp
           U == T \cup {x}
           rank(w) == Cardinality(Younger(T, w))
           after(w) == Cardinality(Younger(U, w))
           next == AppendBounded(rows, row)
<1>1. /\ n \in Nat /\ DOMAIN rows = 1..n /\ BarCapacity \in Nat \ {0} /\ x \in Nat
      /\ n <= BarCapacity
  BY BarFeedAssumption DEF FiveMinBar, Minute
<1>2. after(x) = 0 /\ \A w \in T : rank(w) \in Nat /\ after(w) = rank(w) + 1
  BY <1>1, RanksMove
<1>3. \A i \in 1..n : /\ rows[i].timestamp \in T /\ rank(rows[i].timestamp) = n - i
  <2>1. \A i \in 1..n : rows[i].timestamp \in Newest(T, BarCapacity)
    BY <1>1 DEF RowsOf
  <2> QED
    BY <1>1, <2>1 DEF Newest, Ranked
<1>4. /\ \A w : w \in Newest(T, BarCapacity) <=> w \in T /\ rank(w) < BarCapacity
      /\ \A w : w \in Newest(U, BarCapacity) <=> w \in U /\ after(w) < BarCapacity
  BY DEF Newest, Younger
<1>5. \A w \in T : rank(w) < BarCapacity => \E i \in 1..n : rows[i].timestamp = w
  BY <1>1, <1>4 DEF RowsOf
<1>6. x \notin T
  BY <1>1
<1>7. Newest(T, BarCapacity) \subseteq Nat
  BY DEF Newest
<1> HIDE DEF rank, after, n
<1>8. CASE n < BarCapacity
  <2>1. next = Append(rows, row)
    BY <1>8 DEF AppendBounded, n
  <2>2. Newest(U, BarCapacity) = Newest(T, BarCapacity) \cup {x}
    <3>1. ASSUME NEW w \in T
          PROVE  rank(w) < BarCapacity <=> after(w) < BarCapacity
      <4>1. CASE rank(w) < BarCapacity
        <5>1. PICK i \in 1..n : rows[i].timestamp = w
          BY <1>5, <4>1
        <5>2. rank(w) = n - i
          BY <1>3, <5>1
        <5> QED
          BY <1>1, <1>2, <1>8, <5>2
      <4>2. CASE ~(rank(w) < BarCapacity)
        BY <1>1, <1>2, <4>2
      <4> QED
        BY <4>1, <4>2
    <3>2. after(x) < BarCapacity
      BY <1>1, <1>2
    <3> QED
      BY <1>4, <3>1, <3>2
  <2>3. RowsOf(Append(rows, row), seq, Newest(T, BarCapacity) \cup {x})
    <3>1. \A w \in Newest(T, BarCapacity) : w < x
      BY <1>4
    <3> QED
      BY <3>1, RowsAppended
  <2>4. Ranked(next, U)
    <3>1. /\ Len(next) = n + 1 /\ DOMAIN next = 1..(n + 1)
          /\ \A i \in 1..n : next[i] = rows[i]
          /\ next[n + 1] = row
      BY <1>1, <2>1, AppendProperties
    <3> HIDE DEF next
    <3> SUFFICES ASSUME NEW i \in 1..(n + 1) PROVE after(next[i].timestamp) = (n + 1) - i
      BY <3>1 DEF Ranked, after
    <3>2. CASE i \in 1..n
      <4>1. next[i].timestamp \in T /\ rank(next[i].timestamp) = n - i
        BY <1>3, <3>1, <3>2
      <4>2. \A w \in T : rank(w) = n - i => after(w) = (n + 1) - i
        BY <1>1, <1>2, <3>2
      <4> QED
        BY <4>1, <4>2
    <3>3. CASE i = n + 1
      BY <1>1, <1>2, <3>1, <3>3
    <3> QED
      BY <1>1, <3>2, <3>3
  <2> QED
    BY <2>1, <2>2, <2>3, <2>4
<1>9. CASE n = BarCapacity
  <2> DEFINE rest == Tail(rows)
             first == rows[1].timestamp
  <2>1. rows # <<>> /\ 1 \in 1..n
    BY <1>1, <1>9, EmptySeq
  <2>2. /\ rest \in Seq(FiveMinBar) /\ Len(rest) = n - 1 /\ DOMAIN rest = 1..(n - 1)
        /\ \A i \in 1..(n - 1) : rest[i] = rows[i + 1]
    BY <1>1, <2>1, HeadTailProperties
  <2>3. next = Append(rest, row)
    BY <1>1, <1>9 DEF AppendBounded, n
  <2>4. first \in T /\ rank(first) = n - 1
    BY <1>3, <2>1
  <2>5. Newest(U, BarCapacity) = (Newest(T, BarCapacity) \ {first}) \cup {x}
    <3>1. ASSUME NEW w \in T
          PROVE  rank(w) < BarCapacity /\ w # first <=> after(w) < BarCapacity
      <4>1. CASE rank(w) < BarCapacity /\ w # first
        <5>1. PICK i \in 1..n : rows[i].timestamp = w
          BY <1>5, <4>1
        <5>2. rank(w) = n - i /\ i # 1
          BY <1>3, <4>1, <5>1
        <5>3. rank(w) + 1 < BarCapacity
          BY <1>1, <1>9, <5>2
        <5>4. after(w) = rank(w) + 1
          BY <1>2, <3>1
        <5> QED
          BY <4>1, <5>3, <5>4
      <4>2. CASE w = first
        BY <1>1, <1>2, <1>9, <2>4, <4>2
      <4>3. CASE ~(rank(w) < BarCapacity)
        BY <1>1, <1>2, <4>3
      <4> QED
        BY <4>1, <4>2, <4>3
    <3>2. after(x) < BarCapacity
      BY <1>1, <1>2
    <3>3. x # first
      BY <1>6, <2>4
    <3> QED
      BY <1>4, <3>1, <3>2, <3>3
  <2>6. RowsOf(rest, seq, Newest(T, BarCapacity) \ {first})
    BY <1>7, <2>1, RowsDropped
  <2>7. RowsOf(Append(rest, row), seq, (Newest(T, BarCapacity) \ {first}) \cup {x})
    <3>1. \A w \in Newest(T, BarCapacity) \ {first} : w < x
      BY <1>4
    <3> QED
      BY <2>2, <2>6, <3>1, RowsAppended
  <2>8. Ranked(next, U)
    <3>1. /\ Len(next) = n /\ DOMAIN next = 1..n
          /\ \A i \in 1..(n - 1) : next[i] = rows[i + 1]
          /\ next[n] = row
      <4>1. (n - 1) + 1 = n /\ n - 1 \in Nat
        BY <1>1, <1>9
      <4> HIDE DEF rest
      <4>2. /\ Len(Append(rest, row)) = n /\ DOMAIN Append(rest, row) = 1..n
            /\ \A i \in 1..(n - 1) : Append(rest, row)[i] = rest[i]
            /\ Append(rest, row)[n] = row
        BY <2>2, <4>1, AppendProperties
      <4> QED
        BY <2>2, <2>3, <4>2
    <3> HIDE DEF next
    <3> SUFFICES ASSUME NEW i \in 1..n PROVE after(next[i].timestamp) = n - i
      BY <3>1 DEF Ranked, after
    <3>2. CASE i \in 1..(n - 1)
      <4>1. i + 1 \in 1..n /\ next[i] = rows[i + 1]
        BY <1>1, <3>1, <3>2
      <4>2. next[i].timestamp \in T /\ rank(next[i].timestamp) = n - (i + 1)
        BY <1>3, <4>1
      <4>3. \A w \in T : rank(w) = n - (i + 1) => after(w) = n - i
        BY <1>1, <1>2, <3>2
      <4> QED
        BY <4>2, <4>3
    <3>3. CASE i = n
      BY <1>1, <1>2, <3>1, <3>3
    <3> QED
      BY <1>1, <3>2, <3>3
  <2> QED
    BY <2>3, <2>5, <2>7, <2>8
<1> QED
  BY <1>1, <1>8, <1>9

----------------------------------------------------------------------------
(* Every step keeps the books.                                             *)

\* A symbol whose bars and rows do not change keeps its book.
LEMMA BookKept ==
  ASSUME TypeOK, TypeOK', NEW s \in Symbol, Book(s), now <= now',
         received'[s] = received[s], window_start'[s] = window_start[s],
         buffers'[s] = buffers[s], bars'[s] = bars[s], premarket_bars'[s] = premarket_bars[s]
  PROVE  Book(s)'
<1>1. \A i \in DOMAIN received[s] : received[s][i].minute < now'
  <2>1. received[s] \in Seq(MinuteBar) /\ now \in Nat /\ now' \in Nat
    BY DEF TypeOK
  <2>2. \A i \in DOMAIN received[s] : received[s][i].minute \in Nat
    BY <2>1, Positions
  <2> QED
    BY <2>1, <2>2 DEF Book
<1> QED
  BY <1>1 DEF Book

\* The open window's row is stored when a younger window's first bar arrives.
LEMMA RollOverStores ==
  ASSUME TypeOK, NEW s \in Symbol, Book(s), NEW m \in Minute, NEW bar \in MinuteBar,
         bar.minute = m, RollOver(s, bar), received'[s] = Append(received[s], bar)
  PROVE  /\ OpenBuffer(received'[s], <<bar>>, _window_start_for(m))
         /\ RowsOf(bars'[s], received'[s], Newest(SessionIn(received'[s]), BarCapacity))
         /\ Ranked(bars'[s], SessionIn(received'[s]))
         /\ RowsOf(premarket_bars'[s], received'[s], OutsideIn(received'[s]))
<1> DEFINE seq == received[s]
           more == Append(seq, bar)
           x == window_start[s]
           w == _window_start_for(m)
           row == Aggregate(x, buffers[s])
           session == SessionIn(seq)
           outside == OutsideIn(seq)
<1>1. /\ seq \in Seq(MinuteBar) /\ buffers[s] \in Seq(MinuteBar)
      /\ bars[s] \in Seq(FiveMinBar) /\ Len(bars[s]) <= BarCapacity
      /\ premarket_bars[s] \in Seq(FiveMinBar)
      /\ bars \in [Symbol -> Seq(FiveMinBar)] /\ premarket_bars \in [Symbol -> Seq(FiveMinBar)]
  BY DEF TypeOK
<1>2. x # NONE /\ x < w /\ _on_5min_bar(s, row)
  BY DEF RollOver
<1>3. OpenBuffer(seq, buffers[s], x) /\ x \in Minute /\ x \in Nat
  <2>1. x \in Minute
    BY <1>2 DEF TypeOK
  <2> QED
    BY <1>2, <2>1 DEF Book, Minute
<1>4. row \in FiveMinBar /\ row.timestamp = x
  <2>1. buffers[s] # <<>>
    BY <1>3 DEF OpenBuffer
  <2> QED
    BY <1>1, <1>3, <2>1, AggregateTyped DEF Aggregate
<1>5. /\ OpenBuffer(more, <<bar>>, w)
      /\ WindowsIn(more) = WindowsIn(seq) \cup {w}
      /\ \A v \in WindowsIn(seq) : v < w /\ Here(more, v) = Here(seq, v)
  <2>1. \A i \in DOMAIN seq : _window_start_for(seq[i].minute) < w
    <3>1. \A i \in DOMAIN seq : /\ _window_start_for(seq[i].minute) <= x
                                /\ _window_start_for(seq[i].minute) \in Nat
      BY <1>1, <1>3, Positions DEF OpenBuffer
    <3>2. w \in Nat
      BY WindowFloor DEF Minute
    <3> HIDE DEF x, w
    <3> QED
      BY <1>2, <1>3, <3>1, <3>2
  <2> QED
    BY <1>1, <2>1, BarOpens
<1>6. \A v \in WindowsIn(seq) : ReferenceBar(more, v) = ReferenceBar(seq, v)
  BY <1>1, <1>5, SameReference
<1>7. ClosedWindowsIn(seq) = WindowsIn(seq) \ {x} /\ \A v \in ClosedWindowsIn(seq) : v < x
  BY <1>1, <1>3, AllButTheOpen
<1>8. x \in WindowsIn(seq)
  BY <1>3 DEF OpenBuffer
<1>9. ClosedWindowsIn(more) = ClosedWindowsIn(seq) \cup {x}
  <2>1. more \in Seq(MinuteBar)
    BY <1>1, AppendProperties
  <2>2. ClosedWindowsIn(more) = WindowsIn(more) \ {w}
    BY <1>5, <2>1, AllButTheOpen
  <2>3. w \notin WindowsIn(seq)
    <3>1. w \in Nat
      BY WindowFloor DEF Minute
    <3> QED
      BY <1>5, <3>1
  <2> QED
    BY <1>5, <1>7, <1>8, <2>2, <2>3
<1>10. /\ WindowsIn(seq) \subseteq Nat
       /\ session \subseteq WindowsIn(seq) /\ outside \subseteq WindowsIn(seq)
       /\ IsFiniteSet(session)
  <2>1. session \subseteq WindowsIn(seq) /\ outside \subseteq WindowsIn(seq)
    BY <1>7 DEF SessionIn, OutsideIn
  <2> QED
    BY <1>1, <2>1, Positions, FS_Subset
<1>11. row = ReferenceBar(more, x)
  BY <1>3, <1>6, <1>8, OpenReference
<1>12. Newest(session, BarCapacity) \subseteq session
  BY DEF Newest
<1>13. /\ RowsOf(bars[s], more, Newest(session, BarCapacity))
       /\ Ranked(bars[s], session)
       /\ RowsOf(premarket_bars[s], more, outside)
  <2>1. /\ RowsOf(bars[s], seq, Newest(session, BarCapacity))
        /\ Ranked(bars[s], session)
        /\ RowsOf(premarket_bars[s], seq, outside)
    BY DEF Book
  <2>2. \A v \in session \cup outside : ReferenceBar(more, v) = ReferenceBar(seq, v)
    BY <1>6, <1>10
  <2> HIDE DEF more, session, outside
  <2> QED
    BY <1>12, <2>1, <2>2, RowsCarryOver
<1>14. \A v \in session \cup outside : v < x
  BY <1>7 DEF SessionIn, OutsideIn
<1> HIDE DEF more, session, outside, row, x
<1>15. CASE is_rth(x)
  <2>1. SessionIn(more) = session \cup {x} /\ OutsideIn(more) = outside
    BY <1>7, <1>9, <1>15 DEF SessionIn, OutsideIn, session, outside
  <2>2. bars'[s] = AppendBounded(bars[s], row) /\ premarket_bars'[s] = premarket_bars[s]
    BY <1>1, <1>2, <1>4, <1>15 DEF _on_5min_bar, StoreRow
  <2>3. /\ RowsOf(AppendBounded(bars[s], row), more, Newest(session \cup {x}, BarCapacity))
        /\ Ranked(AppendBounded(bars[s], row), session \cup {x})
    <3>1. \A v \in session : v < row.timestamp
      BY <1>4, <1>14
    <3>2. session \subseteq Nat /\ row = ReferenceBar(more, row.timestamp)
      BY <1>4, <1>10, <1>11
    <3>3. /\ RowsOf(AppendBounded(bars[s], row), more,
                    Newest(session \cup {row.timestamp}, BarCapacity))
          /\ Ranked(AppendBounded(bars[s], row), session \cup {row.timestamp})
      BY <1>1, <1>4, <1>10, <1>13, <3>1, <3>2, RowsRoll
    <3> QED
      BY <1>4, <3>3
  <2> QED
    BY <1>5, <1>13, <2>1, <2>2, <2>3 DEF more
<1>16. CASE ~is_rth(x)
  <2>1. SessionIn(more) = session /\ OutsideIn(more) = outside \cup {x}
    BY <1>7, <1>9, <1>16 DEF SessionIn, OutsideIn, session, outside
  <2>2. premarket_bars'[s] = Append(premarket_bars[s], row) /\ bars'[s] = bars[s]
    BY <1>1, <1>2, <1>4, <1>16 DEF _on_5min_bar, StoreRow
  <2>3. RowsOf(Append(premarket_bars[s], row), more, outside \cup {x})
    <3>1. (\A v \in outside : v < row.timestamp) /\ row = ReferenceBar(more, row.timestamp)
      BY <1>4, <1>11, <1>14
    <3>2. RowsOf(Append(premarket_bars[s], row), more, outside \cup {row.timestamp})
      BY <1>1, <1>4, <1>13, <3>1, RowsAppended
    <3> QED
      BY <1>4, <3>2
  <2> QED
    BY <1>5, <1>13, <2>1, <2>2, <2>3 DEF more
<1> QED
  BY <1>15, <1>16

\* A bar that closes no window leaves every row its reference.
LEMMA RowsStand ==
  ASSUME NEW s \in Symbol, Book(s), NEW more,
         ClosedWindowsIn(more) = ClosedWindowsIn(received[s]),
         \A v \in ClosedWindowsIn(more) : ReferenceBar(more, v) = ReferenceBar(received[s], v)
  PROVE  /\ RowsOf(bars[s], more, Newest(SessionIn(more), BarCapacity))
         /\ Ranked(bars[s], SessionIn(more))
         /\ RowsOf(premarket_bars[s], more, OutsideIn(more))
<1> DEFINE seq == received[s]
<1>1. SessionIn(more) = SessionIn(seq) /\ OutsideIn(more) = OutsideIn(seq)
  BY DEF SessionIn, OutsideIn
<1>2. /\ RowsOf(bars[s], seq, Newest(SessionIn(seq), BarCapacity))
      /\ Ranked(bars[s], SessionIn(seq))
      /\ RowsOf(premarket_bars[s], seq, OutsideIn(seq))
  BY DEF Book
<1>3. /\ Newest(SessionIn(seq), BarCapacity) \subseteq ClosedWindowsIn(more)
      /\ OutsideIn(seq) \subseteq ClosedWindowsIn(more)
  BY DEF Newest, SessionIn, OutsideIn
<1> QED
  BY <1>1, <1>2, <1>3, RowsCarryOver

\* The four outcomes of a received bar.
LEMMA ReceiveBook ==
  ASSUME FeedInv, FeedInv', NEW s \in Symbol, \A r \in Symbol : Book(r),
         NEW m \in Minute, NEW p \in Price, Receive(s, m, p)
  PROVE  \A r \in Symbol : Book(r)'
<1> DEFINE bar == [minute |-> m, price |-> p]
           w == _window_start_for(m)
           seq == received[s]
           more == Append(seq, bar)
<1>1. TypeOK /\ TypeOK' /\ Book(s)
  BY DEF FeedInv
<1>2. /\ m < now /\ on_minute_bar(s, bar) /\ now' = now
      /\ received' = [received EXCEPT ![s] = more]
  BY DEF Receive
<1>3. bar \in MinuteBar /\ bar.minute = m
  BY DEF MinuteBar
<1>4. /\ seq \in Seq(MinuteBar) /\ buffers[s] \in Seq(MinuteBar) /\ now \in Nat
      /\ received'[s] = more /\ \A r \in Symbol \ {s} : received'[r] = received[r]
  BY <1>1, <1>2 DEF TypeOK
<1>5. \A r \in Symbol \ {s} : Book(r)'
  <2>1. \A r \in Symbol \ {s} :
          /\ window_start'[r] = window_start[r] /\ buffers'[r] = buffers[r]
          /\ bars'[r] = bars[r] /\ premarket_bars'[r] = premarket_bars[r]
    <3>1. \/ UNCHANGED <<bars, premarket_bars>>
          \/ _on_5min_bar(s, Aggregate(window_start[s], buffers[s]))
      BY <1>2 DEF on_minute_bar, OpenFirst, Extend, RollOver, DropLate
    <3>2. \A r \in Symbol \ {s} : bars'[r] = bars[r] /\ premarket_bars'[r] = premarket_bars[r]
      BY <1>1, <3>1 DEF _on_5min_bar, StoreRow, TypeOK
    <3>3. \A r \in Symbol \ {s} : window_start'[r] = window_start[r] /\ buffers'[r] = buffers[r]
      BY <1>1, <1>2 DEF on_minute_bar, OpenFirst, Extend, RollOver, DropLate, TypeOK
    <3> QED
      BY <3>2, <3>3
  <2>2. now <= now'
    BY <1>2, <1>4
  <2> QED
    BY <1>1, <1>4, <2>1, <2>2, BookKept
<1>6. \A i \in DOMAIN more : more[i].minute < now
  <2>1. /\ DOMAIN seq = 1..Len(seq) /\ Len(seq) \in Nat
        /\ DOMAIN more = 1..(Len(seq) + 1) /\ more[Len(seq) + 1] = bar
        /\ \A i \in DOMAIN seq : more[i] = seq[i]
    BY <1>3, <1>4, OneMoreBar
  <2>2. \A i \in DOMAIN seq : seq[i].minute < now
    BY <1>1 DEF Book
  <2>3. \A i \in DOMAIN more : i \in DOMAIN seq \/ i = Len(seq) + 1
    BY <2>1
  <2> HIDE DEF more
  <2> QED
    BY <1>2, <1>3, <2>1, <2>2, <2>3
<1>7. more # <<>>
  BY <1>3, <1>4, OneMoreBar, EmptySeq, SMTT(30)
<1>8. w \in Nat /\ w # NONE
  BY WindowFloor, BarFeedAssumption DEF Minute
<1>9. ASSUME /\ window_start'[s] # NONE
             /\ OpenBuffer(more, buffers'[s], window_start'[s])
             /\ RowsOf(bars'[s], more, Newest(SessionIn(more), BarCapacity))
             /\ Ranked(bars'[s], SessionIn(more))
             /\ RowsOf(premarket_bars'[s], more, OutsideIn(more))
      PROVE  Book(s)'
  <2> HIDE DEF more
  <2> QED
    BY <1>2, <1>4, <1>6, <1>7, <1>9 DEF Book
<1>10. more \in Seq(MinuteBar)
  BY <1>3, <1>4, AppendProperties
<1>11. CASE OpenFirst(s, bar)
  <2>1. /\ window_start[s] = NONE
        /\ buffers'[s] = Append(buffers[s], bar)
        /\ window_start'[s] = w
        /\ UNCHANGED <<bars, premarket_bars>>
    BY <1>1, <1>3, <1>11 DEF OpenFirst, TypeOK
  <2>2. seq = <<>> /\ buffers[s] = <<>>
    BY <1>1, <2>1 DEF Book
  <2>3. OpenBuffer(more, <<bar>>, w) /\ WindowsIn(more) = WindowsIn(seq) \cup {w}
    <3>1. \A i \in DOMAIN seq : _window_start_for(seq[i].minute) < w
      BY <2>2
    <3> QED
      BY <1>3, <1>4, <3>1, BarOpens
  <2>4. WindowsIn(seq) = {}
    BY <2>2 DEF WindowsIn, AcceptedIn
  <2>5. ClosedWindowsIn(more) = {} /\ ClosedWindowsIn(seq) = {}
    <3>1. ClosedWindowsIn(more) = WindowsIn(more) \ {w}
      BY <1>10, <2>3, AllButTheOpen
    <3>2. WindowsIn(more) = {w}
      BY <2>3, <2>4
    <3> QED
      BY <2>4, <3>1, <3>2 DEF ClosedWindowsIn
  <2>6. buffers'[s] = <<bar>>
    BY <2>1, <2>2
  <2>7. /\ RowsOf(bars[s], more, Newest(SessionIn(more), BarCapacity))
        /\ Ranked(bars[s], SessionIn(more))
        /\ RowsOf(premarket_bars[s], more, OutsideIn(more))
    BY <1>1, <2>5, RowsStand
  <2> HIDE DEF more, bar, w
  <2>8. Book(s)'
    BY <1>8, <1>9, <2>1, <2>3, <2>6, <2>7
  <2> QED
    BY <1>5, <2>8
<1>12. CASE Extend(s, bar)
  <2>1. /\ window_start[s] = w
        /\ buffers'[s] = Append(buffers[s], bar)
        /\ window_start'[s] = w
        /\ UNCHANGED <<bars, premarket_bars>>
    BY <1>1, <1>3, <1>12 DEF Extend, TypeOK
  <2>2. OpenBuffer(seq, buffers[s], w)
    BY <1>1, <1>8, <2>1 DEF Book
  <2>3. /\ OpenBuffer(more, Append(buffers[s], bar), w)
        /\ WindowsIn(more) = WindowsIn(seq)
        /\ \A v \in WindowsIn(seq) \ {w} : Here(more, v) = Here(seq, v)
    BY <1>3, <1>4, <2>2, BarExtends
  <2>4. /\ ClosedWindowsIn(more) = ClosedWindowsIn(seq)
        /\ ClosedWindowsIn(seq) = WindowsIn(seq) \ {w}
    <3>1. ClosedWindowsIn(more) = WindowsIn(more) \ {w}
      BY <1>10, <2>3, AllButTheOpen
    <3>2. ClosedWindowsIn(seq) = WindowsIn(seq) \ {w}
      BY <1>4, <2>2, AllButTheOpen
    <3> QED
      BY <2>3, <3>1, <3>2
  <2>5. \A v \in ClosedWindowsIn(more) : ReferenceBar(more, v) = ReferenceBar(seq, v)
    BY <1>3, <1>4, <2>3, <2>4, SameReference
  <2>6. /\ RowsOf(bars[s], more, Newest(SessionIn(more), BarCapacity))
        /\ Ranked(bars[s], SessionIn(more))
        /\ RowsOf(premarket_bars[s], more, OutsideIn(more))
    BY <1>1, <2>4, <2>5, RowsStand
  <2> HIDE DEF more, bar, w
  <2>8. Book(s)'
    BY <1>8, <1>9, <2>1, <2>3, <2>6
  <2> QED
    BY <1>5, <2>8
<1>13. CASE RollOver(s, bar)
  <2>1. buffers'[s] = <<bar>> /\ window_start'[s] = w
    BY <1>1, <1>3, <1>13 DEF RollOver, NextBuffer, TypeOK
  <2>2. /\ OpenBuffer(more, <<bar>>, w)
        /\ RowsOf(bars'[s], more, Newest(SessionIn(more), BarCapacity))
        /\ Ranked(bars'[s], SessionIn(more))
        /\ RowsOf(premarket_bars'[s], more, OutsideIn(more))
    BY <1>1, <1>3, <1>4, <1>13, RollOverStores
  <2> HIDE DEF more, bar, w
  <2>8. Book(s)'
    BY <1>8, <1>9, <2>1, <2>2
  <2> QED
    BY <1>5, <2>8
<1>14. CASE DropLate(s, bar)
  <2>1. /\ window_start[s] # NONE /\ window_start[s] > w
        /\ UNCHANGED <<buffers, window_start, bars, premarket_bars>>
    BY <1>3, <1>14 DEF DropLate
  <2>2. OpenBuffer(seq, buffers[s], window_start[s])
    BY <1>1, <2>1 DEF Book
  <2>3. /\ OpenBuffer(more, buffers[s], window_start[s])
        /\ WindowsIn(more) = WindowsIn(seq)
        /\ \A v : Here(more, v) = Here(seq, v)
    BY <1>3, <1>4, <2>1, <2>2, BarIsLate
  <2>4. /\ ClosedWindowsIn(more) = ClosedWindowsIn(seq)
        /\ ClosedWindowsIn(seq) \subseteq WindowsIn(seq)
    BY <2>3 DEF ClosedWindowsIn
  <2>5. \A v \in ClosedWindowsIn(more) : ReferenceBar(more, v) = ReferenceBar(seq, v)
    BY <1>3, <1>4, <2>3, <2>4, SameReference
  <2>6. /\ RowsOf(bars[s], more, Newest(SessionIn(more), BarCapacity))
        /\ Ranked(bars[s], SessionIn(more))
        /\ RowsOf(premarket_bars[s], more, OutsideIn(more))
    BY <1>1, <2>4, <2>5, RowsStand
  <2> HIDE DEF more, bar, w
  <2>8. Book(s)'
    BY <1>9, <2>1, <2>3, <2>6
  <2> QED
    BY <1>5, <2>8
<1> QED
  BY <1>2, <1>11, <1>12, <1>13, <1>14 DEF on_minute_bar

\* An empty book is in order.
LEMMA EmptyBook ==
  /\ RowsOf(<<>>, <<>>, Newest(SessionIn(<<>>), BarCapacity))
  /\ Ranked(<<>>, SessionIn(<<>>))
  /\ RowsOf(<<>>, <<>>, OutsideIn(<<>>))
<1>1. AcceptedIn(<<>>) = {}
  BY DEF AcceptedIn
<1>2. ClosedWindowsIn(<<>>) = {}
  BY <1>1 DEF WindowsIn, ClosedWindowsIn
<1>3. SessionIn(<<>>) = {} /\ OutsideIn(<<>>) = {} /\ Newest({}, BarCapacity) = {}
  BY <1>2 DEF SessionIn, OutsideIn, Newest
<1>4. RowsOf(<<>>, <<>>, {}) /\ Ranked(<<>>, {})
  BY DEF RowsOf, BarsInOrder, Ranked
<1> QED
  BY <1>3, <1>4

LEMMA InitBook == Init => \A s \in Symbol : Book(s)
BY EmptyBook DEF Init, Book

LEMMA StepBook ==
  FeedInv /\ FeedInv' /\ (\A s \in Symbol : Book(s)) /\ [Next]_vars => (\A s \in Symbol : Book(s))'
<1> SUFFICES ASSUME FeedInv, FeedInv', \A s \in Symbol : Book(s), [Next]_vars
             PROVE  \A s \in Symbol : Book(s)'
  OBVIOUS
<1>1. TypeOK /\ TypeOK'
  BY DEF FeedInv
<1>2. ASSUME UNCHANGED streamVars, now <= now' PROVE \A s \in Symbol : Book(s)'
  BY <1>1, <1>2, BookKept DEF streamVars
<1>3. now \in Nat /\ now <= now
  BY <1>1 DEF TypeOK
<1>4. CASE \E s \in Symbol, m \in Minute, p \in Price : Receive(s, m, p)
  BY <1>4, ReceiveBook
<1>5. CASE \E loaded \in SUBSET Symbol : RunBaselineBackfill(loaded)
  BY <1>2, <1>3, <1>5 DEF RunBaselineBackfill
<1>6. CASE ComputePremarketContexts
  BY <1>2, <1>3, <1>6 DEF ComputePremarketContexts
<1>7. CASE Tick
  BY <1>2, <1>3, <1>7 DEF Tick
<1>8. CASE Restart
  <2>1. \A s \in Symbol : /\ received'[s] = <<>> /\ window_start'[s] = NONE
                          /\ buffers'[s] = <<>>
                          /\ bars'[s] = <<>> /\ premarket_bars'[s] = <<>>
    BY <1>8 DEF Restart
  <2> QED
    BY <2>1, EmptyBook DEF Book
<1>9. CASE UNCHANGED vars
  BY <1>2, <1>3, <1>9 DEF vars
<1> QED
  BY <1>4, <1>5, <1>6, <1>7, <1>8, <1>9 DEF Next

----------------------------------------------------------------------------
(* Days and minutes of the day.                                            *)

\* A quotient and a remainder that add up are the quotient and the remainder.
LEMMA DivisionIsUnique ==
  ASSUME NEW d \in Nat \ {0}, NEW q \in Nat, NEW t \in Nat, t < d
  PROVE  (d * q + t) \div d = q /\ (d * q + t) % d = t
<1> DEFINE m == d * q + t
           r == m \div d
           u == m % d
<1>1. m \in Nat
  BY Z3
<1>2. r \in Nat /\ u \in Nat /\ u < d /\ m = d * r + u
  <2> HIDE DEF m
  <2> QED
    BY <1>1
<1>3. d * q \in Nat /\ d * r \in Nat
  BY <1>2, Z3
<1>4. ~(r < q)
  <2> SUFFICES ASSUME r < q PROVE FALSE
    OBVIOUS
  <2>1. d * r + d <= d * q
    BY <1>2, MultiplesApart
  <2> HIDE DEF r, u
  <2> DEFINE a == d * r  b == d * q
  <2>2. a \in Nat /\ b \in Nat /\ a + d <= b /\ b + t = a + u
    BY <1>2, <1>3, <2>1
  <2> HIDE DEF a, b
  <2> QED
    BY <1>2, <2>2
<1>5. ~(q < r)
  <2> SUFFICES ASSUME q < r PROVE FALSE
    OBVIOUS
  <2>1. d * q + d <= d * r
    BY <1>2, MultiplesApart
  <2> HIDE DEF r, u
  <2> DEFINE a == d * r  b == d * q
  <2>2. a \in Nat /\ b \in Nat /\ b + d <= a /\ b + t = a + u
    BY <1>2, <1>3, <2>1
  <2> HIDE DEF a, b
  <2> QED
    BY <1>2, <2>2
<1>6. r = q
  BY <1>2, <1>4, <1>5
<1>7. u = t
  <2> DEFINE a == d * q
  <2>1. a + t = a + u /\ a \in Nat
    BY <1>2, <1>3, <1>6
  <2> HIDE DEF a, u
  <2> QED
    BY <1>2, <2>1
<1> QED
  BY <1>6, <1>7

\* An earlier minute is not of a later day.
LEMMA DaysGrow ==
  ASSUME NEW m \in Nat, NEW n \in Nat, m < n
  PROVE  Day(m) \in Nat /\ Day(n) \in Nat /\ Day(m) <= Day(n)
<1>1. DayLen \in Nat \ {0}
  BY BarFeedAssumption
<1>2. \A k \in Nat : /\ k \div DayLen \in Nat /\ k % DayLen \in Nat /\ k % DayLen < DayLen
                     /\ k = DayLen * (k \div DayLen) + (k % DayLen)
  BY <1>1
<1>3. PICK q \in Nat, v \in Nat : q = Day(m) /\ m = DayLen * q + v /\ v < DayLen
  BY <1>2 DEF Day
<1>4. PICK r \in Nat, w \in Nat : r = Day(n) /\ n = DayLen * r + w /\ w < DayLen
  BY <1>2 DEF Day
<1>5. ~(r < q)
  <2> SUFFICES ASSUME r < q PROVE FALSE
    OBVIOUS
  <2> DEFINE a == DayLen * r  b == DayLen * q
  <2>1. a \in Nat /\ b \in Nat /\ a + DayLen <= b
    BY <1>1, MultiplesApart
  <2>2. m = b + v /\ n = a + w
    BY <1>3, <1>4
  <2> HIDE DEF a, b
  <2> QED
    BY <1>1, <1>3, <1>4, <2>1, <2>2
<1> QED
  BY <1>3, <1>4, <1>5

\* The minutes of a window that starts before the session are before it too.
LEMMA PremarketWindow ==
  ASSUME NEW m \in Nat, is_premarket(_window_start_for(m))
  PROVE  is_premarket(m)
<1> DEFINE w == _window_start_for(m)
           q == w \div DayLen
           t == w % DayLen
<1>1. /\ Window \in Nat \ {0} /\ DayLen \in Nat \ {0} /\ SessionOpen \in Nat
      /\ SessionOpen <= DayLen /\ DayLen % Window = 0 /\ SessionOpen % Window = 0
  BY BarFeedAssumption
<1>2. w \in Nat /\ w <= m /\ m < w + Window
  <2>1. w \in Nat /\ w <= m
    BY WindowFloor
  <2>2. m % Window \in Nat /\ m % Window < Window
    BY <1>1
  <2> QED
    BY <1>1, <2>1, <2>2 DEF _window_start_for
<1>3. q \in Nat /\ t \in Nat /\ t < DayLen /\ w = DayLen * q + t
  <2> HIDE DEF w
  <2> QED
    BY <1>1, <1>2
<1>4. t < SessionOpen
  BY DEF is_premarket, TimeOfDay
<1>5. PICK i \in Nat : w = Window * i
  BY WindowFloor
<1>6. PICK e \in Nat : DayLen = Window * e
  <2>1. DayLen = Window * (DayLen \div Window) + 0 /\ DayLen \div Window \in Nat
    BY <1>1
  <2>2. DayLen = Window * (DayLen \div Window)
    BY <1>1, <2>1
  <2> QED
    BY <2>1, <2>2
<1>7. PICK o \in Nat : SessionOpen = Window * o
  <2>1. SessionOpen = Window * (SessionOpen \div Window) + 0 /\ SessionOpen \div Window \in Nat
    BY <1>1
  <2>2. SessionOpen = Window * (SessionOpen \div Window)
    BY <1>1, <2>1
  <2> QED
    BY <2>1, <2>2
<1> HIDE DEF w, q, t
<1>8. PICK k \in Nat : t = Window * k
  <2>1. e * q \in Nat /\ Window * (e * q) = DayLen * q /\ DayLen * q \in Nat
    BY <1>1, <1>3, <1>6, Z3
  <2>2. ~(i < e * q)
    <3> SUFFICES ASSUME i < e * q PROVE FALSE
      OBVIOUS
    <3> DEFINE c == e * q
    <3>1. c \in Nat /\ i < c /\ Window * c = DayLen * q
      BY <2>1
    <3> HIDE DEF c
    <3>2. Window * i + Window <= Window * c /\ Window * i \in Nat
      BY <1>1, <3>1, MultiplesApart
    <3> DEFINE a == Window * i  b == DayLen * q
    <3>3. a \in Nat /\ b \in Nat /\ a + Window <= b /\ a = b + t
      BY <1>3, <1>5, <2>1, <3>1, <3>2
    <3> HIDE DEF a, b
    <3> QED
      BY <1>1, <1>3, <3>3
  <2>3. i - e * q \in Nat
    BY <2>1, <2>2
  <2>4. Window * (i - e * q) = Window * i - Window * (e * q)
    BY <1>1, <2>1, Z3
  <2>5. t = Window * i - DayLen * q
    <3> DEFINE a == Window * i  b == DayLen * q
    <3>1. b \in Nat /\ a = b + t
      BY <1>3, <1>5, <2>1
    <3> HIDE DEF a, b
    <3>2. t = a - b
      BY <1>3, <3>1
    <3> QED
      BY <3>2 DEF a, b
  <2> QED
    BY <2>1, <2>3, <2>4, <2>5
<1>9. t + Window <= SessionOpen
  <2>1. Window * k < Window * o
    BY <1>4, <1>7, <1>8
  <2> QED
    BY <1>7, <1>8, <2>1, WindowsDoNotOverlap
<1>10. PICK r \in Nat : r < Window /\ m = w + r
  <2>1. m - w \in Nat /\ m - w < Window /\ m = w + (m - w)
    BY <1>1, <1>2
  <2> QED
    BY <2>1
<1>11. t + r \in Nat /\ t + r < SessionOpen /\ t + r < DayLen
  BY <1>1, <1>3, <1>9, <1>10
<1>12. m = DayLen * q + (t + r)
  <2> DEFINE b == DayLen * q
  <2>1. b \in Nat /\ w = b + t
    BY <1>1, <1>3, Z3
  <2> HIDE DEF b
  <2>2. m = b + (t + r)
    BY <1>3, <1>10, <2>1
  <2> QED
    BY <2>2 DEF b
<1>13. m % DayLen = t + r
  BY <1>1, <1>3, <1>11, <1>12, DivisionIsUnique
<1> QED
  BY <1>11, <1>13 DEF is_premarket, TimeOfDay

----------------------------------------------------------------------------
(* The volume of a context.                                                *)

\* The shares of the pre-market rows are as many minutes that were delivered.
LEMMA SharesAreMinutes ==
  ASSUME TypeOK, NEW s \in Symbol, Book(s)
  PROVE  /\ IsFiniteSet(DeliveredIn(received[s], Day(now)))
         /\ PmVolume(s) <= Cardinality(DeliveredIn(received[s], Day(now)))
<1> DEFINE seq == received[s]
           rows == premarket_bars[s]
           here(i) == Here(seq, rows[i].timestamp)
           size(i) == Cardinality(here(i))
           delivered == DeliveredIn(seq, Day(now))
           shares == {share \in PmRows(s) \X (1..Horizon) : share[2] <= rows[share[1]].bar_count}
           place == [i \in PmRows(s) |-> CHOOSE f : f \in Bijection(1..size(i), here(i))]
           minuteOf == [share \in shares |-> place[share[1]][share[2]]]
<1>1. /\ seq \in Seq(MinuteBar) /\ now \in Nat /\ rows \in Seq(FiveMinBar)
      /\ \A i \in DOMAIN seq : seq[i].minute < now
      /\ RowsOf(rows, seq, OutsideIn(seq))
  BY DEF TypeOK, Book
<1>2. IsFiniteSet(delivered)
  <2>1. Len(seq) \in Nat /\ DOMAIN seq = 1..Len(seq)
    BY <1>1
  <2>2. IsFiniteSet(1..Len(seq)) /\ delivered \subseteq 1..Len(seq)
    BY <2>1, FS_Interval DEF DeliveredIn
  <2> QED
    BY <2>2, FS_Subset
<1>3. \A i \in PmRows(s) : /\ i \in DOMAIN rows /\ is_premarket(rows[i].timestamp)
                           /\ rows[i] = ReferenceBar(seq, rows[i].timestamp)
  BY <1>1 DEF PmRows, RowsOf
<1>4. \A i \in PmRows(s) : rows[i].bar_count = size(i) /\ size(i) \in Nat
  <2> SUFFICES ASSUME NEW i \in PmRows(s) PROVE rows[i].bar_count = size(i) /\ size(i) \in Nat
    OBVIOUS
  <2> DEFINE x == rows[i].timestamp
  <2>1. {j \in AcceptedIn(seq) : _window_start_for(seq[j].minute) = x} = Here(seq, x)
    BY DEF Here
  <2>2. ReferenceBar(seq, x).bar_count = Cardinality(Here(seq, x))
    BY <2>1 DEF ReferenceBar
  <2>3. IsFiniteSet(Here(seq, x))
    BY <1>1, Positions
  <2> QED
    BY <1>3, <2>2, <2>3, FS_CardinalityType
<1>5. \A i \in PmRows(s) : here(i) \subseteq delivered
  <2> SUFFICES ASSUME NEW i \in PmRows(s), NEW j \in here(i) PROVE j \in delivered
    OBVIOUS
  <2>1. j \in DOMAIN seq /\ seq[j].minute \in Nat /\ seq[j].minute < now
    BY <1>1, Positions
  <2>2. _window_start_for(seq[j].minute) = rows[i].timestamp
    BY DEF Here
  <2>3. is_premarket(seq[j].minute)
    BY <1>3, <2>1, <2>2, PremarketWindow
  <2>4. Day(seq[j].minute) <= Day(now)
    BY <1>1, <2>1, DaysGrow
  <2> QED
    BY <2>1, <2>3, <2>4 DEF DeliveredIn
<1>6. \A i \in PmRows(s) : place[i] \in Bijection(1..size(i), here(i))
  <2> SUFFICES ASSUME NEW i \in PmRows(s)
               PROVE  \E f : f \in Bijection(1..size(i), here(i))
    OBVIOUS
  <2>1. IsFiniteSet(here(i))
    BY <1>1, Positions
  <2> QED
    BY <2>1, FS_CardinalityType DEF ExistsBijection
<1>7. \A i, j \in PmRows(s) : i # j => here(i) \cap here(j) = {}
  <2> SUFFICES ASSUME NEW i \in PmRows(s), NEW j \in PmRows(s), i # j,
                      NEW k, k \in here(i), k \in here(j)
               PROVE  FALSE
    OBVIOUS
  <2>1. rows[i].timestamp = rows[j].timestamp
    BY DEF Here
  <2>2. i \in DOMAIN rows /\ j \in DOMAIN rows /\ (i < j \/ j < i)
    BY <1>1, <1>3
  <2>3. rows[i].timestamp \in Nat /\ rows[j].timestamp \in Nat
    <3>1. rows[i] \in FiveMinBar /\ rows[j] \in FiveMinBar
      BY <1>1, <2>2
    <3> QED
      BY <3>1 DEF FiveMinBar, Minute
  <2>4. rows[i].timestamp < rows[j].timestamp \/ rows[j].timestamp < rows[i].timestamp
    BY <1>1, <2>2 DEF RowsOf, BarsInOrder
  <2> QED
    BY <2>1, <2>3, <2>4
<1>8. \A share \in shares : share[1] \in PmRows(s) /\ share[2] \in 1..size(share[1])
  <2> SUFFICES ASSUME NEW share \in shares
               PROVE  share[1] \in PmRows(s) /\ share[2] \in 1..size(share[1])
    OBVIOUS
  <2>1. share[1] \in PmRows(s) /\ share[2] \in Nat \ {0} /\ share[2] <= rows[share[1]].bar_count
    BY BarFeedAssumption
  <2>2. rows[share[1]].bar_count = size(share[1]) /\ size(share[1]) \in Nat
    BY <1>4, <2>1
  <2> HIDE DEF size
  <2> QED
    BY <2>1, <2>2
<1>9. \A share \in shares : minuteOf[share] = place[share[1]][share[2]]
  OBVIOUS
<1> HIDE DEF place, minuteOf, size, here
<1>10. minuteOf \in [shares -> delivered]
  <2>1. \A share \in shares : place[share[1]][share[2]] \in delivered
    <3> SUFFICES ASSUME NEW share \in shares PROVE place[share[1]][share[2]] \in delivered
      OBVIOUS
    <3>1. share[1] \in PmRows(s) /\ share[2] \in 1..size(share[1])
      BY <1>8
    <3>2. place[share[1]][share[2]] \in here(share[1])
      BY <1>6, <3>1 DEF Bijection, Injection
    <3> QED
      BY <1>5, <3>1, <3>2
  <2> QED
    BY <2>1 DEF minuteOf
<1>11. \A x, y \in shares : minuteOf[x] = minuteOf[y] => x = y
  <2> SUFFICES ASSUME NEW x \in shares, NEW y \in shares, minuteOf[x] = minuteOf[y]
               PROVE  x = y
    OBVIOUS
  <2>1. ASSUME NEW z \in shares
        PROVE  z[1] \in PmRows(s) /\ z[2] \in 1..size(z[1]) /\ minuteOf[z] \in here(z[1])
    <3>1. z[1] \in PmRows(s) /\ z[2] \in 1..size(z[1])
      BY <1>8
    <3>2. minuteOf[z] = place[z[1]][z[2]]
      BY <1>9
    <3> QED
      BY <1>6, <3>1, <3>2 DEF Bijection, Injection
  <2>2. x[1] = y[1]
    BY <1>7, <2>1
  <2>3. place[x[1]][x[2]] = place[x[1]][y[2]]
    BY <1>9, <2>2
  <2>4. x[2] = y[2]
    <3>1. x[2] \in 1..size(x[1]) /\ y[2] \in 1..size(x[1]) /\ x[1] \in PmRows(s)
      BY <2>1, <2>2
    <3>2. \A j, k \in 1..size(x[1]) : place[x[1]][j] = place[x[1]][k] => j = k
      BY <1>6, <3>1 DEF Bijection, Injection, IsInjective
    <3> QED
      BY <2>3, <3>1, <3>2
  <2>5. x = <<x[1], x[2]>> /\ y = <<y[1], y[2]>>
    OBVIOUS
  <2> QED
    BY <2>2, <2>4, <2>5
<1>12. minuteOf \in Injection(shares, delivered)
  BY <1>10, <1>11 DEF Injection, IsInjective
<1>13. Cardinality(shares) <= Cardinality(delivered)
  BY <1>2, <1>12, FS_Injection
<1>14. PmVolume(s) = Cardinality(shares)
  BY DEF PmVolume
<1> QED
  BY <1>2, <1>13, <1>14

\* What was delivered stays delivered.
LEMMA DeliveriesGrow ==
  ASSUME NEW seq \in Seq(MinuteBar), NEW bar \in MinuteBar, NEW day
  PROVE  /\ Cardinality(DeliveredIn(seq, day)) \in Nat
         /\ Cardinality(DeliveredIn(Append(seq, bar), day)) \in Nat
         /\ Cardinality(DeliveredIn(seq, day)) <= Cardinality(DeliveredIn(Append(seq, bar), day))
<1> DEFINE more == Append(seq, bar)
           n == Len(seq)
<1>1. /\ n \in Nat /\ DOMAIN seq = 1..n /\ DOMAIN more = 1..(n + 1)
      /\ \A i \in DOMAIN seq : more[i] = seq[i]
  BY OneMoreBar
<1> HIDE DEF more, n
<1>2. DeliveredIn(seq, day) \subseteq DeliveredIn(more, day)
  BY <1>1 DEF DeliveredIn
<1>3. IsFiniteSet(DeliveredIn(more, day))
  <2>1. DeliveredIn(more, day) \subseteq 1..(n + 1) /\ IsFiniteSet(1..(n + 1))
    BY <1>1, FS_Interval DEF DeliveredIn
  <2> QED
    BY <2>1, FS_Subset
<1>4. /\ Cardinality(DeliveredIn(seq, day)) \in Nat
      /\ Cardinality(DeliveredIn(more, day)) \in Nat
      /\ Cardinality(DeliveredIn(seq, day)) <= Cardinality(DeliveredIn(more, day))
  BY <1>2, <1>3, FS_Subset, FS_CardinalityType
<1> QED
  BY <1>4 DEF more

\* The volume of a context counts delivered minutes, when it is computed and
\* from then on.
LEMMA StepVolume ==
  TypeOK /\ TypeOK' /\ (\A s \in Symbol : Book(s)) /\ VolumeWasReceived /\ [Next]_vars
    => VolumeWasReceived'
<1> SUFFICES ASSUME TypeOK, TypeOK', \A s \in Symbol : Book(s), VolumeWasReceived, [Next]_vars,
                    NEW s \in Symbol, premarket_ctx'[s] # NONE
             PROVE  premarket_ctx'[s].premarket_volume
                      <= Cardinality(DeliveredIn(received'[s], premarket_ctx'[s].day))
  BY DEF VolumeWasReceived
<1>1. ASSUME premarket_ctx'[s] = premarket_ctx[s],
             NEW bar \in MinuteBar,
             received'[s] = received[s] \/ received'[s] = Append(received[s], bar)
      PROVE  premarket_ctx'[s].premarket_volume
               <= Cardinality(DeliveredIn(received'[s], premarket_ctx'[s].day))
  <2> DEFINE c == premarket_ctx[s]
             v == c.premarket_volume
             before == Cardinality(DeliveredIn(received[s], c.day))
             after == Cardinality(DeliveredIn(received'[s], c.day))
  <2>1. v \in Nat /\ v <= before
    BY <1>1 DEF TypeOK, PremarketContext, VolumeWasReceived
  <2>2. before \in Nat /\ after \in Nat /\ before <= after
    <3>1. received[s] \in Seq(MinuteBar)
      BY DEF TypeOK
    <3>2. /\ Cardinality(DeliveredIn(received[s], c.day)) \in Nat
          /\ Cardinality(DeliveredIn(Append(received[s], bar), c.day)) \in Nat
          /\ Cardinality(DeliveredIn(received[s], c.day))
               <= Cardinality(DeliveredIn(Append(received[s], bar), c.day))
      BY <1>1, <3>1, DeliveriesGrow
    <3>3. CASE received'[s] = received[s]
      <4>1. after = before
        BY <3>3
      <4> HIDE DEF after
      <4>2. before \in Nat
        BY <3>2
      <4> HIDE DEF before
      <4> QED
        BY <4>1, <4>2
    <3>4. CASE received'[s] = Append(received[s], bar)
      BY <3>2, <3>4
    <3> QED
      BY <1>1, <3>3, <3>4
  <2>3. v <= after
    <3> HIDE DEF v, before, after
    <3> QED
      BY <2>1, <2>2
  <2> QED
    BY <1>1, <2>3
<1>2. ASSUME UNCHANGED <<received, premarket_ctx>>
      PROVE  premarket_ctx'[s].premarket_volume
               <= Cardinality(DeliveredIn(received'[s], premarket_ctx'[s].day))
  BY <1>2 DEF VolumeWasReceived
<1>3. CASE \E r \in Symbol, m \in Minute, p \in Price : Receive(r, m, p)
  <2>1. PICK r \in Symbol, m \in Minute, p \in Price : Receive(r, m, p)
    BY <1>3
  <2> DEFINE bar == [minute |-> m, price |-> p]
  <2>2. bar \in MinuteBar
    BY DEF MinuteBar
  <2>3. /\ received' = [received EXCEPT ![r] = Append(received[r], bar)]
        /\ premarket_ctx' = premarket_ctx
    BY <2>1 DEF Receive, routineVars
  <2>4. received'[s] = received[s] \/ received'[s] = Append(received[s], bar)
    BY <2>3 DEF TypeOK
  <2> HIDE DEF bar
  <2> QED
    BY <1>1, <2>2, <2>3, <2>4
<1>4. CASE \E loaded \in SUBSET Symbol : RunBaselineBackfill(loaded)
  BY <1>2, <1>4 DEF RunBaselineBackfill, streamVars
<1>5. CASE ComputePremarketContexts
  <2>1. /\ UNCHANGED <<received, now>>
        /\ premarket_ctx'[s] = premarket_ctx[s] \/ premarket_ctx'[s] = PremarketContextOf(s)
    BY <1>5 DEF ComputePremarketContexts, streamVars
  <2>2. CASE premarket_ctx'[s] = premarket_ctx[s]
    BY <2>1, <2>2 DEF VolumeWasReceived
  <2>3. CASE premarket_ctx'[s] = PremarketContextOf(s)
    <3>1. /\ premarket_ctx'[s].day = Day(now)
          /\ premarket_ctx'[s].premarket_volume = PmVolume(s)
      BY <2>3 DEF PremarketContextOf
    <3> QED
      BY <2>1, <3>1, SharesAreMinutes
  <2> QED
    BY <2>1, <2>2, <2>3
<1>6. CASE Tick
  BY <1>2, <1>6 DEF Tick, streamVars, routineVars
<1>7. CASE Restart
  BY <1>7 DEF Restart
<1>8. CASE UNCHANGED vars
  BY <1>2, <1>8 DEF vars, streamVars, routineVars
<1> QED
  BY <1>3, <1>4, <1>5, <1>6, <1>7, <1>8 DEF Next

----------------------------------------------------------------------------
(* The theorems about the rows and the contexts.                           *)

BookInv == FeedInv /\ (\A s \in Symbol : Book(s)) /\ VolumeWasReceived

LEMMA BookInvariant == Spec => []BookInv
<1>1. Init => BookInv
  <2>1. Init => VolumeWasReceived
    BY DEF Init, VolumeWasReceived
  <2> QED
    BY <2>1, InitFeed, InitBook DEF BookInv
<1>2. BookInv /\ [Next]_vars => BookInv'
  <2> SUFFICES ASSUME BookInv, [Next]_vars PROVE BookInv'
    OBVIOUS
  <2>1. FeedInv' /\ TypeOK /\ TypeOK'
    BY StepFeed DEF BookInv, FeedInv
  <2>2. (\A s \in Symbol : Book(s))'
    BY <2>1, StepBook DEF BookInv
  <2>3. VolumeWasReceived'
    BY <2>1, StepVolume DEF BookInv
  <2> QED
    BY <2>1, <2>2, <2>3 DEF BookInv
<1> QED
  BY <1>1, <1>2, PTL DEF Spec

\* The rows the signal engine sees are those of the received bars: no minute is
\* counted twice, moved to a neighbour or lost when a window rolls over, for any
\* capacity of the rolling list and however late the bars come.
THEOREM RowsAreTheTape == Spec => []RowsMatchReceived
<1>1. BookInv => RowsMatchReceived
  <2> SUFFICES ASSUME BookInv, NEW s \in Symbol
               PROVE  LET closed == ClosedWindowsIn(received[s])
                          session == {w \in closed : is_rth(w)}
                      IN  /\ Range(bars[s]) =
                               {ReferenceBar(received[s], w) : w \in Newest(session, BarCapacity)}
                          /\ Range(premarket_bars[s]) =
                               {ReferenceBar(received[s], w) : w \in closed \ session}
                          /\ BarsInOrder(bars[s]) /\ BarsInOrder(premarket_bars[s])
    BY DEF RowsMatchReceived
  <2>1. ASSUME NEW rows, NEW seq, NEW owed, RowsOf(rows, seq, owed)
        PROVE  Range(rows) = {ReferenceBar(seq, w) : w \in owed} /\ BarsInOrder(rows)
    <3>1. \A i \in DOMAIN rows : /\ rows[i].timestamp \in owed
                                 /\ rows[i] = ReferenceBar(seq, rows[i].timestamp)
      BY <2>1 DEF RowsOf
    <3>2. \A w \in owed : \E i \in DOMAIN rows : rows[i] = ReferenceBar(seq, w)
      BY <2>1 DEF RowsOf
    <3> QED
      BY <2>1, <3>1, <3>2 DEF RowsOf, Range
  <2>2. /\ RowsOf(bars[s], received[s], Newest(SessionIn(received[s]), BarCapacity))
        /\ RowsOf(premarket_bars[s], received[s], OutsideIn(received[s]))
    BY DEF BookInv, Book
  <2>3. /\ Range(bars[s]) = {ReferenceBar(received[s], w) :
                               w \in Newest(SessionIn(received[s]), BarCapacity)}
        /\ Range(premarket_bars[s]) = {ReferenceBar(received[s], w) : w \in OutsideIn(received[s])}
        /\ BarsInOrder(bars[s]) /\ BarsInOrder(premarket_bars[s])
    BY <2>1, <2>2
  <2> QED
    BY <2>3 DEF SessionIn, OutsideIn
<1> QED
  BY <1>1, BookInvariant, PTL

\* A pre-market context never claims volume that was not delivered, whatever is
\* late, lost or restarted between the bars and the context.
THEOREM ContextVolume == Spec => []VolumeWasReceived
<1>1. BookInv => VolumeWasReceived
  BY DEF BookInv
<1> QED
  BY <1>1, BookInvariant, PTL
=============================================================================
