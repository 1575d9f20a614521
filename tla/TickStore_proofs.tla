-------------------------- MODULE TickStore_proofs --------------------------
(***************************************************************************)
(* Theorems about TickStore, for every set of tables, queue and batch size *)
(* and number of rows and errors.                                           *)
(***************************************************************************)
EXTENDS TickStore, FiniteSetTheorems, SequenceTheorems, TLAPS

----------------------------------------------------------------------------
(* The queue as a sequence of rising row numbers, the sentinel at its end. *)

QueueOf == Seq(Nat \cup {SENTINEL})
QIds(q) == {n \in Nat : \E i \in DOMAIN q : q[i] = n}
Ordered(q) ==
  \A i, j \in DOMAIN q : i < j => /\ q[i] # SENTINEL
                                  /\ q[j] # SENTINEL => q[i] < q[j]

LEMMA AppendRow ==
  ASSUME NEW q \in QueueOf, NEW n \in Nat, Ordered(q),
         \A i \in DOMAIN q : q[i] # SENTINEL, \A x \in QIds(q) : x < n
  PROVE  /\ Append(q, n) \in QueueOf /\ Ordered(Append(q, n))
         /\ QIds(Append(q, n)) = QIds(q) \cup {n}
         /\ \A i \in DOMAIN Append(q, n) : Append(q, n)[i] # SENTINEL
<1> DEFINE a == Append(q, n)
<1>1. Len(q) \in Nat /\ DOMAIN q = 1..Len(q) /\ SENTINEL \notin Nat
  BY TickStoreAssumption DEF QueueOf
<1>2. /\ a \in QueueOf /\ DOMAIN a = 1..(Len(q) + 1)
      /\ \A i \in 1..Len(q) : a[i] = q[i]
      /\ a[Len(q) + 1] = n
  BY AppendProperties DEF QueueOf
<1>3. \A i \in 1..Len(q) : q[i] \in QIds(q)
  BY <1>1 DEF QueueOf, QIds
<1>4. Ordered(a)
  <2> SUFFICES ASSUME NEW i \in DOMAIN a, NEW j \in DOMAIN a, i < j
               PROVE  a[i] # SENTINEL /\ (a[j] # SENTINEL => a[i] < a[j])
    BY DEF Ordered
  <2>1. i \in 1..Len(q)
    BY <1>1, <1>2
  <2>2. CASE j = Len(q) + 1
    BY <1>1, <1>2, <1>3, <2>1, <2>2
  <2>3. CASE j \in 1..Len(q)
    BY <1>1, <1>2, <2>1, <2>3 DEF Ordered
  <2> QED
    BY <1>1, <1>2, <2>2, <2>3
<1>5. QIds(a) = QIds(q) \cup {n}
  <2>1. ASSUME NEW x \in QIds(a) PROVE x \in QIds(q) \cup {n}
    <3>1. PICK i \in DOMAIN a : a[i] = x
      BY <2>1 DEF QIds
    <3>2. CASE i = Len(q) + 1
      BY <1>2, <3>1, <3>2
    <3>3. CASE i \in 1..Len(q)
      BY <1>2, <1>3, <3>1, <3>3
    <3> QED
      BY <1>1, <1>2, <3>2, <3>3
  <2>2. ASSUME NEW x \in QIds(q) PROVE x \in QIds(a)
    <3>1. x \in Nat /\ \E i \in DOMAIN q : q[i] = x
      BY <2>2 DEF QIds
    <3>2. PICK i \in 1..Len(q) : q[i] = x
      BY <1>1, <3>1
    <3>3. i \in DOMAIN a /\ a[i] = x
      BY <1>1, <1>2, <3>2
    <3> QED
      BY <3>1, <3>3 DEF QIds
  <2>3. n \in QIds(a)
    <3>1. Len(q) + 1 \in DOMAIN a
      BY <1>1, <1>2
    <3> QED
      BY <1>2, <3>1 DEF QIds
  <2> QED
    BY <2>1, <2>2, <2>3
<1>6. \A i \in DOMAIN a : a[i] # SENTINEL
  BY <1>1, <1>2
<1> QED
  BY <1>2, <1>4, <1>5, <1>6

LEMMA AppendSentinel ==
  ASSUME NEW q \in QueueOf, Ordered(q), \A i \in DOMAIN q : q[i] # SENTINEL
  PROVE  /\ Append(q, SENTINEL) \in QueueOf /\ Ordered(Append(q, SENTINEL))
         /\ QIds(Append(q, SENTINEL)) = QIds(q)
<1> DEFINE a == Append(q, SENTINEL)
<1>1. Len(q) \in Nat /\ DOMAIN q = 1..Len(q) /\ SENTINEL \notin Nat
  BY TickStoreAssumption DEF QueueOf
<1>2. /\ a \in QueueOf /\ DOMAIN a = 1..(Len(q) + 1)
      /\ \A i \in 1..Len(q) : a[i] = q[i]
      /\ a[Len(q) + 1] = SENTINEL
  BY AppendProperties DEF QueueOf
<1>3. Ordered(a)
  <2> SUFFICES ASSUME NEW i \in DOMAIN a, NEW j \in DOMAIN a, i < j
               PROVE  a[i] # SENTINEL /\ (a[j] # SENTINEL => a[i] < a[j])
    BY DEF Ordered
  <2>1. i \in 1..Len(q)
    BY <1>1, <1>2
  <2>2. CASE j = Len(q) + 1
    BY <1>1, <1>2, <2>1, <2>2
  <2>3. CASE j \in 1..Len(q)
    BY <1>1, <1>2, <2>1, <2>3 DEF Ordered
  <2> QED
    BY <1>1, <1>2, <2>2, <2>3
<1>4. ASSUME NEW x \in Nat
      PROVE  (\E i \in DOMAIN a : a[i] = x) <=> (\E i \in DOMAIN q : q[i] = x)
  BY <1>1, <1>2
<1>5. QIds(a) = QIds(q)
  BY <1>4 DEF QIds
<1> QED
  BY <1>2, <1>3, <1>5

LEMMA TakeHead ==
  ASSUME NEW q \in QueueOf, Ordered(q), q # <<>>
  PROVE  /\ Tail(q) \in QueueOf /\ Ordered(Tail(q)) /\ Len(Tail(q)) <= Len(q)
         /\ QIds(Tail(q)) \subseteq QIds(q)
         /\ Head(q) = SENTINEL => QIds(q) = {} 
         /\ Head(q) # SENTINEL => /\ Head(q) \in Nat
                                  /\ QIds(q) = QIds(Tail(q)) \cup {Head(q)}
                                  /\ \A x \in QIds(Tail(q)) : Head(q) < x
         /\ (\A i \in DOMAIN q : q[i] # SENTINEL) => \A i \in DOMAIN Tail(q) : Tail(q)[i] # SENTINEL
<1> DEFINE t == Tail(q)
<1>1. Len(q) \in Nat \ {0} /\ DOMAIN q = 1..Len(q) /\ SENTINEL \notin Nat
  BY TickStoreAssumption, EmptySeq DEF QueueOf
<1>2. /\ t \in QueueOf /\ Len(t) = Len(q) - 1 /\ DOMAIN t = 1..(Len(q) - 1)
      /\ \A i \in 1..(Len(q) - 1) : t[i] = q[i + 1]
      /\ Head(q) = q[1]
  BY HeadTailProperties DEF QueueOf
<1>3. \A i \in 1..Len(q) : q[i] \in Nat \cup {SENTINEL}
  BY <1>1 DEF QueueOf
<1>4. \A i \in 1..(Len(q) - 1) : i + 1 \in 1..Len(q) /\ 1 < i + 1
  BY <1>1
<1>5. 1 \in 1..Len(q)
  BY <1>1
<1>6. Ordered(t)
  <2> SUFFICES ASSUME NEW i \in DOMAIN t, NEW j \in DOMAIN t, i < j
               PROVE  t[i] # SENTINEL /\ (t[j] # SENTINEL => t[i] < t[j])
    BY DEF Ordered
  <2>1. i + 1 \in DOMAIN q /\ j + 1 \in DOMAIN q /\ i + 1 < j + 1
    BY <1>1, <1>2
  <2>2. t[i] = q[i + 1] /\ t[j] = q[j + 1]
    BY <1>2
  <2> QED
    BY <2>1, <2>2 DEF Ordered
<1>7. \A x \in QIds(t) : \E i \in 1..(Len(q) - 1) : q[i + 1] = x /\ x \in Nat
  <2> TAKE x \in QIds(t)
  <2>1. x \in Nat /\ \E i \in DOMAIN t : t[i] = x
    BY DEF QIds
  <2> QED
    BY <1>2, <2>1
<1>8. QIds(t) \subseteq QIds(q)
  <2> SUFFICES ASSUME NEW x \in QIds(t) PROVE x \in QIds(q)
    OBVIOUS
  <2>1. PICK i \in 1..(Len(q) - 1) : q[i + 1] = x /\ x \in Nat
    BY <1>7
  <2>2. i + 1 \in DOMAIN q
    BY <1>1, <1>4
  <2> QED
    BY <2>1, <2>2 DEF QIds
<1>9. ASSUME q[1] = SENTINEL PROVE QIds(q) = {}
  <2> SUFFICES ASSUME NEW x \in QIds(q) PROVE FALSE
    OBVIOUS
  <2>1. x \in Nat /\ \E i \in DOMAIN q : q[i] = x
    BY DEF QIds
  <2>2. PICK i \in 1..Len(q) : q[i] = x
    BY <1>1, <2>1
  <2>3. i # 1
    BY <1>1, <1>9, <2>1, <2>2
  <2>4. 1 < i
    BY <1>1, <2>3
  <2> QED
    BY <1>1, <1>5, <1>9, <2>2, <2>4 DEF Ordered
<1>10. ASSUME q[1] # SENTINEL
       PROVE  /\ q[1] \in Nat
              /\ QIds(q) = QIds(t) \cup {q[1]}
              /\ \A x \in QIds(t) : q[1] < x
  <2>1. q[1] \in Nat
    BY <1>3, <1>5, <1>10
  <2>2. q[1] \in QIds(q)
    BY <1>1, <1>5, <2>1 DEF QIds
  <2>3. ASSUME NEW x \in QIds(q), x # q[1] PROVE x \in QIds(t)
    <3>1. x \in Nat /\ \E i \in DOMAIN q : q[i] = x
      BY <2>3 DEF QIds
    <3>2. PICK i \in 1..Len(q) : q[i] = x
      BY <1>1, <3>1
    <3>3. i # 1
      BY <2>3, <3>2
    <3>4. i - 1 \in 1..(Len(q) - 1) /\ (i - 1) + 1 = i
      BY <1>1, <3>3
    <3>5. t[i - 1] = x
      BY <1>2, <3>2, <3>4
    <3> QED
      BY <1>2, <3>1, <3>4, <3>5 DEF QIds
  <2>4. ASSUME NEW x \in QIds(t) PROVE q[1] < x
    <3>1. PICK i \in 1..(Len(q) - 1) : q[i + 1] = x /\ x \in Nat
      BY <1>7
    <3>2. i + 1 \in DOMAIN q /\ 1 \in DOMAIN q /\ 1 < i + 1 /\ x # SENTINEL
      BY <1>1, <1>4, <1>5, <3>1
    <3> QED
      BY <3>1, <3>2 DEF Ordered
  <2> QED
    BY <1>8, <2>1, <2>2, <2>3, <2>4
<1>11. (\A i \in DOMAIN q : q[i] # SENTINEL) => \A i \in DOMAIN t : t[i] # SENTINEL
  BY <1>1, <1>2, <1>4
<1> QED
  BY <1>1, <1>2, <1>6, <1>8, <1>9, <1>10, <1>11

----------------------------------------------------------------------------
(* The inductive invariant.                                                *)

NoSentinel(q) == \A i \in DOMAIN q : q[i] # SENTINEL
Stored == db.rows \cup txn.rows

\* What is stored is older than what is batched, and that than what is queued.
OrderInv ==
  /\ Ordered(queue) /\ QIds(queue) \subseteq Ids
  /\ \A x \in Stored, y \in pending : x < y
  /\ \A x \in Stored, y \in QIds(queue) : x < y
  /\ \A x \in pending, y \in QIds(queue) : x < y

\* Where the daemon and the writer can be together.
PhaseInv ==
  /\ daemonPc \in {"streaming", "stopping"} => NoSentinel(queue)
  /\ daemonPc = "streaming" => writerPc = "run"
  /\ daemonPc \in {"closing", "closed", "failed", "killed"} => writerPc # "run"
  /\ verdict # "none" => daemonPc = "closed"
  /\ writerPc = "cancelled" => timedOut \/ daemonPc = "killed"

\* stats never counts more than is committed.
CountInv == written <= Cardinality(db.rows)

\* While nothing failed or overflowed, no row is anywhere but on its way.
CleanInv ==
  faults = 0 /\ dropped = 0 =>
    /\ txn.rows = {} /\ written = Cardinality(db.rows)
    /\ \A n \in db.rows : 1..n \subseteq db.rows
    /\ writerPc = "run" => Ids \subseteq db.rows \cup pending \cup QIds(queue)
    /\ writerPc = "done" => Ids \subseteq db.rows

\* Without an error, drops the ledger does not know of have rows before them
\* that are still to be flushed.
LedgerInv ==
  faults = 0 =>
    /\ txn.dropped_total = 0
    /\ writerPc = "run" => db.dropped_total = dropped \/ pending \cup QIds(queue) # {}
    /\ writerPc = "done" => db.dropped_total = dropped

StoreInv ==
  /\ TypeOK /\ OrderInv /\ PhaseInv /\ CountInv /\ CleanInv /\ LedgerInv
  /\ OnlyTrueOK /\ CleanStopIsOK /\ LedgerTellsDrops

----------------------------------------------------------------------------
(* What a flush does, and what a step of the writer does.                  *)

Commits(P) ==
  /\ db'.rows = Stored \cup P /\ db'.dropped_total = dropped
  /\ txn'.rows = {} /\ txn'.dropped_total = 0
  /\ written' = written + Cardinality(P)
  /\ UNCHANGED <<dropped, faults>>

Fails(P) ==
  /\ txn'.rows \subseteq txn.rows \cup P
  /\ faults' = faults + 1 /\ faults' \in 0..MaxFaults
  /\ dropped' \in Nat
  /\ UNCHANGED <<db, written>>

StoreUnchanged == UNCHANGED <<txn, db, written, dropped, faults>>

FlushEffect(P) ==
  /\ txn' \in Transaction /\ db' \in Transaction
  /\ Commits(P) \/ Fails(P) \/ (P = {} /\ StoreUnchanged)

LEMMA FiniteIds ==
  ASSUME TypeOK, NEW P \in SUBSET Ids
  PROVE  /\ IsFiniteSet(P) /\ Cardinality(P) \in Nat
         /\ Cardinality(Ids) = Len(rows) /\ IsFiniteSet(Ids)
         /\ P \subseteq Nat
<1>1. Len(rows) \in Nat
  BY DEF TypeOK
<1>2. IsFiniteSet(Ids) /\ Cardinality(Ids) = Len(rows)
  BY <1>1, FS_Interval DEF Ids
<1>3. IsFiniteSet(P) /\ Cardinality(P) \in Nat
  BY <1>2, FS_Subset, FS_CardinalityType
<1> QED
  BY <1>1, <1>2, <1>3 DEF Ids

LEMMA FlushEffects ==
  ASSUME TypeOK, NEW P \in SUBSET Ids, Flush(P)
  PROVE  FlushEffect(P)
<1>1. /\ txn \in Transaction /\ db \in Transaction /\ dropped \in Nat
      /\ faults \in 0..MaxFaults /\ MaxFaults \in Nat
      /\ txn.rows \subseteq Nat /\ db.rows \subseteq Nat /\ P \subseteq Nat
  BY TickStoreAssumption, FiniteIds DEF TypeOK, Transaction
<1>2. Nothing \in Transaction /\ Nothing.rows = {} /\ Nothing.dropped_total = 0
  BY DEF Nothing, Transaction
<1>3. ASSUME NEW E \in SUBSET P, NEW ledger \in BOOLEAN, LeftOpen(E, ledger)
      PROVE  txn' \in Transaction /\ txn'.rows \subseteq txn.rows \cup P
  <2>1. /\ Executed(E, ledger) \in Transaction
        /\ Executed(E, ledger).rows = txn.rows \cup E
    BY <1>1 DEF Executed, Transaction
  <2> QED
    BY <1>2, <1>3, <2>1 DEF LeftOpen
<1>4. CASE P = {}
  BY <1>1, <1>4 DEF Flush, FlushEffect, StoreUnchanged
<1>5. CASE FlushCommits(P)
  BY <1>1, <1>2, <1>5 DEF FlushCommits, FlushEffect, Commits, Stored, Transaction
<1>6. CASE FlushFails(P)
  <2>1. faults' = faults + 1 /\ faults' \in 0..MaxFaults /\ UNCHANGED <<db, written>>
    BY <1>1, <1>6 DEF FlushFails
  <2>2. CASE \E ledger \in BOOLEAN : LeftOpen(P, ledger) /\ UNCHANGED dropped
    BY <1>1, <1>3, <2>1, <2>2 DEF FlushEffect, Fails
  <2>3. CASE \E i \in DOMAIN KindOrder : \E cut \in OfKind(P, i) :
               LET error == ErrorAt(P, i, {n \in OfKind(P, i) : n < cut})
               IN  dropped' = dropped + error.lost /\ LeftOpen(error.executed, FALSE)
    <3>1. PICK i \in DOMAIN KindOrder : \E cut \in OfKind(P, i) :
                 LET error == ErrorAt(P, i, {n \in OfKind(P, i) : n < cut})
                 IN  dropped' = dropped + error.lost /\ LeftOpen(error.executed, FALSE)
      BY <2>3
    <3>2. PICK cut \in OfKind(P, i) :
                 LET error == ErrorAt(P, i, {n \in OfKind(P, i) : n < cut})
                 IN  dropped' = dropped + error.lost /\ LeftOpen(error.executed, FALSE)
      BY <3>1
    <3> DEFINE partial == {n \in OfKind(P, i) : n < cut}
               before == UNION {OfKind(P, j) : j \in 1..(i - 1)}
    <3>3. before \subseteq P /\ partial \subseteq P
      BY DEF OfKind
    <3>4. /\ dropped' = dropped + Cardinality(P \ before)
          /\ LeftOpen(before \cup partial, FALSE)
      BY <3>2 DEF ErrorAt
    <3>5. Cardinality(P \ before) \in Nat
      <4>1. P \ before \in SUBSET Ids
        OBVIOUS
      <4> QED
        BY <4>1, FiniteIds
    <3>6. before \cup partial \in SUBSET P /\ FALSE \in BOOLEAN
      BY <3>3
    <3>7. txn' \in Transaction /\ txn'.rows \subseteq txn.rows \cup P
      BY <1>3, <3>4, <3>6
    <3> QED
      BY <1>1, <2>1, <3>4, <3>5, <3>7 DEF FlushEffect, Fails
  <2> QED
    BY <1>6, <2>2, <2>3 DEF FlushFails
<1> QED
  BY <1>4, <1>5, <1>6 DEF Flush

\* The writer takes the rows M off the queue and batches or flushes P.
WriterStep(M, P) ==
  /\ writerPc = "run" /\ writerPc' \in {"run", "done"}
  /\ P = pending \cup M /\ P \in SUBSET Ids
  /\ queue' \in QueueOf /\ Ordered(queue') /\ Len(queue') <= Len(queue)
  /\ NoSentinel(queue) => NoSentinel(queue')
  /\ QIds(queue) = M \cup QIds(queue')
  /\ \A x \in P, y \in QIds(queue') : x < y
  /\ \/ FlushEffect(P) /\ pending' = {}
     \/ StoreUnchanged /\ pending' = P
  /\ writerPc' = "done" => ~Running /\ pending' = {} /\ QIds(queue') = {}
  /\ UNCHANGED <<rows, daemonPc, verdict, timedOut>>

LEMMA NoIds == QIds(<<>>) = {}
BY DEF QIds

LEMMA WriterSteps ==
  ASSUME TypeOK, OrderInv, PhaseInv, Take \/ FlushTick
  PROVE  \E M, P : WriterStep(M, P)
<1>1. /\ queue \in QueueOf /\ Ordered(queue) /\ pending \subseteq Ids
      /\ QIds(queue) \subseteq Ids /\ Len(queue) \in Nat
      /\ \A x \in pending, y \in QIds(queue) : x < y
      /\ SENTINEL \notin Nat
  BY TickStoreAssumption DEF TypeOK, OrderInv, QueueOf
<1>2. CASE FlushTick
  <2>1. FlushEffect(pending)
    BY <1>1, <1>2, FlushEffects DEF FlushTick
  <2>2. WriterStep({}, pending)
    BY <1>1, <1>2, <2>1, NoIds DEF FlushTick, WriterStep
  <2> QED
    BY <2>2
<1>3. CASE Take /\ TakeSentinel
  <2>1. queue # <<>> /\ queue' = Tail(queue) /\ Head(queue) = SENTINEL
    BY <1>3 DEF Take, TakeSentinel
  <2>2. /\ queue' \in QueueOf /\ Ordered(queue') /\ Len(queue') <= Len(queue)
        /\ QIds(queue) = {} /\ QIds(queue') = {}
        /\ NoSentinel(queue) => NoSentinel(queue')
    BY <1>1, <2>1, TakeHead DEF NoSentinel
  <2>3. FlushEffect(pending)
    BY <1>1, <1>3, FlushEffects DEF TakeSentinel, LastFlush
  <2>4. ~NoSentinel(queue)
    BY <1>1, <2>1, HeadTailProperties, EmptySeq DEF NoSentinel, QueueOf
  <2>5. ~Running
    BY <2>4 DEF PhaseInv, Running
  <2>6. WriterStep({}, pending)
    BY <1>1, <1>3, <2>2, <2>3, <2>5 DEF Take, TakeSentinel, WriterStep
  <2> QED
    BY <2>6
<1>4. CASE Take /\ TakeRow
  <2> DEFINE M == {Head(queue)}
             P == pending \cup M
  <2>1. queue # <<>> /\ queue' = Tail(queue) /\ Head(queue) # SENTINEL
    BY <1>4 DEF Take, TakeRow
  <2>2. /\ queue' \in QueueOf /\ Ordered(queue') /\ Len(queue') <= Len(queue)
        /\ QIds(queue) = M \cup QIds(queue')
        /\ \A x \in M, y \in QIds(queue') : x < y
        /\ NoSentinel(queue) => NoSentinel(queue')
    BY <1>1, <2>1, TakeHead DEF NoSentinel
  <2>3. P \in SUBSET Ids /\ \A x \in P, y \in QIds(queue') : x < y
    BY <1>1, <2>2
  <2> DEFINE last == ~Running /\ Tail(queue) = <<>>
  <2>4. PICK late \in BOOLEAN :
          IF Cardinality(P) >= BatchSize \/ late \/ last
            THEN Flush(Flushed(P)) /\ pending' = P \ Flushed(P)
            ELSE pending' = P /\ UNCHANGED <<txn, db, written, dropped, faults>>
    BY <1>4 DEF TakeRow
  <2>5. \/ FlushEffect(P) /\ pending' = {}
        \/ StoreUnchanged /\ pending' = P /\ ~last
    BY <2>3, <2>4, FlushEffects DEF Flushed, StoreUnchanged
  <2>6. writerPc' \in {"run", "done"} /\ (writerPc' = "done" => last)
    BY <1>4 DEF TakeRow
  <2>7. writerPc' = "done" => ~Running /\ pending' = {} /\ QIds(queue') = {}
    BY <2>1, <2>5, <2>6, NoIds
  <2>8. WriterStep(M, P)
    BY <1>4, <2>2, <2>3, <2>5, <2>6, <2>7 DEF Take, WriterStep
  <2> QED
    BY <2>8
<1> QED
  BY <1>2, <1>3, <1>4 DEF Take

----------------------------------------------------------------------------
(* A step of the writer keeps the invariant.                               *)

LEMMA WriterKeeps ==
  ASSUME StoreInv, NEW M, NEW P, WriterStep(M, P)
  PROVE  StoreInv'
<1>1. /\ TypeOK /\ OrderInv /\ PhaseInv /\ CountInv /\ CleanInv
      /\ LedgerInv /\ OnlyTrueOK /\ CleanStopIsOK /\ LedgerTellsDrops
  BY DEF StoreInv
<1>2. /\ writerPc = "run" /\ P = pending \cup M /\ P \in SUBSET Ids
      /\ QIds(queue) = M \cup QIds(queue') /\ Ids' = Ids /\ Len(rows) \in Nat
      /\ UNCHANGED <<rows, daemonPc, verdict, timedOut>>
  BY <1>1 DEF WriterStep, Ids, TypeOK
<1>10. queue' \in Seq(Nat \cup {SENTINEL}) /\ Len(queue') <= QueueMax
  <2>1. /\ queue \in Seq(Nat \cup {SENTINEL}) /\ queue' \in Seq(Nat \cup {SENTINEL})
        /\ Len(queue') <= Len(queue) /\ Len(queue) <= QueueMax
    BY <1>1 DEF WriterStep, QueueOf, TypeOK
  <2>2. Len(queue) \in Nat /\ Len(queue') \in Nat /\ QueueMax \in Nat
    BY <2>1, TickStoreAssumption
  <2> QED
    BY <2>1, <2>2
<1>11. writerPc' \in {"run", "done", "cancelled"}
  BY DEF WriterStep
<1>3. CASE FlushEffect(P) /\ pending' = {} /\ Commits(P)
  <2>1. /\ db'.rows = Stored \cup P /\ txn'.rows = {} /\ pending' = {}
        /\ written' = written + Cardinality(P) /\ UNCHANGED <<dropped, faults>>
        /\ txn' \in Transaction /\ db' \in Transaction
    BY <1>3 DEF Commits, FlushEffect
  <2>2. /\ Stored \subseteq Ids /\ db.rows \in SUBSET Ids /\ db'.rows \in SUBSET Ids
        /\ Stored' = Stored \cup P
    BY <1>1, <1>2, <2>1 DEF TypeOK, Stored
  <2>3. /\ IsFiniteSet(P) /\ Cardinality(P) \in Nat
        /\ IsFiniteSet(db.rows) /\ Cardinality(db.rows) \in Nat
        /\ IsFiniteSet(db'.rows) /\ Cardinality(db'.rows) \in Nat
    BY <1>1, <1>2, <2>2, FiniteIds
  <2>4. \A x \in Stored, y \in P : x < y
    BY <1>1, <1>2 DEF OrderInv
  <2>5. db.rows \cap P = {}
    <3>1. \A x \in db.rows \cap P : x \in Nat /\ x < x
      BY <1>2, <2>2, <2>4, FiniteIds, <1>1 DEF Stored, Ids
    <3>2. \A x \in Nat : ~(x < x)
      OBVIOUS
    <3> QED
      BY <3>1, <3>2
  <2>6. /\ IsFiniteSet(db.rows \cup P)
        /\ Cardinality(db.rows \cup P) = Cardinality(db.rows) + Cardinality(P)
    <3>1. /\ IsFiniteSet(db.rows \cup P)
          /\ Cardinality(db.rows \cup P) =
               Cardinality(db.rows) + Cardinality(P) - Cardinality(db.rows \cap P)
      BY <2>3, FS_Union
    <3>2. Cardinality(db.rows \cap P) = 0
      BY <2>5, FS_EmptySet
    <3> QED
      BY <2>3, <3>1, <3>2
  <2>7. TypeOK'
    BY <1>1, <1>2, <1>10, <1>11, <2>1, <2>2, <2>3 DEF TypeOK
  <2>8. OrderInv'
    <3>1. Ordered(queue') /\ QIds(queue') \subseteq Ids'
      BY <1>1, <1>2 DEF WriterStep, OrderInv
    <3>2. \A x \in Stored', y \in QIds(queue') : x < y
      BY <1>1, <1>2, <2>2 DEF WriterStep, OrderInv
    <3> QED
      BY <2>1, <3>1, <3>2 DEF OrderInv
  <2>9. PhaseInv'
    BY <1>1, <1>2 DEF PhaseInv, WriterStep, Running
  <2>10. CountInv'
    <3>1. db.rows \cup P \in SUBSET db'.rows
      BY <2>1 DEF Stored
    <3>2. Cardinality(db.rows \cup P) <= Cardinality(db'.rows)
      BY <2>3, <3>1, FS_Subset
    <3> QED
      BY <1>1, <2>1, <2>3, <2>6, <3>2 DEF CountInv, TypeOK
  <2>11. CleanInv'
    <3> SUFFICES ASSUME faults = 0, dropped = 0
                 PROVE  /\ txn'.rows = {} /\ written' = Cardinality(db'.rows)
                        /\ \A n \in db'.rows : 1..n \subseteq db'.rows
                        /\ Ids \subseteq db'.rows \cup QIds(queue')
                        /\ writerPc' = "done" => Ids \subseteq db'.rows
      BY <1>2, <2>1 DEF CleanInv
    <3>1. /\ txn.rows = {} /\ written = Cardinality(db.rows)
          /\ \A n \in db.rows : 1..n \subseteq db.rows
          /\ Ids \subseteq db.rows \cup pending \cup QIds(queue)
      BY <1>1, <1>2 DEF CleanInv
    <3>2. db'.rows = db.rows \cup P
      BY <2>1, <3>1 DEF Stored
    <3>3. Ids \subseteq db'.rows \cup QIds(queue')
      BY <1>2, <3>1, <3>2
    <3>4. ASSUME NEW n \in P PROVE 1..n \subseteq db'.rows
      <4>1. n \in Nat /\ n <= Len(rows)
        BY <1>2 DEF Ids
      <4>2. ASSUME NEW m \in 1..n PROVE m \notin QIds(queue')
        BY <4>1 DEF WriterStep
      <4>3. 1..n \subseteq Ids
        BY <1>2, <4>1 DEF Ids
      <4> QED
        BY <3>3, <4>2, <4>3
    <3>5. writerPc' = "done" => Ids \subseteq db'.rows
      BY <3>3 DEF WriterStep
    <3> QED
      BY <2>1, <2>6, <3>1, <3>2, <3>3, <3>4, <3>5
  <2>12. OnlyTrueOK' /\ CleanStopIsOK' /\ LedgerTellsDrops'
    BY <1>1, <1>2 DEF PhaseInv, OnlyTrueOK, CleanStopIsOK, LedgerTellsDrops
  <2>13. LedgerInv'
    BY <1>3 DEF Commits, LedgerInv
  <2> QED
    BY <2>7, <2>8, <2>9, <2>10, <2>11, <2>12, <2>13 DEF StoreInv
<1>4. CASE FlushEffect(P) /\ pending' = {} /\ Fails(P)
  <2>1. /\ txn'.rows \subseteq txn.rows \cup P /\ UNCHANGED <<db, written>>
        /\ faults' = faults + 1 /\ faults' \in 0..MaxFaults /\ dropped' \in Nat
        /\ txn' \in Transaction /\ db' \in Transaction /\ pending' = {}
    BY <1>4 DEF Fails, FlushEffect
  <2>2. Stored' \subseteq Stored \cup P /\ txn'.rows \subseteq Ids
    BY <1>1, <1>2, <2>1 DEF TypeOK, Stored
  <2>3. TypeOK'
    BY <1>1, <1>2, <1>10, <1>11, <2>1, <2>2 DEF TypeOK
  <2>4. OrderInv'
    <3>1. Ordered(queue') /\ QIds(queue') \subseteq Ids'
      BY <1>1, <1>2 DEF WriterStep, OrderInv
    <3>2. \A x \in Stored', y \in QIds(queue') : x < y
      BY <1>1, <1>2, <2>2 DEF WriterStep, OrderInv
    <3> QED
      BY <2>1, <3>1, <3>2 DEF OrderInv
  <2>5. PhaseInv'
    BY <1>1, <1>2 DEF PhaseInv, WriterStep, Running
  <2>6. CountInv'
    BY <1>1, <2>1 DEF CountInv
  <2>7. faults' # 0
    BY <1>1, <2>1, TickStoreAssumption DEF TypeOK
  <2>8. CleanInv' /\ LedgerInv' /\ OnlyTrueOK' /\ CleanStopIsOK' /\ LedgerTellsDrops'
    BY <1>1, <1>2, <2>7
       DEF CleanInv, LedgerInv, PhaseInv, OnlyTrueOK, CleanStopIsOK, LedgerTellsDrops
  <2> QED
    BY <2>3, <2>4, <2>5, <2>6, <2>8 DEF StoreInv
<1>5. CASE StoreUnchanged /\ pending' = P
  <2>1. UNCHANGED <<txn, db, written, dropped, faults>> /\ pending' = P
    BY <1>5 DEF StoreUnchanged
  <2>2. TypeOK'
    BY <1>1, <1>2, <1>10, <1>11, <2>1 DEF TypeOK
  <2>3. OrderInv'
    <3>1. Ordered(queue') /\ QIds(queue') \subseteq Ids' /\ Stored' = Stored
      BY <1>1, <1>2, <2>1 DEF WriterStep, OrderInv, Stored
    <3>2. \A x \in Stored, y \in P : x < y
      BY <1>1, <1>2 DEF OrderInv
    <3>3. \A x \in Stored, y \in QIds(queue') : x < y
      BY <1>1, <1>2 DEF OrderInv
    <3>4. \A x \in P, y \in QIds(queue') : x < y
      BY DEF WriterStep
    <3> QED
      BY <2>1, <3>1, <3>2, <3>3, <3>4 DEF OrderInv
  <2>4. PhaseInv'
    BY <1>1, <1>2 DEF PhaseInv, WriterStep, Running
  <2>5. CountInv'
    BY <1>1, <2>1 DEF CountInv
  <2>6. CleanInv'
    <3> SUFFICES ASSUME faults = 0, dropped = 0
                 PROVE  /\ txn.rows = {} /\ written = Cardinality(db.rows)
                        /\ \A n \in db.rows : 1..n \subseteq db.rows
                        /\ Ids \subseteq db.rows \cup P \cup QIds(queue')
                        /\ writerPc' = "done" => Ids \subseteq db.rows
      BY <1>2, <2>1 DEF CleanInv
    <3>1. /\ txn.rows = {} /\ written = Cardinality(db.rows)
          /\ \A n \in db.rows : 1..n \subseteq db.rows
          /\ Ids \subseteq db.rows \cup P \cup QIds(queue')
      BY <1>1, <1>2 DEF CleanInv
    <3>2. writerPc' = "done" => P = {} /\ QIds(queue') = {}
      BY <2>1 DEF WriterStep
    <3> QED
      BY <3>1, <3>2
  <2>7. OnlyTrueOK' /\ CleanStopIsOK' /\ LedgerTellsDrops'
    BY <1>1, <1>2 DEF PhaseInv, OnlyTrueOK, CleanStopIsOK, LedgerTellsDrops
  <2>8. LedgerInv'
    <3>1. pending' \cup QIds(queue') = pending \cup QIds(queue)
      BY <1>2, <2>1
    <3>2. writerPc' = "done" => pending' \cup QIds(queue') = {}
      BY DEF WriterStep
    <3> QED
      BY <1>1, <1>2, <2>1, <3>1, <3>2 DEF LedgerInv
  <2> QED
    BY <2>2, <2>3, <2>4, <2>5, <2>6, <2>7, <2>8 DEF StoreInv
<1>6. \/ FlushEffect(P) /\ pending' = {}
      \/ StoreUnchanged /\ pending' = P
  BY DEF WriterStep
<1>7. FlushEffect(P) => Commits(P) \/ Fails(P) \/ (P = {} /\ StoreUnchanged)
  BY DEF FlushEffect
<1>8. CASE FlushEffect(P) /\ pending' = {}
  <2>1. CASE P = {} /\ StoreUnchanged
    BY <1>5, <1>8, <2>1
  <2> QED
    BY <1>3, <1>4, <1>7, <1>8, <2>1
<1> QED
  BY <1>5, <1>6, <1>8

LEMMA ReceiveKeeps ==
  ASSUME StoreInv, NEW kind \in Kind, Receive(kind)
  PROVE  StoreInv'
<1> DEFINE new == Len(rows) + 1
<1>1. /\ TypeOK /\ OrderInv /\ PhaseInv /\ CountInv /\ CleanInv
      /\ LedgerInv /\ OnlyTrueOK /\ CleanStopIsOK /\ LedgerTellsDrops
  BY DEF StoreInv
<1>2. /\ daemonPc = "streaming" /\ NoSentinel(queue) /\ writerPc = "run"
      /\ verdict = "none" /\ Len(rows) \in Nat /\ new \in Nat
      /\ UNCHANGED <<pending, txn, db, written, writerPc, daemonPc, verdict,
                     faults, timedOut>>
  BY <1>1 DEF Receive, PhaseInv, TypeOK
<1>3. /\ rows' \in Seq(Kind) /\ Len(rows') = new
  BY <1>1, AppendProperties DEF Receive, TypeOK
<1>4. Ids' = Ids \cup {new} /\ \A x \in Ids : x < new
  BY <1>2, <1>3 DEF Ids
<1>5. CASE QueueFull /\ dropped' = dropped + 1 /\ UNCHANGED queue
  <2>1. TypeOK'
    BY <1>1, <1>2, <1>3, <1>4, <1>5 DEF TypeOK
  <2>2. OrderInv' /\ PhaseInv' /\ CountInv'
    BY <1>1, <1>2, <1>4, <1>5 DEF OrderInv, PhaseInv, CountInv, Stored
  <2>3. dropped' # 0
    BY <1>1, <1>5 DEF TypeOK
  <2>4. CleanInv' /\ OnlyTrueOK' /\ CleanStopIsOK' /\ LedgerTellsDrops'
    BY <1>2, <2>3 DEF CleanInv, OnlyTrueOK, CleanStopIsOK, LedgerTellsDrops
  <2>5. QIds(queue) # {}
    <3>1. queue \in QueueOf /\ Len(queue) \in Nat \ {0} /\ SENTINEL \notin Nat
      BY <1>1, <1>5, TickStoreAssumption DEF QueueFull, TypeOK, QueueOf
    <3>2. 1 \in DOMAIN queue /\ queue[1] \in Nat \cup {SENTINEL}
      BY <3>1 DEF QueueOf
    <3>3. queue[1] \in QIds(queue)
      BY <1>2, <3>2 DEF NoSentinel, QIds
    <3> QED
      BY <3>3
  <2>6. LedgerInv'
    BY <1>1, <1>2, <1>5, <2>5 DEF LedgerInv
  <2> QED
    BY <2>1, <2>2, <2>4, <2>6 DEF StoreInv
<1>6. CASE ~QueueFull /\ queue' = Append(queue, new) /\ UNCHANGED dropped
  <2>1. queue \in QueueOf /\ Ordered(queue) /\ \A x \in QIds(queue) : x < new
    BY <1>1, <1>4 DEF TypeOK, OrderInv, QueueOf
  <2>2. /\ queue' \in QueueOf /\ Ordered(queue') /\ NoSentinel(queue')
        /\ QIds(queue') = QIds(queue) \cup {new}
    BY <1>2, <1>6, <2>1, AppendRow DEF NoSentinel
  <2>3. Len(queue') <= QueueMax
    BY <1>1, <1>6, <2>1, AppendProperties, TickStoreAssumption
       DEF TypeOK, QueueFull, QueueOf
  <2>4. TypeOK'
    BY <1>1, <1>2, <1>3, <1>4, <1>6, <2>2, <2>3 DEF TypeOK, QueueOf
  <2>5. OrderInv'
    <3>1. pending \subseteq Ids /\ Stored \subseteq Ids /\ Stored' = Stored
      BY <1>1, <1>2 DEF TypeOK, Stored
    <3>2. QIds(queue') \subseteq Ids'
      BY <1>1, <1>4, <2>2 DEF OrderInv
    <3>3. \A x \in Stored, y \in QIds(queue') : x < y
      BY <1>1, <1>4, <2>2, <3>1 DEF OrderInv
    <3>4. \A x \in pending, y \in QIds(queue') : x < y
      BY <1>1, <1>4, <2>2, <3>1 DEF OrderInv
    <3> QED
      BY <1>1, <1>2, <2>2, <3>1, <3>2, <3>3, <3>4 DEF OrderInv
  <2>6. PhaseInv' /\ CountInv'
    BY <1>1, <1>2, <2>2 DEF PhaseInv, CountInv
  <2>7. CleanInv'
    BY <1>1, <1>2, <1>4, <1>6, <2>2 DEF CleanInv
  <2>8. OnlyTrueOK' /\ CleanStopIsOK' /\ LedgerTellsDrops'
    BY <1>2 DEF OnlyTrueOK, CleanStopIsOK, LedgerTellsDrops
  <2>9. LedgerInv'
    BY <1>1, <1>2, <1>6, <2>2 DEF LedgerInv
  <2> QED
    BY <2>4, <2>5, <2>6, <2>7, <2>8, <2>9 DEF StoreInv
<1> QED
  BY <1>5, <1>6 DEF Receive

----------------------------------------------------------------------------
(* The other steps.                                                        *)

LEMMA PutSentinelKeeps ==
  ASSUME StoreInv, PutSentinel
  PROVE  StoreInv'
<1>1. /\ TypeOK /\ OrderInv /\ PhaseInv /\ CountInv /\ CleanInv
      /\ LedgerInv /\ OnlyTrueOK /\ CleanStopIsOK /\ LedgerTellsDrops
  BY DEF StoreInv
<1>2. /\ daemonPc = "stopping" /\ daemonPc' = "draining" /\ ~QueueFull
      /\ queue' = Append(queue, SENTINEL) /\ verdict = "none" /\ NoSentinel(queue)
      /\ UNCHANGED <<rows, pending, txn, db, written, dropped, faults,
                     writerPc, verdict, timedOut>>
  BY <1>1 DEF PutSentinel, storeVars, PhaseInv
<1>3. /\ queue \in QueueOf /\ Ordered(queue) /\ Len(queue) \in Nat
      /\ Len(queue') = Len(queue) + 1
  BY <1>1, <1>2, AppendProperties DEF TypeOK, OrderInv, QueueOf
<1>4. /\ queue' \in QueueOf /\ Ordered(queue') /\ QIds(queue') = QIds(queue)
  BY <1>2, <1>3, AppendSentinel DEF NoSentinel
<1>5. Len(queue') <= QueueMax
  BY <1>1, <1>2, <1>3, TickStoreAssumption DEF QueueFull
<1>6. Ids' = Ids /\ Stored' = Stored
  BY <1>2 DEF Ids, Stored
<1>7. TypeOK'
  BY <1>1, <1>2, <1>4, <1>5, <1>6 DEF TypeOK, QueueOf
<1>8. OrderInv'
  BY <1>1, <1>2, <1>4, <1>6 DEF OrderInv
<1>9. PhaseInv' /\ CountInv'
  BY <1>1, <1>2 DEF PhaseInv, CountInv
<1>10. CleanInv' /\ LedgerInv' /\ OnlyTrueOK' /\ CleanStopIsOK' /\ LedgerTellsDrops'
  BY <1>1, <1>2, <1>4, <1>6
     DEF CleanInv, LedgerInv, OnlyTrueOK, CleanStopIsOK, LedgerTellsDrops
<1> QED
  BY <1>7, <1>8, <1>9, <1>10 DEF StoreInv

LEMMA CloseKeeps ==
  ASSUME StoreInv, Close
  PROVE  StoreInv'
<1>1. /\ TypeOK /\ OrderInv /\ PhaseInv /\ CountInv /\ CleanInv
      /\ LedgerInv /\ OnlyTrueOK /\ CleanStopIsOK /\ LedgerTellsDrops
  BY DEF StoreInv
<1>2. /\ daemonPc = "closing" /\ writerPc # "run" /\ verdict = "none"
      /\ UNCHANGED <<rows, queue, pending, written, dropped, writerPc, timedOut>>
      /\ Ids' = Ids
  BY <1>1 DEF Close, PhaseInv, Ids
<1>3. CASE /\ db' = [rows |-> db.rows \cup txn.rows,
                     dropped_total |-> IF txn.dropped_total > db.dropped_total
                                       THEN txn.dropped_total ELSE db.dropped_total]
           /\ txn' = Nothing
           /\ daemonPc' = "closed" /\ verdict' = Verdict
           /\ UNCHANGED faults
  <2>1. /\ db'.rows = db.rows \cup txn.rows /\ txn'.rows = {} /\ txn'.dropped_total = 0
        /\ txn' \in Transaction /\ db' \in Transaction /\ Stored' = Stored
    BY <1>1, <1>3 DEF TypeOK, Transaction, Nothing, Stored
  <2>2. db.rows \in SUBSET Ids /\ db'.rows \in SUBSET Ids
    BY <1>1, <2>1 DEF TypeOK
  <2>3. Verdict \in {"dropped", "mismatch", "OK"}
    BY DEF Verdict
  <2>4. TypeOK'
    BY <1>1, <1>2, <1>3, <2>1, <2>2, <2>3 DEF TypeOK
  <2>5. OrderInv' /\ PhaseInv'
    BY <1>1, <1>2, <1>3, <2>1 DEF OrderInv, PhaseInv
  <2>6. /\ Cardinality(db.rows) \in Nat /\ Cardinality(db'.rows) \in Nat
        /\ Cardinality(db.rows) <= Cardinality(db'.rows)
        /\ IsFiniteSet(db'.rows) /\ Cardinality(db'.rows) <= Len(rows)
        /\ Cardinality(db'.rows) = Len(rows) => db'.rows = Ids
        /\ Len(rows) = 0 => Ids = {}
    <3>1. /\ IsFiniteSet(db'.rows) /\ Cardinality(db'.rows) \in Nat
          /\ Cardinality(db.rows) \in Nat
          /\ IsFiniteSet(Ids) /\ Cardinality(Ids) = Len(rows)
      BY <1>1, <2>2, FiniteIds
    <3>2. db.rows \in SUBSET db'.rows
      BY <2>1
    <3>3. Cardinality(db.rows) <= Cardinality(db'.rows)
      BY <3>1, <3>2, FS_Subset
    <3>4. /\ Cardinality(db'.rows) <= Cardinality(Ids)
          /\ Cardinality(Ids) = Cardinality(db'.rows) => Ids = db'.rows
      BY <2>2, <3>1, FS_Subset
    <3> QED
      BY <3>1, <3>3, <3>4 DEF Ids
  <2>7. CountInv'
    BY <1>1, <1>2, <2>6 DEF CountInv, TypeOK
  <2>8. CleanInv'
    BY <1>1, <1>2, <1>3, <2>1 DEF CleanInv
  <2>9. OnlyTrueOK'
    <3> SUFFICES ASSUME verdict' = "OK" PROVE db'.rows = Ids
      BY <1>2 DEF OnlyTrueOK
    <3>1. Verdict = "OK"
      BY <1>3
    <3>2. ~(Len(rows) > 0 /\ written # Len(rows))
      BY <3>1 DEF Verdict
    <3>3. Len(rows) \in Nat /\ written \in Nat
      BY <1>1 DEF TypeOK
    <3>4. CASE Len(rows) = 0
      BY <2>2, <2>6, <3>4
    <3>5. CASE written = Len(rows)
      BY <1>1, <2>6, <3>3, <3>5 DEF CountInv
    <3> QED
      BY <3>2, <3>3, <3>4, <3>5
  <2>10. CleanStopIsOK'
    <3> SUFFICES ASSUME faults = 0, dropped = 0, ~timedOut PROVE Verdict = "OK"
      BY <1>2, <1>3 DEF CleanStopIsOK
    <3>1. writerPc = "done"
      BY <1>1, <1>2 DEF PhaseInv, TypeOK
    <3>2. Ids \subseteq db.rows /\ written = Cardinality(db.rows)
      BY <1>1, <3>1 DEF CleanInv
    <3>3. db.rows = Ids
      BY <2>2, <3>2
    <3>4. written = Len(rows)
      BY <1>1, <3>2, <3>3, FiniteIds
    <3> QED
      BY <3>4 DEF Verdict
  <2>11. ASSUME faults = 0 PROVE db'.dropped_total = db.dropped_total
    BY <1>1, <1>3, <2>11 DEF LedgerInv, TypeOK, Transaction
  <2>12. LedgerInv'
    BY <1>1, <1>2, <1>3, <2>1, <2>11 DEF LedgerInv
  <2>13. LedgerTellsDrops'
    BY <1>1, <1>2, <1>3, <2>11 DEF LedgerTellsDrops, LedgerInv, PhaseInv, TypeOK
  <2> QED
    BY <2>4, <2>5, <2>7, <2>8, <2>9, <2>10, <2>12, <2>13 DEF StoreInv
<1>4. CASE /\ faults < MaxFaults /\ faults' = faults + 1
           /\ daemonPc' = "failed"
           /\ UNCHANGED <<txn, db, verdict>>
  <2>1. faults' \in 0..MaxFaults /\ faults' # 0
    BY <1>1, <1>4, TickStoreAssumption DEF TypeOK
  <2>2. TypeOK'
    BY <1>1, <1>2, <1>4, <2>1 DEF TypeOK
  <2>3. OrderInv' /\ PhaseInv' /\ CountInv'
    BY <1>1, <1>2, <1>4 DEF OrderInv, PhaseInv, CountInv, Stored
  <2>4. CleanInv' /\ LedgerInv' /\ OnlyTrueOK' /\ CleanStopIsOK' /\ LedgerTellsDrops'
    BY <1>2, <1>4, <2>1
       DEF CleanInv, LedgerInv, OnlyTrueOK, CleanStopIsOK, LedgerTellsDrops
  <2> QED
    BY <2>2, <2>3, <2>4 DEF StoreInv
<1> QED
  BY <1>3, <1>4 DEF Close

LEMMA KillKeeps ==
  ASSUME StoreInv, Kill
  PROVE  StoreInv'
<1>1. /\ TypeOK /\ OrderInv /\ PhaseInv /\ CountInv /\ CleanInv
      /\ LedgerInv /\ OnlyTrueOK /\ CleanStopIsOK /\ LedgerTellsDrops
  BY DEF StoreInv
<1>2. /\ daemonPc' = "killed" /\ writerPc' = "cancelled" /\ verdict = "none"
      /\ queue' = <<>> /\ pending' = {} /\ txn' = Nothing
      /\ UNCHANGED <<rows, db, written, dropped, verdict, faults, timedOut>>
      /\ Ids' = Ids
  BY <1>1 DEF Kill, PhaseInv, Ids
<1>3. Nothing \in Transaction /\ Nothing.rows = {} /\ Nothing.dropped_total = 0
  BY DEF Nothing, Transaction
<1>4. /\ queue' \in Seq(Nat \cup {SENTINEL}) /\ Len(queue') = 0 /\ DOMAIN queue' = {}
      /\ QIds(queue') = {}
  BY <1>2, NoIds
<1>5. TypeOK'
  BY <1>1, <1>2, <1>3, <1>4, TickStoreAssumption DEF TypeOK
<1>6. OrderInv'
  BY <1>2, <1>4 DEF OrderInv, Ordered
<1>7. PhaseInv' /\ CountInv'
  BY <1>1, <1>2 DEF PhaseInv, CountInv
<1>8. CleanInv' /\ LedgerInv' /\ OnlyTrueOK' /\ CleanStopIsOK' /\ LedgerTellsDrops'
  BY <1>1, <1>2, <1>3
     DEF CleanInv, LedgerInv, OnlyTrueOK, CleanStopIsOK, LedgerTellsDrops
<1> QED
  BY <1>5, <1>6, <1>7, <1>8 DEF StoreInv

\* Stop, WaitForWriter and stuttering touch no row.
LEMMA ControlKeeps ==
  ASSUME StoreInv, Stop \/ WaitForWriter \/ UNCHANGED vars
  PROVE  StoreInv'
<1>1. /\ TypeOK /\ OrderInv /\ PhaseInv /\ CountInv /\ CleanInv
      /\ LedgerInv /\ OnlyTrueOK /\ CleanStopIsOK /\ LedgerTellsDrops
  BY DEF StoreInv
<1>2. /\ UNCHANGED <<rows, queue, pending, txn, db, written, dropped, faults, verdict>>
      /\ Ids' = Ids /\ Stored' = Stored
  BY DEF Stop, WaitForWriter, storeVars, vars, Ids, Stored
<1>3. OrderInv' /\ CountInv' /\ OnlyTrueOK'
  BY <1>1, <1>2 DEF OrderInv, CountInv, OnlyTrueOK
<1>4. CASE Stop
  <2>1. daemonPc = "streaming" /\ daemonPc' = "stopping" /\ UNCHANGED <<writerPc, timedOut>>
    BY <1>4 DEF Stop
  <2>2. TypeOK' /\ PhaseInv'
    BY <1>1, <1>2, <2>1 DEF TypeOK, PhaseInv
  <2>3. CleanInv' /\ LedgerInv' /\ CleanStopIsOK' /\ LedgerTellsDrops'
    BY <1>1, <1>2, <2>1 DEF CleanInv, LedgerInv, CleanStopIsOK, LedgerTellsDrops
  <2> QED
    BY <1>3, <2>2, <2>3 DEF StoreInv
<1>5. CASE WaitForWriter
  <2>1. /\ daemonPc = "draining" /\ daemonPc' = "closing"
        /\ \/ writerPc = "done" /\ UNCHANGED <<writerPc, timedOut>>
           \/ writerPc = "run" /\ writerPc' = "cancelled" /\ timedOut' = TRUE
    BY <1>5 DEF WaitForWriter
  <2>2. TypeOK' /\ PhaseInv'
    BY <1>1, <1>2, <2>1 DEF TypeOK, PhaseInv
  <2>3. CleanInv' /\ LedgerInv' /\ CleanStopIsOK' /\ LedgerTellsDrops'
    BY <1>1, <1>2, <2>1 DEF CleanInv, LedgerInv, CleanStopIsOK, LedgerTellsDrops
  <2> QED
    BY <1>3, <2>2, <2>3 DEF StoreInv
<1>7. CASE UNCHANGED vars
  BY <1>1, <1>2, <1>3, <1>7
     DEF vars, StoreInv, TypeOK, PhaseInv, CleanInv, LedgerInv, CleanStopIsOK,
         LedgerTellsDrops
<1> QED
  BY <1>4, <1>5, <1>7

----------------------------------------------------------------------------

LEMMA InitStoreInv == Init => StoreInv
<1> SUFFICES ASSUME Init PROVE StoreInv
  OBVIOUS
<1>1. Ids = {} /\ Nothing \in Transaction
      /\ Nothing.rows = {} /\ Nothing.dropped_total = 0 /\ Cardinality({}) = 0
  BY FS_EmptySet DEF Init, Ids, Nothing, Transaction
<1>2. QIds(queue) = {} /\ DOMAIN queue = {} /\ Len(queue) = 0
  BY NoIds DEF Init
<1>3. TypeOK
  <2>1. rows = <<>> /\ <<>> \in Seq(Kind)
    BY DEF Init
  <2>2. queue = <<>> /\ <<>> \in Seq(Nat \cup {SENTINEL}) /\ Len(queue) <= QueueMax
    BY <1>2, TickStoreAssumption DEF Init
  <2>3. faults \in 0..MaxFaults
    BY TickStoreAssumption DEF Init
  <2> QED
    BY <1>1, <2>1, <2>2, <2>3 DEF Init, TypeOK
<1>4. OrderInv /\ PhaseInv /\ CountInv
  BY <1>1, <1>2 DEF Init, OrderInv, PhaseInv, CountInv, Stored, Ordered, NoSentinel
<1>5. CleanInv /\ LedgerInv /\ OnlyTrueOK /\ CleanStopIsOK /\ LedgerTellsDrops
  BY <1>1, <1>2 DEF Init, CleanInv, LedgerInv, OnlyTrueOK, CleanStopIsOK, LedgerTellsDrops
<1> QED
  BY <1>3, <1>4, <1>5 DEF StoreInv

LEMMA NextStoreInv == StoreInv /\ [Next]_vars => StoreInv'
<1> SUFFICES ASSUME StoreInv, [Next]_vars PROVE StoreInv'
  OBVIOUS
<1>1. ASSUME NEW kind \in Kind, Receive(kind) PROVE StoreInv'
  BY <1>1, ReceiveKeeps
<1>2. CASE Take \/ FlushTick
  <2>1. PICK M, P : WriterStep(M, P)
    BY <1>2, WriterSteps DEF StoreInv
  <2> QED
    BY <2>1, WriterKeeps
<1>3. CASE PutSentinel
  BY <1>3, PutSentinelKeeps
<1>4. CASE Close
  BY <1>4, CloseKeeps
<1>5. CASE Kill
  BY <1>5, KillKeeps
<1>6. CASE Stop \/ WaitForWriter \/ UNCHANGED vars
  BY <1>6, ControlKeeps
<1> QED
  BY <1>1, <1>2, <1>3, <1>4, <1>5, <1>6 DEF Next

LEMMA StoreInvHolds == Spec => []StoreInv
BY InitStoreInv, NextStoreInv, PTL DEF Spec

\* The store's variables keep their types and the queue its bound.
THEOREM TypeCorrect == Spec => []TypeOK
<1>1. StoreInv => TypeOK
  BY DEF StoreInv
<1> QED
  BY StoreInvHolds, <1>1, PTL

\* "OK" at the end of run_feed_daemon means that every received row is in the
\* corpus: stats never counts more than is committed, and no drop is forgotten.
THEOREM VerdictIsSound == Spec => []OnlyTrueOK
<1>1. StoreInv => OnlyTrueOK
  BY DEF StoreInv
<1> QED
  BY StoreInvHolds, <1>1, PTL

\* A stop without error, overflow or time-out keeps every row and says "OK".
THEOREM VerdictIsComplete == Spec => []CleanStopIsOK
<1>1. StoreInv => CleanStopIsOK
  BY DEF StoreInv
<1> QED
  BY StoreInvHolds, <1>1, PTL

\* Until something fails or overflows, the corpus is a beginning of the stream.
THEOREM PrefixIsKept == Spec => []OnlyTailLost
<1>1. StoreInv => OnlyTailLost
  BY DEF StoreInv, CleanInv, OnlyTailLost
<1> QED
  BY StoreInvHolds, <1>1, PTL

\* Without an error or a time-out, the ledger of a closed corpus tells of every
\* drop: a row is only dropped while others are queued before it.
THEOREM LedgerIsComplete == Spec => []LedgerTellsDrops
<1>1. StoreInv => LedgerTellsDrops
  BY DEF StoreInv
<1> QED
  BY StoreInvHolds, <1>1, PTL

\* Rows reach the database in the order of their arrival, across errors too.
THEOREM OrderIsKept == Spec => TablesInOrder
<1>1. StoreInv /\ [Next]_vars =>
        [\A new \in (db.rows \cup txn.rows)' \ (db.rows \cup txn.rows) :
           \A old \in db.rows \cup txn.rows : old < new]_vars
  <2> SUFFICES ASSUME StoreInv, [Next]_vars,
                      NEW new \in (db.rows \cup txn.rows)' \ (db.rows \cup txn.rows),
                      NEW old \in db.rows \cup txn.rows
               PROVE  old < new
    OBVIOUS
  <2>1. CASE Take \/ FlushTick
    <3>1. PICK M, P : WriterStep(M, P)
      BY <2>1, WriterSteps DEF StoreInv
    <3>2. P = pending \cup M /\ M \subseteq QIds(queue)
      BY <3>1 DEF WriterStep
    <3>3. \A x \in Stored, y \in P : x < y
      BY <3>2 DEF StoreInv, OrderInv
    <3>4. (FlushEffect(P) \/ StoreUnchanged)
      BY <3>1 DEF WriterStep
    <3>5. new \in P
      BY <3>4 DEF FlushEffect, Commits, Fails, StoreUnchanged, Stored
    <3> QED
      BY <3>3, <3>5 DEF Stored
  <2>2. CASE Close
    BY <2>2 DEF Close, Nothing
  <2>3. CASE Kill
    BY <2>3 DEF Kill, Nothing
  <2>4. CASE UNCHANGED <<db, txn>>
    BY <2>4
  <2> QED
    BY <2>1, <2>2, <2>3, <2>4
       DEF Next, Receive, Stop, PutSentinel, WaitForWriter, storeVars, vars
<1> QED
  BY StoreInvHolds, <1>1, PTL DEF Spec, TablesInOrder
=============================================================================
