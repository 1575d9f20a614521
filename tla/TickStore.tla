----------------------------- MODULE TickStore -----------------------------
(***************************************************************************)
(* The tick corpus of the feed daemon: stream callbacks put rows on a      *)
(* bounded queue, a writer task batches them into SQLite, and stopping the *)
(* daemon drains the queue and judges the run.                             *)
(*                                                                         *)
(* A row is known by its number of arrival; rows[n] is its kind.  _flush   *)
(* runs without an await, so it is one step: either it commits, or an      *)
(* SQLite error stops it at one of its statements.                         *)
(* SQLite may roll the whole open transaction back on an error or leave it *)
(* open, and the code does neither roll back nor retry.                    *)
(***************************************************************************)
EXTENDS Integers, Sequences, FiniteSets

CONSTANTS
  KindOrder,    \* the tables in the order _flush writes them
  SENTINEL,     \* the None that close() puts on the queue
  QueueMax, BatchSize,
  SlowDisk,     \* may draining take longer than close() waits?
  MaxRows,      \* bound: rows received
  MaxFaults     \* bound: SQLite errors

ASSUME TickStoreAssumption ==
  /\ KindOrder \in Seq(STRING)
  /\ QueueMax \in Nat \ {0} /\ BatchSize \in Nat \ {0}
  /\ SlowDisk \in BOOLEAN
  /\ MaxRows \in Nat /\ MaxFaults \in Nat
  /\ SENTINEL \notin Nat

VARIABLES
  rows,       \* history: every received row; its length is the sum of _counts
  queue,
  pending,    \* rows the writer has taken and not flushed
  txn,        \* rows executed in the open transaction, and its newest dropped_total
  db,         \* what is committed
  written,    \* stats.trades + stats.quotes + stats.bars + stats.statuses
  dropped,    \* stats.dropped
  writerPc, daemonPc,
  verdict,    \* what run_feed_daemon prints
  faults, timedOut

vars == <<rows, queue, pending, txn, db, written, dropped, writerPc, daemonPc,
          verdict, faults, timedOut>>

----------------------------------------------------------------------------

Kind == {KindOrder[i] : i \in DOMAIN KindOrder}
Ids == 1..Len(rows)
Transaction == [rows : SUBSET Nat, dropped_total : Nat]
Nothing == [rows |-> {}, dropped_total |-> 0]
OfKind(S, i) == {n \in S : rows[n] = KindOrder[i]}
Running == daemonPc = "streaming"

Init ==
  /\ rows = <<>> /\ queue = <<>> /\ pending = {}
  /\ txn = Nothing /\ db = Nothing
  /\ written = 0 /\ dropped = 0
  /\ writerPc = "run" /\ daemonPc = "streaming" /\ verdict = "none"
  /\ faults = 0 /\ timedOut = FALSE

\* mutant: the queue takes one row too many
QueueOverfull == Len(queue) > QueueMax
QueueFull == Len(queue) >= QueueMax

\* _on_trade and its siblings: enqueue_* never waits; a full queue drops.
Receive(kind) ==
  /\ daemonPc = "streaming" /\ Len(rows) < MaxRows
  /\ rows' = Append(rows, kind)
  /\ IF QueueFull
       THEN dropped' = dropped + 1 /\ UNCHANGED queue
       ELSE queue' = Append(queue, Len(rows) + 1) /\ UNCHANGED dropped
  /\ UNCHANGED <<pending, txn, db, written, writerPc, daemonPc, verdict, faults, timedOut>>

----------------------------------------------------------------------------
(* TickStore._flush of the rows P.                                         *)

\* The open transaction with the rows E executed and a ledger row written.
Executed(E, ledger) ==
  [rows |-> txn.rows \cup E,
   dropped_total |-> IF ledger THEN dropped ELSE txn.dropped_total]

FlushCommits(P) ==
  /\ db' = [rows |-> db.rows \cup txn.rows \cup P, dropped_total |-> dropped]
  /\ txn' = Nothing
  /\ written' = written + Cardinality(P)
  /\ UNCHANGED <<dropped, faults>>

\* The error hits the rows of table i: earlier tables are executed and
\* cleared, table i up to some row; it and the later ones count as dropped.
\* After the last table it hits the ledger row or the commit.
ErrorAt(P, i, partial) ==
  LET before == UNION {OfKind(P, j) : j \in 1..(i - 1)}
  IN  [executed |-> before \cup partial, lost |-> Cardinality(P \ before)]

\* After an error the transaction stays open or has been rolled back.
LeftOpen(E, ledger) == \/ txn' = Executed(E, ledger)
                       \/ txn' = Nothing

FlushFails(P) ==
  /\ faults < MaxFaults /\ faults' = faults + 1
  /\ \/ \E i \in DOMAIN KindOrder : \E cut \in OfKind(P, i) :
          LET error == ErrorAt(P, i, {n \in OfKind(P, i) : n < cut})
          IN  dropped' = dropped + error.lost /\ LeftOpen(error.executed, FALSE)
     \/ \E ledger \in BOOLEAN :
          LeftOpen(P, ledger) /\ UNCHANGED dropped
  /\ UNCHANGED <<db, written>>

Flush(P) ==
  IF P = {} THEN UNCHANGED <<txn, db, written, dropped, faults>>
  ELSE FlushCommits(P) \/ FlushFails(P)

----------------------------------------------------------------------------
(* TickStore.run.  The flush deadline may have passed at any iteration.    *)

LastFlush == Flush(pending)

TakeSentinel ==
  /\ Head(queue) = SENTINEL
  /\ LastFlush
  /\ pending' = {} /\ writerPc' = "done"

\* mutant: a full batch writes the first table only
FirstTable(P) == OfKind(P, 1)
Flushed(P) == P

TakeRow ==
  LET P == pending \cup {Head(queue)}
      last == ~Running /\ Tail(queue) = <<>>
  IN  /\ Head(queue) # SENTINEL
      /\ \E late \in BOOLEAN :
           IF Cardinality(P) >= BatchSize \/ late \/ last
             THEN Flush(Flushed(P)) /\ pending' = P \ Flushed(P)
             ELSE pending' = P /\ UNCHANGED <<txn, db, written, dropped, faults>>
      /\ writerPc' = IF last THEN "done" ELSE "run"

Take ==
  /\ writerPc = "run" /\ queue # <<>>
  /\ queue' = Tail(queue)
  /\ TakeSentinel \/ TakeRow
  /\ UNCHANGED <<rows, daemonPc, verdict, timedOut>>

FlushTick ==
  LET last == ~Running /\ queue = <<>>
  IN  /\ writerPc = "run" /\ (pending # {} \/ last)
      /\ Flush(pending)
      /\ pending' = {}
      /\ writerPc' = IF last THEN "done" ELSE "run"
      /\ UNCHANGED <<rows, queue, daemonPc, verdict, timedOut>>

----------------------------------------------------------------------------
(* FeedDaemon.stop, TickStore.close and the end of run_feed_daemon.        *)

storeVars == <<rows, pending, txn, db, written, dropped, faults>>

\* The stream is cancelled: no callback runs after this.
Stop ==
  /\ daemonPc = "streaming"
  /\ daemonPc' = "stopping"
  /\ UNCHANGED <<storeVars, queue, writerPc, verdict, timedOut>>

PutSentinel ==
  /\ daemonPc = "stopping" /\ ~QueueFull
  /\ queue' = Append(queue, SENTINEL)
  /\ daemonPc' = "draining"
  /\ UNCHANGED <<storeVars, writerPc, verdict, timedOut>>

\* mutant: waits for an empty queue as well
JoinsQueue ==
  /\ daemonPc = "draining" /\ writerPc = "done" /\ queue = <<>>
  /\ daemonPc' = "closing"
  /\ UNCHANGED <<storeVars, queue, writerPc, timedOut, verdict>>

\* wait_for(worker, 30 s): over the time the worker is cancelled.
WaitForWriter ==
  /\ daemonPc = "draining"
  /\ \/ writerPc = "done" /\ UNCHANGED <<writerPc, timedOut>>
     \/ SlowDisk /\ writerPc = "run" /\ writerPc' = "cancelled" /\ timedOut' = TRUE
  /\ daemonPc' = "closing"
  /\ UNCHANGED <<storeVars, queue, verdict>>

\* mutant: the verdict looks at the drops only
VerdictOfDrops == IF dropped > 0 THEN "dropped" ELSE "OK"
Verdict == IF dropped > 0 THEN "dropped"
           ELSE IF Len(rows) > 0 /\ written # Len(rows) THEN "mismatch"
           ELSE "OK"

Close ==
  /\ daemonPc = "closing"
  /\ \/ /\ db' = [rows |-> db.rows \cup txn.rows,
                  dropped_total |-> IF txn.dropped_total > db.dropped_total
                                    THEN txn.dropped_total ELSE db.dropped_total]
        /\ txn' = Nothing
        /\ daemonPc' = "closed" /\ verdict' = Verdict
        /\ UNCHANGED faults
     \/ /\ faults < MaxFaults /\ faults' = faults + 1
        /\ daemonPc' = "failed"
        /\ UNCHANGED <<txn, db, verdict>>
  /\ UNCHANGED <<rows, queue, pending, written, dropped, writerPc, timedOut>>

\* The process is killed: everything but the committed rows is gone.
Kill ==
  /\ daemonPc \notin {"closed", "failed", "killed"}
  /\ daemonPc' = "killed" /\ writerPc' = "cancelled"
  /\ queue' = <<>> /\ pending' = {} /\ txn' = Nothing
  /\ UNCHANGED <<rows, db, written, dropped, verdict, faults, timedOut>>

Next ==
  \/ \E kind \in Kind : Receive(kind)
  \/ Take \/ FlushTick
  \/ Stop \/ PutSentinel \/ WaitForWriter \/ Close
  \/ Kill

Spec == Init /\ [][Next]_vars

\* The event loop runs a task that can run.
FairSpec == Spec /\ WF_vars(Take) /\ WF_vars(FlushTick)
                 /\ WF_vars(PutSentinel) /\ WF_vars(WaitForWriter) /\ WF_vars(Close)

----------------------------------------------------------------------------
(* What the store promises.                                                *)

TypeOK ==
  /\ rows \in Seq(Kind)
  /\ queue \in Seq(Nat \cup {SENTINEL}) /\ Len(queue) <= QueueMax
  /\ pending \subseteq Ids
  /\ txn \in Transaction /\ db \in Transaction
  /\ txn.rows \subseteq Ids /\ db.rows \subseteq Ids
  /\ written \in Nat /\ dropped \in Nat
  /\ writerPc \in {"run", "done", "cancelled"}
  /\ daemonPc \in {"streaming", "stopping", "draining", "closing", "closed", "failed", "killed"}
  /\ verdict \in {"none", "dropped", "mismatch", "OK"}
  /\ faults \in 0..MaxFaults /\ timedOut \in BOOLEAN

\* "OK" is never printed over an incomplete corpus: every row the daemon
\* received is then committed, whatever failed, overflowed or timed out.
OnlyTrueOK == verdict = "OK" => db.rows = Ids

\* When nothing failed, overflowed or timed out, stopping keeps every row and
\* says so, whatever was still queued or batched.
CleanStopIsOK ==
  daemonPc = "closed" /\ faults = 0 /\ dropped = 0 /\ ~timedOut => verdict = "OK"

\* As long as nothing failed or overflowed, what is committed is an unbroken
\* beginning of what was received: a kill loses only the newest rows.
OnlyTailLost ==
  faults = 0 /\ dropped = 0 => \A n \in db.rows : 1..n \subseteq db.rows

\* A row is dropped only while others are queued, and the flush that writes
\* those records the drop: unless an error or the time-out comes between, the
\* ledger of a closed corpus tells of all its drops, those after the stream's
\* last flush included.
LedgerTellsDrops ==
  daemonPc = "closed" /\ faults = 0 /\ ~timedOut => db.dropped_total = dropped

\* Rows reach their table in the order they arrived and once each, even when
\* a failed flush left some of them in the open transaction.
TablesInOrder ==
  [][\A new \in (db.rows \cup txn.rows)' \ (db.rows \cup txn.rows) :
       \A old \in db.rows \cup txn.rows : old < new]_vars

\* Stopping the daemon ends: nobody waits forever for a queue slot or the writer.
StopEnds == daemonPc = "stopping" ~> daemonPc \in {"closed", "failed", "killed"}

=============================================================================
