----------------------------- MODULE LiveOrders -----------------------------
(***************************************************************************)
(* The live order path of main.py and execution/alpaca_orders.py: two      *)
(* asyncio tasks share one broker account.                                 *)
(*                                                                         *)
(*   AlpacaBars    a closed 5-minute bar may end in _place_order.  Bars    *)
(*                 are awaited one after another on the websocket's read   *)
(*                 loop, so at most one entry is being placed at a time.   *)
(*   DailyRoutine  runs _run_flatten once per day inside its window.       *)
(*                                                                         *)
(* Every await of an HTTP call is an action of its own: between the answer *)
(* and the next request the other task, the market and the clock may move. *)
(* Any call may fail (timeout, HTTP error), before or after it took effect *)
(* at the broker, and so may the write of a row (SQLite's lock): at most   *)
(* MaxFaults of them do.                                                   *)
(***************************************************************************)
EXTENDS Brokerage

CONSTANTS
  Equity,         \* account equity, in price units
  MaxRequest,     \* bound: largest quantity size_from_risk asks for
  CloseAttempts,  \* max_retries of _close_position_with_retry
  SlowRelease,    \* may shares stay held longer than all the attempts last?
  MaxFaults,      \* bound: failing HTTP calls and failing writes of a row
  MaxRestarts,    \* bound: crashes of the process
  MaxDay          \* bound: trading days

ASSUME LiveOrdersAssumption ==
  /\ Equity \in Nat \ {0}
  /\ MaxRequest \in 1..MaxQty
  /\ CloseAttempts \in Nat \ {0}
  /\ SlowRelease \in BOOLEAN
  /\ MaxFaults \in Nat /\ MaxRestarts \in Nat
  /\ MaxDay \in Nat \ {0}

VARIABLES
  day, phase,        \* the clock: trading day and part of the day
  faults, restarts,  \* failures so far
  \* --- AlpacaBars: _evaluate_and_execute / _place_order
  entryPc, want,     \* where the coroutine is; the decision it executes
  positions,         \* the lots behind the `positions` it was told of
  equity_cache,      \* AlpacaOrderClient._equity_cache; 0 is None
  size,              \* check.quantity
  result,            \* OrderResult: success, and the id the broker gave (0: none)
  \* --- DailyRoutine: _run_flatten / close_all_positions
  routinePc, flattenDay,
  flatten_done_for,  \* 0 is None
  closing,           \* per ticker, its _close_position_with_retry
  tries,             \* ... and the attempts it has made
  errors,            \* result["errors"]
  \* --- history
  row,               \* per order, its row in the orders table
  view,              \* the account when _place_order read the positions
  trail,             \* per order, the view it was decided on
  mustClose,         \* lots held when the flatten last read the positions
  blind              \* this flatten took an API error for "no positions"

orderVars   == <<orders, sent, market>>
clockVars   == <<day, phase>>
failureVars == <<faults, restarts>>
entryVars   == <<entryPc, want, positions, equity_cache, size, result,
                 row, view, trail>>
routineVars == <<routinePc, flattenDay, flatten_done_for, closing, tries,
                 errors, mustClose, blind>>
vars == <<orderVars, clockVars, failureVars, entryVars, routineVars>>

Phases    == {"session", "late", "after", "night"}
EntryPc   == {"idle", "positions", "equity", "submit", "log"}
RoutinePc == {"asleep", "before", "cancel", "wait", "list", "close"}

View   == [resting : SUBSET OrderId, blind : BOOLEAN]
NoView == [resting |-> {}, blind |-> FALSE]
NoWant == [ticker |-> NONE, side |-> "buy"]
NoResult == [success |-> FALSE, id |-> 0]

InFlattenWindow == phase \in {"late", "after"}  \* 15:55 <= now < 16:30

ClockTypeOK ==
  /\ day \in 1..MaxDay /\ phase \in Phases
  /\ faults \in 0..MaxFaults /\ restarts \in 0..MaxRestarts

EntryTypeOK ==
  /\ entryPc \in EntryPc
  /\ want \in [ticker : Ticker \cup {NONE}, side : Side]
  /\ entryPc # "idle" => want.ticker \in Ticker
  /\ entryPc \in {"positions", "equity", "submit"} => sent < MaxOrders
  /\ positions \in SUBSET OrderId
  /\ equity_cache \in {0, Equity}
  /\ size \in 0..MaxQty /\ (entryPc = "submit" => size # 0)
  /\ result \in [success : BOOLEAN, id : 0..MaxOrders]
  /\ row \in [OrderId -> {"none", "submitted", "failed"}]
  /\ view \in View /\ trail \in [OrderId -> View]

RoutineTypeOK ==
  /\ routinePc \in RoutinePc
  /\ flattenDay \in 0..MaxDay /\ flatten_done_for \in 0..MaxDay
  /\ closing \in [Ticker -> {"none", "trying", "ok", "failed"}]
  /\ tries \in [Ticker -> 0..CloseAttempts]
  /\ \A t \in Ticker : closing[t] = "trying" => tries[t] < CloseAttempts
  /\ errors \in SUBSET (Ticker \cup {"cancel", "list"})
  /\ mustClose \in SUBSET OrderId /\ blind \in BOOLEAN

TypeOK == BrokerageTypeOK /\ ClockTypeOK /\ EntryTypeOK /\ RoutineTypeOK

Init ==
  /\ BrokerageInit
  /\ day = 1 /\ phase = "session"
  /\ faults = 0 /\ restarts = 0
  /\ entryPc = "idle" /\ want = NoWant /\ positions = {} /\ equity_cache = 0
  /\ size = 0 /\ result = NoResult
  /\ row = [i \in OrderId |-> "none"]
  /\ view = NoView /\ trail = [i \in OrderId |-> NoView]
  /\ routinePc = "asleep" /\ flattenDay = 0 /\ flatten_done_for = 0
  /\ closing = [t \in Ticker |-> "none"] /\ tries = [t \in Ticker |-> 0]
  /\ errors = {} /\ mustClose = {} /\ blind = FALSE

Fault == faults < MaxFaults /\ faults' = faults + 1 /\ UNCHANGED restarts
NoFault == UNCHANGED failureVars

-----------------------------------------------------------------------------
(* AlpacaBars: placing an entry.                                           *)

\* The coroutine returns (or an exception leaves it, which the aggregator
\* logs and swallows); its local variables are gone.
EntryEnds ==
  /\ entryPc' = "idle"
  /\ want' = NoWant /\ positions' = {} /\ size' = 0 /\ result' = NoResult
  /\ view' = NoView

\* A bar in a regular-session window yields an actionable decision. The bar
\* may reach us at any hour: the window's last bar is emitted by the next one.
Signal(t, side) ==
  /\ entryPc = "idle"
  /\ sent < MaxOrders
  /\ want' = [ticker |-> t, side |-> side]
  /\ entryPc' = "positions"
  /\ NoFault
  /\ UNCHANGED <<orderVars, clockVars, positions, equity_cache, size, result,
                 row, view, trail, routineVars>>

OppositeHeld(lots) ==  \* mutant: only a flip is refused
  \E i \in lots : orders[i].ticker = want.ticker /\ orders[i].side # want.side

\* Any position on the ticker, same side or opposite, ends the attempt.
AlreadyHeld(lots) == want.ticker \in TickersOf(lots)

\* get_open_positions answers [] when the call fails.
ReadPositions ==
  /\ entryPc = "positions"
  /\ \E lots \in {HeldIds, {}} :
       /\ \/ lots = HeldIds /\ NoFault
          \/ lots = {} /\ Fault
       /\ IF AlreadyHeld(lots)
          THEN EntryEnds
          ELSE /\ entryPc' = "equity"
               /\ positions' = lots
               /\ view' = [resting |-> RestingIds, blind |-> lots # HeldIds]
               /\ UNCHANGED <<want, size, result>>
  /\ UNCHANGED <<orderVars, clockVars, equity_cache, row, trail, routineVars>>

\* get_account_equity: the cached value while it is fresh or when the call
\* fails (0 if there is none), else the account's.
EquityAnswer(equity) ==
  /\ \/ equity > 0 /\ NoFault
     \/ equity = equity_cache /\ Fault
  /\ equity_cache' = equity

\* The risk checks run on the positions read before.
GetEquityAndValidate ==
  /\ entryPc = "equity"
  /\ \E equity \in {Equity, equity_cache} :
       /\ EquityAnswer(equity)
       /\ \/ /\ equity = 0
             /\ EntryEnds
          \/ /\ equity > 0
             /\ \E requested \in 1..MaxRequest :
                  LET check == validate_order(want.ticker, want.side, requested,
                                              1, equity, PositionsOf(positions))
                  IN  IF check.approved
                      THEN /\ size' = check.quantity
                           /\ entryPc' = "submit"
                           /\ UNCHANGED <<want, positions, result, view>>
                      ELSE EntryEnds
  /\ UNCHANGED <<orderVars, clockVars, row, trail, routineVars>>

\* The take profit rounds to the limit price: ValueError before any request.
SubmitRaises ==
  /\ entryPc = "submit"
  /\ EntryEnds
  /\ NoFault
  /\ UNCHANGED <<orderVars, clockVars, equity_cache, row, trail, routineVars>>

\* POST /v2/orders accepted; the answer may still be lost.
SubmitAccepted ==
  /\ entryPc = "submit"
  /\ Accept(want.ticker, want.side, size)
  /\ \/ NoFault /\ result' = [success |-> TRUE, id |-> sent + 1]
     \/ Fault /\ result' = [success |-> FALSE, id |-> sent + 1]
  /\ trail' = [trail EXCEPT ![sent + 1] = view]
  /\ entryPc' = "log"
  /\ UNCHANGED <<clockVars, want, positions, equity_cache, size, row, view, routineVars>>

SubmitRefused ==
  /\ entryPc = "submit"
  /\ \/ ~Acceptable(want.ticker, want.side) /\ NoFault
     \/ Fault
  /\ result' = NoResult
  /\ entryPc' = "log"
  /\ UNCHANGED <<orderVars, clockVars, want, positions, equity_cache, size, row,
                 view, trail, routineVars>>

ResultOfLast ==  \* mutant: the row of the last order is written, whoever was answered
               [i \in OrderId |->
                 IF i # sent THEN row[i]
                 ELSE IF result.success THEN "submitted" ELSE "failed"]

\* _log_order_result writes the row of the order; id 0 is a refused order,
\* whose row concerns none. Nothing guards the INSERT: one that raises (the
\* database is locked) leaves the coroutine, and no row.
ResultRow == [i \in OrderId |->
                IF i # result.id THEN row[i]
                ELSE IF result.success THEN "submitted" ELSE "failed"]

LogResult ==
  /\ entryPc = "log"
  /\ \/ row' = ResultRow /\ NoFault
     \/ UNCHANGED row /\ Fault
  /\ EntryEnds
  /\ UNCHANGED <<orderVars, clockVars, equity_cache, trail, routineVars>>

PlaceOrder == \/ ReadPositions \/ GetEquityAndValidate \/ SubmitRaises
              \/ SubmitAccepted \/ SubmitRefused \/ LogResult

-----------------------------------------------------------------------------
(* DailyRoutine: the flatten.                                              *)

\* The loop's clock is read once per iteration; the awaits of the steps
\* before the flatten pass between this action and the next.
WakeForFlatten ==
  /\ routinePc = "asleep"
  /\ InFlattenWindow
  /\ flatten_done_for # day
  /\ routinePc' = "before"
  /\ flattenDay' = day
  /\ closing' = [t \in Ticker |-> "none"]
  /\ errors' = {} /\ mustClose' = {} /\ blind' = FALSE
  /\ NoFault
  /\ UNCHANGED <<orderVars, clockVars, entryVars, flatten_done_for, tries>>

FlattenForgets ==  \* mutant: the day is not marked done
  routinePc' = "asleep" /\ UNCHANGED flatten_done_for

\* _run_flatten returns without raising: the day is done.
FlattenReturns ==
  /\ routinePc' = "asleep"
  /\ flatten_done_for' = flattenDay

ReadBeforeFlatten ==
  /\ routinePc = "before"
  /\ mustClose' = HeldIds
  /\ \/ /\ HeldIds # {}
        /\ routinePc' = "cancel"
        /\ NoFault
        /\ UNCHANGED <<flatten_done_for, blind>>
     \/ /\ HeldIds = {}
        /\ FlattenReturns
        /\ NoFault
        /\ UNCHANGED blind
     \/ /\ FlattenReturns
        /\ Fault
        /\ blind' = TRUE
  /\ UNCHANGED <<orderVars, clockVars, entryVars, flattenDay, closing, tries, errors>>

\* DELETE /v2/orders. A failed call, or failed items of a multi-status
\* answer, leave any part of the orders uncancelled.
CancelAllOrders ==
  /\ routinePc = "cancel"
  /\ LET all == {i \in OrderId : HasOrder(i)}
     IN  \/ /\ CancelOrders(all)
            /\ routinePc' = IF all = {} THEN "list" ELSE "wait"
            /\ NoFault
            /\ UNCHANGED errors
         \/ /\ \E done \in SUBSET all : CancelOrders(done)
            /\ routinePc' \in {"wait", "list"}
            /\ Fault
            /\ errors' = errors \cup {"cancel"}
  /\ UNCHANGED <<clockVars, entryVars, flattenDay, flatten_done_for, closing,
                 tries, mustClose, blind>>

\* _wait_for_release ends when no long position is held, when a poll fails
\* or after its time: in any state of the account.
WaitForRelease ==
  /\ routinePc = "wait"
  /\ routinePc' = "list"
  /\ NoFault
  /\ UNCHANGED <<orderVars, clockVars, entryVars, flattenDay, flatten_done_for,
                 closing, tries, errors, mustClose, blind>>

LongTickers ==  \* mutant: shorts are forgotten
  {orders[i].ticker : i \in {j \in HeldIds : orders[j].side = "buy"}}
ToClose == TickersOf(HeldIds)

ListPositions ==
  /\ routinePc = "list"
  /\ mustClose' = HeldIds
  /\ \/ /\ HeldIds = {}
        /\ FlattenReturns
        /\ NoFault
        /\ UNCHANGED <<closing, tries, errors>>
     \/ /\ HeldIds # {}
        /\ routinePc' = "close"
        /\ closing' = [t \in Ticker |-> IF t \in ToClose
                                        THEN "trying" ELSE "none"]
        /\ tries' = [t \in Ticker |-> 0]
        /\ NoFault
        /\ UNCHANGED <<flatten_done_for, errors>>
     \/ /\ FlattenReturns
        /\ Fault
        /\ errors' = errors \cup {"list"}
        /\ UNCHANGED <<closing, tries>>
  /\ UNCHANGED <<orderVars, clockVars, entryVars, flattenDay, blind>>

\* Cancelled legs release their shares before the last attempt, unless the
\* broker is slow; a live leg or a liquidation holds on to them.
StillHeld(t) ==
  \E i \in LotsOf(t) : \/ orders[i].legs = "live"
                       \/ orders[i].st = "closing"
                       \/ SlowRelease /\ orders[i].legs = "releasing"

CloseSucceeds(t) ==
  /\ LotsOf(t) # {} /\ ~SharesHeld(t)
  /\ Liquidate(t)
  /\ closing' = [closing EXCEPT ![t] = "ok"]
  /\ NoFault
  /\ UNCHANGED <<tries, errors>>

CloseFailsSilently(t) ==  \* mutant: the failure is not recorded
  /\ closing' = [closing EXCEPT ![t] = "failed"]
  /\ UNCHANGED errors

CloseFails(t) ==
  /\ closing' = [closing EXCEPT ![t] = "failed"]
  /\ errors' = errors \cup {t}

RetryLeftOffByOne(t) == tries[t] < CloseAttempts  \* mutant

RetryLeft(t) == tries[t] + 1 < CloseAttempts

\* HTTP 403, code 40310000: tried again after the backoff.
CloseRefused(t) ==
  /\ SharesHeld(t)
  /\ tries' = [tries EXCEPT ![t] = @ + 1]
  /\ IF RetryLeft(t)
     THEN UNCHANGED <<closing, errors>>
     ELSE StillHeld(t) /\ CloseFails(t)
  /\ NoFault
  /\ UNCHANGED orderVars

\* Nothing left to close (404), or a call that failed.
CloseErrs(t) ==
  /\ CloseFails(t)
  /\ \/ LotsOf(t) = {} /\ NoFault /\ UNCHANGED orderVars
     \/ Fault /\ UNCHANGED orderVars
     \/ Fault /\ LotsOf(t) # {} /\ ~SharesHeld(t) /\ Liquidate(t)
  /\ UNCHANGED tries

ClosePosition(t) ==
  /\ routinePc = "close"
  /\ closing[t] = "trying"
  /\ CloseSucceeds(t) \/ CloseRefused(t) \/ CloseErrs(t)
  /\ UNCHANGED <<clockVars, entryVars, routinePc, flattenDay, flatten_done_for,
                 mustClose, blind>>

AllClosed   == \A t \in Ticker : closing[t] \in {"none", "ok"}  \* mutant
AllReturned == \A t \in Ticker : closing[t] # "trying"

\* asyncio.gather returns; every failure is in errors, and none is raised.
AllGathered ==
  /\ routinePc = "close"
  /\ AllReturned
  /\ FlattenReturns
  /\ NoFault
  /\ UNCHANGED <<orderVars, clockVars, entryVars, flattenDay, closing, tries,
                 errors, mustClose, blind>>

Flatten == \/ ReadBeforeFlatten \/ CancelAllOrders \/ WaitForRelease
           \/ ListPositions \/ AllGathered
           \/ \E t \in Ticker : ClosePosition(t)

-----------------------------------------------------------------------------
(* The process, the clock and the broker.                                  *)

\* The process dies and boots again: nothing of it is persisted but the rows.
Restart ==
  /\ restarts < MaxRestarts
  /\ restarts' = restarts + 1
  /\ EntryEnds
  /\ equity_cache' = 0
  /\ routinePc' = "asleep" /\ flattenDay' = 0 /\ flatten_done_for' = 0
  /\ closing' = [t \in Ticker |-> "none"] /\ tries' = [t \in Ticker |-> 0]
  /\ errors' = {} /\ mustClose' = {} /\ blind' = FALSE
  /\ UNCHANGED <<orderVars, clockVars, faults, row, trail>>

\* Weekdays only. A liquidation, a market order, fills at once in the session;
\* a flatten, which takes a minute at most, does not last until the next one.
Tick ==
  /\ market => \A i \in OrderId : orders[i].st # "closing"
  /\ \/ /\ phase = "session" /\ phase' = "late"
        /\ UNCHANGED <<day, orderVars>>
     \/ /\ phase = "late" /\ phase' = "after"
        /\ market' = FALSE
        /\ ExpireDayOrders
        /\ UNCHANGED <<day, sent>>
     \/ /\ phase = "after" /\ phase' = "night"
        /\ UNCHANGED <<day, orderVars>>
     \/ /\ phase = "night" /\ phase' = "session"
        /\ routinePc = "asleep"
        /\ day < MaxDay
        /\ day' = day + 1
        /\ market' = TRUE
        /\ UNCHANGED <<orders, sent>>
  /\ UNCHANGED <<failureVars, entryVars, routineVars>>

Broker == BrokerStep /\ UNCHANGED <<clockVars, failureVars, entryVars, routineVars>>

Next ==
  \/ \E t \in Ticker, side \in Side : Signal(t, side)
  \/ PlaceOrder
  \/ WakeForFlatten
  \/ Flatten
  \/ Restart
  \/ Tick
  \/ Broker

Spec == Init /\ [][Next]_vars

\* The tasks run on one event loop: a coroutine whose call has returned is
\* resumed. The broker releases the shares of cancelled legs and fills
\* liquidations, which are market orders; time passes.
Idle == UNCHANGED <<clockVars, failureVars, entryVars, routineVars>>
Fairness ==
  /\ WF_vars(PlaceOrder)
  /\ WF_vars(Flatten)
  /\ WF_vars(\E i \in OrderId : ReleaseShares(i) /\ Idle)
  /\ WF_vars(\E i \in OrderId : FillLiquidation(i) /\ Idle)
  /\ WF_vars(Tick)

FairSpec == Spec /\ Fairness

-----------------------------------------------------------------------------
(* Safety.                                                                 *)

\* When the day's flatten is marked done, a lot it found held is gone, is
\* being liquidated, or its ticker is among the logged errors; the one way
\* around is the error answer to get_open_positions that reads as "flat".
\* (main.py _run_flatten, alpaca_orders.py close_all_positions)
Unaccounted(i) ==
  /\ orders[i].st = "open"
  /\ orders[i].ticker \notin errors
  /\ "list" \notin errors
FlattenAccounted ==
  flatten_done_for = day /\ routinePc = "asleep" /\ ~blind
    => \A i \in mustClose : ~Unaccounted(i)

\* Every entry decided while nothing rested and no read failed: then the
\* account, unfilled entries included, is within the total exposure cap. So
\* only an entry that overlaps an unfilled one, or a failed read, can breach
\* it, however reads, fills and submissions interleave.
\* (main.py _place_order, risk.py validate_order check 2)
WorkingIds == {i \in OrderId : Working(i)}
QtyOf(S) == SumFunctionOnSet([i \in OrderId |-> orders[i].qty], S)
CapShares == Equity * MaxTotalExposurePct
Clear(v) == ~v.blind /\ v.resting = {}
Sighted(i) == Clear(trail[i])
ExposureWithinCap ==
  (\A i \in WorkingIds : Sighted(i)) => 100 * QtyOf(WorkingIds) <= CapShares

\* No entry was sent for a ticker on which the account held a lot when the
\* positions were read, unless that read had failed: two lots of a ticker
\* mean that the first was still unfilled then. (main.py _place_order)
PyramidOnlyOverUnfilled ==
  \A i \in WorkingIds : \A j \in 1..(i - 1) :
     orders[j].ticker = orders[i].ticker /\ Working(j)
       => trail[i].blind \/ j \in trail[i].resting

\* Each order that the orders table does not show as submitted, once its
\* coroutine is gone, has cost one failed call, one failed write or one crash.
\* (main.py _place_order, _log_order_result)
Misreported == {i \in 1..sent : row[i] # "submitted"
                               /\ ~(entryPc = "log" /\ result.id = i)}
MisreportedOnlyByFailure ==
  Cardinality(Misreported) <= faults + restarts

(* The inductive invariants behind FlattenAccounted, FlattenOnceADay,      *)
(* PyramidOnlyOverUnfilled, ExposureWithinCap and MisreportedOnlyByFailure. *)

\* While positions are being closed, a lot of the list that is still open is
\* being tried or its ticker is in errors.
BeingClosed(i) == \/ closing[orders[i].ticker] = "trying"
                  \/ orders[i].ticker \in errors
FlattenInv ==
  /\ flattenDay <= day /\ flatten_done_for <= day
  /\ routinePc = "asleep" => flatten_done_for = flattenDay
  /\ \A i \in mustClose : orders[i].st \in {"open", "closing", "exited"}
  /\ routinePc = "close" => \A i \in mustClose : orders[i].st = "open" => BeingClosed(i)
  /\ FlattenAccounted

\* Between the read and the submission, what works on the wanted ticker was
\* resting at the read: nobody else submits.
EntryInv ==
  /\ entryPc \in {"equity", "submit"} =>
       \A j \in WorkingIds : orders[j].ticker = want.ticker
                              => view.blind \/ j \in view.resting
  /\ PyramidOnlyOverUnfilled

\* The orders in S do not offset each other: the broker refuses an entry
\* against what works on its ticker.
OneSided(S) ==
  \A i, j \in S : orders[i].ticker = orders[j].ticker => orders[i].side = orders[j].side

\* The lots an entry was checked against hold, when nothing rested at the read,
\* everything that works until it is accepted; so an order decided on like
\* that is within the cap together with the older ones that still work.
CapInv ==
  /\ OneSided(WorkingIds)
  /\ entryPc \in {"equity", "submit"} =>
       /\ positions \subseteq 1..sent /\ OneSided(positions) /\ ~AlreadyHeld(positions)
       /\ Clear(view) => WorkingIds \subseteq positions
  /\ entryPc = "submit" => 100 * (size + QtyOf(positions)) <= CapShares
  /\ \A i \in WorkingIds :
       Sighted(i) => 100 * QtyOf({j \in WorkingIds : j <= i}) <= CapShares

\* A lost answer costs its failed call before the row that shows it is written,
\* and a write that fails only adds to the cost.
Unanswered == {i \in 1..sent : entryPc = "log" /\ result.id = i /\ ~result.success}
ReportInv == Cardinality(Misreported \cup Unanswered) <= faults + restarts

-----------------------------------------------------------------------------
(* Action properties.                                                      *)

\* A flatten is begun at most once a day by a process, however it ends: only a
\* crash, which forgets flatten_done_for, lets the account be swept again.
\* (main.py _daily_routine_loop)
FlattenOnceADay ==
  [][routinePc = "asleep" /\ routinePc' # "asleep" => flattenDay < day]_vars

(***************************************************************************)
(* Order path, broker, flatten and crashes together keep to the life of an *)
(* order: a row is written once, for the order whose answer it is, before  *)
(* another order is sent; each row that does not show an accepted order as *)
(* submitted has a lost answer, a failed write or a crash of its own; and  *)
(* neither cancels nor liquidations bring an order back (main.py           *)
(* _place_order, _log_order_result, _run_flatten; alpaca_orders.py).       *)
(***************************************************************************)
LifeOf(st) == CASE st = "resting" -> "resting"
                [] st \in {"open", "closing"} -> "lot"
                [] st \in {"cancelled", "exited"} -> "over"
RowSeen(i) == IF entryPc = "log" /\ result.id = i
              THEN IF result.success THEN "answered" ELSE "unanswered"
              ELSE IF row[i] = "none" THEN "lost" ELSE row[i]
BookOf(i) ==
  IF orders[i].st = "unsent" THEN [life |-> "unsent"]
  ELSE [life |-> LifeOf(orders[i].st), row |-> RowSeen(i),
        terms |-> <<orders[i].ticker, orders[i].side, orders[i].qty>>]
Lifecycle == INSTANCE OrderLifecycle WITH
  Ids <- OrderId,
  Terms <- Ticker \X Side \X (1..MaxQty),
  mishaps <- faults + restarts,
  book <- [i \in OrderId |-> BookOf(i)]
OrdersKeepTheirLife == Lifecycle!Spec

-----------------------------------------------------------------------------
(* Liveness.                                                               *)

\* The flatten always returns: failed calls end in errors, and each close
\* makes a bounded number of attempts. Placing an order always ends too.
FlattenReturnsEventually == routinePc # "asleep" ~> routinePc = "asleep"
EntryEndsEventually      == entryPc # "idle" ~> entryPc = "idle"

\* Every lot a flatten sets out to close is sold, or the flatten has logged
\* an error. (A flatten after 16:00 needs a next day for its market orders.)
FlattenSells ==
  \A i \in OrderId :
     (i \in mustClose /\ routinePc = "close" /\ day < MaxDay)
       ~> (orders[i].st = "exited" \/ errors # {})

-----------------------------------------------------------------------------
(* What comments and documents of the repository say, and the code does    *)
(* not do.                                                                 *)

\* get_open_positions: the empty list on an API error is "NOT safe for the
\* flatten routine which has its own error handling".
FlattenSeesErrors ==
  flatten_done_for = day /\ routinePc = "asleep"
    => \A i \in mustClose : ~Unaccounted(i)
=============================================================================
