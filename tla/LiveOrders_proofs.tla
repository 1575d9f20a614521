-------------------------- MODULE LiveOrders_proofs -------------------------
(***************************************************************************)
(* Theorems about LiveOrders, for every watchlist, every number of orders, *)
(* attempts, failures, crashes and days.                                   *)
(***************************************************************************)
EXTENDS LiveOrders, Sums

USE DEF Phases, EntryPc, RoutinePc, OrderId, Status, Legs, Side

-----------------------------------------------------------------------------
(* What an approved order looks like.                                      *)

\* The quantity validate_order approves is at least one share and at most
\* what was requested: scaling to the position cap only ever shrinks it.
LEMMA ApprovedQuantity ==
  ASSUME NEW t, NEW side, NEW lots, NEW q \in 1..MaxRequest,
         validate_order(t, side, q, 1, Equity, lots).approved
  PROVE  validate_order(t, side, q, 1, Equity, lots).quantity \in 1..q
<1> DEFINE qty == CappedQuantity(q, 1, Equity)
<1>1. qty \in Int /\ qty <= q
  <2>1. CASE 100 * q * 1 > Equity * MaxPositionPct
    <3> DEFINE cap == Equity * MaxPositionPct
    <3>1. cap \in Nat /\ 100 * q > cap /\ q \in Nat
      BY <2>1, LiveOrdersAssumption, BrokerageAssumption, RiskAssumption
    <3>2. qty = cap \div (100 * 1)
      BY <2>1 DEF CappedQuantity
    <3> HIDE DEF cap, qty
    <3> QED BY <3>1, <3>2
  <2>2. CASE ~(100 * q * 1 > Equity * MaxPositionPct)
    BY <2>2 DEF CappedQuantity
  <2> QED BY <2>1, <2>2
<1>2. qty > 0 /\ validate_order(t, side, q, 1, Equity, lots).quantity = qty
  <2>1. Verdict(t, side, q, 1, Equity, lots) = "ok"
    BY DEF validate_order
  <2>2. ~(qty <= 0)
    BY <2>1, LiveOrdersAssumption, BrokerageAssumption DEF Verdict
  <2> HIDE DEF qty
  <2> QED BY <1>1, <2>1, <2>2 DEF validate_order, qty
<1> QED BY <1>1, <1>2

-----------------------------------------------------------------------------
(* Type correctness.                                                       *)

\* An order that moves is still an order, on the same terms.
LEMMA MovedOrder ==
  ASSUME NEW o \in Order, NEW st \in Status, NEW legs \in Legs
  PROVE  /\ Moved(o, st, legs) \in Order
         /\ Moved(o, st, legs).st = st
         /\ Moved(o, st, legs).legs = legs
         /\ Moved(o, st, legs).ticker = o.ticker
         /\ Moved(o, st, legs).side = o.side
         /\ Moved(o, st, legs).qty = o.qty
BY DEF Moved, Order

\* Moving orders that were sent, none back to "unsent", keeps the account
\* well formed: the form of every step of the broker but Accept.
LEMMA MovesType ==
  ASSUME BrokerageTypeOK, UNCHANGED sent, market' \in BOOLEAN,
         orders' \in [OrderId -> Order],
         \A i \in OrderId : /\ orders'[i].ticker = orders[i].ticker
                            /\ orders'[i].st = "unsent" <=> orders[i].st = "unsent"
  PROVE  BrokerageTypeOK'
BY DEF BrokerageTypeOK

LEMMA AcceptType ==
  ASSUME BrokerageTypeOK, sent < MaxOrders,
         NEW t \in Ticker, NEW side \in Side, NEW q \in 0..MaxQty, Accept(t, side, q)
  PROVE  BrokerageTypeOK' /\ sent' = sent + 1
<1> DEFINE o == [ticker |-> t, side |-> side, qty |-> q, st |-> "resting", legs |-> "none"]
<1>1. o \in Order /\ o.st = "resting" /\ o.ticker \in Ticker
  BY DEF Order
<1>2. /\ orders' = [orders EXCEPT ![sent + 1] = o]
      /\ sent' = sent + 1 /\ UNCHANGED market
      /\ sent + 1 \in OrderId /\ sent \in Nat
  BY BrokerageAssumption DEF Accept, BrokerageTypeOK
<1> HIDE DEF o
<1>3. QED BY <1>1, <1>2, BrokerageAssumption DEF BrokerageTypeOK

LEMMA CancelType ==
  ASSUME BrokerageTypeOK, NEW S \in SUBSET OrderId, CancelOrders(S)
  PROVE  BrokerageTypeOK' /\ UNCHANGED sent
<1>1. ASSUME NEW i \in OrderId
      PROVE  /\ Cancelled(orders[i]) \in Order
             /\ Cancelled(orders[i]).ticker = orders[i].ticker
             /\ Cancelled(orders[i]).st = "unsent" <=> orders[i].st = "unsent"
  <2>1. orders[i] \in Order /\ orders[i].st \in Status /\ orders[i].legs \in Legs
    BY DEF BrokerageTypeOK, Order
  <2> QED BY <2>1, MovedOrder DEF Cancelled
<1> QED BY <1>1, MovesType DEF BrokerageTypeOK, CancelOrders

LEMMA LiquidateType ==
  ASSUME BrokerageTypeOK, NEW t, Liquidate(t)
  PROVE  BrokerageTypeOK' /\ UNCHANGED sent
<1>1. ASSUME NEW i \in OrderId
      PROVE  /\ Moved(orders[i], "closing", orders[i].legs) \in Order
             /\ Moved(orders[i], "closing", orders[i].legs).ticker = orders[i].ticker
             /\ Moved(orders[i], "closing", orders[i].legs).st = "closing"
  <2>1. orders[i] \in Order /\ orders[i].legs \in Legs
    BY DEF BrokerageTypeOK, Order
  <2> QED BY <2>1, MovedOrder
<1> QED BY <1>1, MovesType
        DEF BrokerageTypeOK, Liquidate, LotsOf, HeldIds, InPosition

LEMMA ExpireType ==
  ASSUME BrokerageTypeOK, ExpireDayOrders, UNCHANGED sent, market' \in BOOLEAN
  PROVE  BrokerageTypeOK'
<1> DEFINE expired(o) == Moved(o, IF o.st = "resting" THEN "cancelled" ELSE o.st, "none")
<1>1. ASSUME NEW i \in OrderId
      PROVE  /\ expired(orders[i]) \in Order
             /\ expired(orders[i]).ticker = orders[i].ticker
             /\ expired(orders[i]).st = "unsent" <=> orders[i].st = "unsent"
  <2>1. orders[i] \in Order /\ orders[i].st \in Status
    BY DEF BrokerageTypeOK, Order
  <2> QED BY <2>1, MovedOrder
<1>2. orders' = [i \in OrderId |-> expired(orders[i])]
  BY DEF ExpireDayOrders
<1> HIDE DEF expired
<1> QED BY <1>1, <1>2, MovesType DEF BrokerageTypeOK

\* What the broker does on its own moves one order: a resting one fills, a lot
\* exits, or only its legs change.
LEMMA BrokerMoves ==
  ASSUME BrokerageTypeOK, BrokerStep
  PROVE  \E i \in OrderId, o \in Order :
           /\ orders' = [orders EXCEPT ![i] = o]
           /\ o.ticker = orders[i].ticker /\ o.side = orders[i].side /\ o.qty = orders[i].qty
           /\ \/ o.st = orders[i].st
              \/ orders[i].st = "resting" /\ o.st = "open"
              \/ orders[i].st \in {"open", "closing"} /\ o.st = "exited"
           /\ UNCHANGED <<sent, market>>
<1>1. PICK i \in OrderId : \/ FillEntry(i) \/ ExitLegFires(i)
                          \/ ReleaseShares(i) \/ FillLiquidation(i)
  BY DEF BrokerStep
<1>2. orders[i] \in Order /\ orders[i].st \in Status /\ orders[i].legs \in Legs
  BY DEF BrokerageTypeOK, Order
<1>3. PICK st \in Status, legs \in Legs :
        /\ orders' = [orders EXCEPT ![i] = Moved(orders[i], st, legs)]
        /\ \/ st = orders[i].st
           \/ orders[i].st = "resting" /\ st = "open"
           \/ orders[i].st \in {"open", "closing"} /\ st = "exited"
        /\ UNCHANGED <<sent, market>>
  <2>1. CASE FillEntry(i)
    <3>1. orders' = [orders EXCEPT ![i] = Moved(orders[i], "open", "live")]
      BY <2>1 DEF FillEntry
    <3> QED BY <2>1, <3>1 DEF FillEntry
  <2>2. CASE ExitLegFires(i)
    <3>1. orders' = [orders EXCEPT ![i] = Moved(orders[i], "exited", "none")]
      BY <2>2 DEF ExitLegFires
    <3> QED BY <2>2, <3>1 DEF ExitLegFires
  <2>3. CASE ReleaseShares(i)
    <3>1. orders' = [orders EXCEPT ![i] = Moved(orders[i], orders[i].st, "none")]
      BY <2>3, <1>2 DEF ReleaseShares, BrokerageTypeOK
    <3> QED BY <2>3, <3>1, <1>2 DEF ReleaseShares
  <2>4. CASE FillLiquidation(i)
    <3>1. orders' = [orders EXCEPT ![i] = Moved(orders[i], "exited", orders[i].legs)]
      BY <2>4, <1>2 DEF FillLiquidation, BrokerageTypeOK
    <3> QED BY <2>4, <3>1, <1>2 DEF FillLiquidation
  <2> QED BY <1>1, <2>1, <2>2, <2>3, <2>4
<1> DEFINE o == Moved(orders[i], st, legs)
<1>4. /\ o \in Order /\ o.st = st
      /\ o.ticker = orders[i].ticker /\ o.side = orders[i].side /\ o.qty = orders[i].qty
  BY <1>2, MovedOrder
<1> HIDE DEF o
<1>5. orders' = [orders EXCEPT ![i] = o]
  BY <1>3 DEF o
<1> QED BY <1>3, <1>4, <1>5

LEMMA BrokerStepType ==
  ASSUME BrokerageTypeOK, BrokerStep
  PROVE  BrokerageTypeOK' /\ UNCHANGED sent
BY BrokerMoves, MovesType DEF BrokerageTypeOK

\* The parts of the type invariant an action leaves alone.
LEMMA EntryUntouched ==
  EntryTypeOK /\ UNCHANGED <<entryVars, sent>> => EntryTypeOK'
BY DEF EntryTypeOK, entryVars

LEMMA RoutineUntouched ==
  RoutineTypeOK /\ UNCHANGED routineVars => RoutineTypeOK'
BY DEF RoutineTypeOK, routineVars

LEMMA BrokerageUntouched ==
  BrokerageTypeOK /\ UNCHANGED orderVars => BrokerageTypeOK' /\ UNCHANGED sent
BY DEF BrokerageTypeOK, orderVars

LEMMA ClockUntouched ==
  ASSUME ClockTypeOK, UNCHANGED clockVars, NoFault \/ Fault
  PROVE  ClockTypeOK'
BY LiveOrdersAssumption DEF ClockTypeOK, clockVars, failureVars, NoFault, Fault

LEMMA EntryEndsType ==
  ASSUME EntryTypeOK, EntryEnds, equity_cache' \in {0, Equity},
         row' \in [OrderId -> {"none", "submitted", "failed"}], UNCHANGED trail
  PROVE  EntryTypeOK'
BY BrokerageAssumption, LiveOrdersAssumption
   DEF EntryTypeOK, EntryEnds, NoWant, NoResult, NoView, View

LEMMA InitType == Init => TypeOK
<1> SUFFICES ASSUME Init PROVE TypeOK
  OBVIOUS
<1> USE BrokerageAssumption, LiveOrdersAssumption DEF Init
<1>1. BrokerageTypeOK
  BY DEF BrokerageInit, BrokerageTypeOK, Order, Unsent
<1>2. ClockTypeOK
  BY DEF ClockTypeOK
<1>3. EntryTypeOK
  BY DEF EntryTypeOK, NoWant, NoResult, NoView, View
<1>4. RoutineTypeOK
  <2>1. /\ closing \in [Ticker -> {"none", "trying", "ok", "failed"}]
        /\ \A t \in Ticker : closing[t] = "none"
    OBVIOUS
  <2>2. tries \in [Ticker -> 0..CloseAttempts] /\ flattenDay \in 0..MaxDay
        /\ flatten_done_for \in 0..MaxDay
    OBVIOUS
  <2>3. \A t \in Ticker : closing[t] = "trying" => tries[t] < CloseAttempts
    BY <2>1
  <2> QED BY <2>1, <2>2, <2>3, Zenon DEF RoutineTypeOK
<1> QED BY <1>1, <1>2, <1>3, <1>4 DEF TypeOK

\* Placing an entry.
LEMMA SignalType ==
  ASSUME TypeOK, NEW t \in Ticker, NEW side \in Side, Signal(t, side)
  PROVE  TypeOK'
<1>1. EntryTypeOK'
  BY DEF TypeOK, Signal, EntryTypeOK, orderVars
<1> QED BY <1>1, RoutineUntouched, BrokerageUntouched, ClockUntouched DEF TypeOK, Signal

LEMMA ReadPositionsType ==
  ASSUME TypeOK, ReadPositions
  PROVE  TypeOK'
<1>1. PICK lots \in {HeldIds, {}} :
        /\ NoFault \/ Fault
        /\ IF AlreadyHeld(lots)
           THEN EntryEnds
           ELSE /\ entryPc' = "equity"
                /\ positions' = lots
                /\ view' = [resting |-> RestingIds, blind |-> lots # HeldIds]
                /\ UNCHANGED <<want, size, result>>
  BY DEF ReadPositions
<1>2. EntryTypeOK'
  <2>1. CASE AlreadyHeld(lots)
    BY <1>1, <2>1, EntryEndsType DEF TypeOK, EntryTypeOK, ReadPositions
  <2>2. CASE ~AlreadyHeld(lots)
    <3>1. lots \in SUBSET OrderId /\ view' \in View
      <4>1. lots \in SUBSET OrderId /\ RestingIds \in SUBSET OrderId
        BY DEF HeldIds, RestingIds
      <4>2. view' = [resting |-> RestingIds, blind |-> lots # HeldIds]
        BY <1>1, <2>2
      <4> QED BY <4>1, <4>2, Zenon DEF View
    <3> QED BY <1>1, <2>2, <3>1 DEF TypeOK, EntryTypeOK, ReadPositions, orderVars
  <2> QED BY <2>1, <2>2
<1> QED BY <1>1, <1>2, RoutineUntouched, BrokerageUntouched, ClockUntouched
        DEF TypeOK, ReadPositions

LEMMA GetEquityType ==
  ASSUME TypeOK, GetEquityAndValidate
  PROVE  TypeOK'
<1>1. PICK equity \in {Equity, equity_cache} :
        /\ (equity > 0 /\ NoFault) \/ (equity = equity_cache /\ Fault)
        /\ equity_cache' = equity
        /\ \/ equity = 0 /\ EntryEnds
           \/ /\ equity > 0
              /\ \E q \in 1..MaxRequest :
                   LET check == validate_order(want.ticker, want.side, q, 1, equity,
                                               PositionsOf(positions))
                   IN  IF check.approved
                       THEN /\ size' = check.quantity
                            /\ entryPc' = "submit"
                            /\ UNCHANGED <<want, positions, result, view>>
                       ELSE EntryEnds
  BY DEF GetEquityAndValidate, EquityAnswer
<1>2. equity \in {0, Equity} /\ UNCHANGED <<row, trail, sent>> /\ entryPc = "equity"
  BY DEF GetEquityAndValidate, TypeOK, EntryTypeOK, orderVars
<1>3. EntryTypeOK'
  <2>1. CASE EntryEnds
    BY <1>1, <1>2, <2>1, EntryEndsType DEF TypeOK, EntryTypeOK
  <2>2. CASE ~EntryEnds
    <3>1. equity = Equity
      BY <1>1, <1>2, <2>2
    <3>2. PICK q \in 1..MaxRequest :
            LET check == validate_order(want.ticker, want.side, q, 1, Equity,
                                        PositionsOf(positions))
            IN  /\ check.approved
                /\ size' = check.quantity
                /\ entryPc' = "submit"
                /\ UNCHANGED <<want, positions, result, view>>
      BY <1>1, <2>2, <3>1
    <3>3. size' \in 0..MaxQty /\ size' # 0
      BY <3>2, ApprovedQuantity, LiveOrdersAssumption, BrokerageAssumption
    <3> HIDE DEF validate_order
    <3> QED BY <1>1, <1>2, <3>2, <3>3 DEF TypeOK, EntryTypeOK
  <2> QED BY <2>1, <2>2
<1>4. NoFault \/ Fault
  BY <1>1
<1> QED BY <1>3, <1>4, RoutineUntouched, BrokerageUntouched, ClockUntouched
        DEF TypeOK, GetEquityAndValidate

LEMMA SubmitType ==
  ASSUME TypeOK, SubmitRaises \/ SubmitAccepted \/ SubmitRefused \/ LogResult
  PROVE  TypeOK'
<1>1. CASE SubmitRaises
  BY <1>1, EntryEndsType, RoutineUntouched, BrokerageUntouched, ClockUntouched
     DEF TypeOK, SubmitRaises, EntryTypeOK
<1>2. CASE SubmitAccepted
  <2>1. want.ticker \in Ticker /\ want.side \in Side /\ size \in 0..MaxQty /\ sent < MaxOrders
    BY <1>2 DEF TypeOK, EntryTypeOK, SubmitAccepted
  <2>2. BrokerageTypeOK' /\ sent' = sent + 1
    BY <1>2, <2>1, AcceptType DEF TypeOK, SubmitAccepted
  <2>3. sent + 1 \in OrderId /\ sent + 1 \in 0..MaxOrders
    BY <2>1, BrokerageAssumption DEF TypeOK, BrokerageTypeOK
  <2>4. result' \in [success : BOOLEAN, id : 0..MaxOrders]
    <3>1. PICK ok \in BOOLEAN : result' = [success |-> ok, id |-> sent + 1]
      BY <1>2 DEF SubmitAccepted
    <3> QED BY <2>3, <3>1
  <2>5. trail' \in [OrderId -> View]
    BY <1>2, <2>3 DEF SubmitAccepted, TypeOK, EntryTypeOK
  <2>6. EntryTypeOK'
    BY <1>2, <2>2, <2>4, <2>5 DEF SubmitAccepted, TypeOK, EntryTypeOK
  <2>7. NoFault \/ Fault
    BY <1>2 DEF SubmitAccepted
  <2> QED BY <1>2, <2>2, <2>6, <2>7, RoutineUntouched, ClockUntouched DEF TypeOK, SubmitAccepted
<1>3. CASE SubmitRefused
  <2>1. result' \in [success : BOOLEAN, id : 0..MaxOrders]
    BY <1>3, BrokerageAssumption DEF SubmitRefused, NoResult
  <2>2. EntryTypeOK'
    BY <1>3, <2>1 DEF SubmitRefused, TypeOK, EntryTypeOK
  <2>3. NoFault \/ Fault
    BY <1>3 DEF SubmitRefused
  <2> QED BY <1>3, <2>2, <2>3, RoutineUntouched, BrokerageUntouched, ClockUntouched
          DEF TypeOK, SubmitRefused
<1>4. CASE LogResult
  <2>1. row' \in [OrderId -> {"none", "submitted", "failed"}]
    BY <1>4 DEF LogResult, ResultRow, TypeOK, EntryTypeOK
  <2>2. NoFault \/ Fault
    BY <1>4 DEF LogResult
  <2> QED BY <1>4, <2>1, <2>2, EntryEndsType, RoutineUntouched, BrokerageUntouched, ClockUntouched
          DEF TypeOK, LogResult, EntryTypeOK
<1> QED BY <1>1, <1>2, <1>3, <1>4

\* Flattening.
LEMMA FlattenReadsType ==
  ASSUME TypeOK, WakeForFlatten \/ ReadBeforeFlatten \/ WaitForRelease
                 \/ ListPositions \/ AllGathered
  PROVE  TypeOK'
<1>1. HeldIds \in SUBSET OrderId
  BY DEF HeldIds
<1>2. /\ NoFault \/ Fault
      /\ UNCHANGED <<orderVars, clockVars, entryVars>>
  BY DEF WakeForFlatten, ReadBeforeFlatten, WaitForRelease, ListPositions, AllGathered
<1>3. RoutineTypeOK'
  <2>1. CASE WakeForFlatten
    <3>1. /\ closing' \in [Ticker -> {"none", "trying", "ok", "failed"}]
          /\ \A t \in Ticker : closing'[t] = "none"
      BY <2>1 DEF WakeForFlatten
    <3>2. day \in 0..MaxDay
      BY LiveOrdersAssumption DEF TypeOK, ClockTypeOK
    <3> QED BY <2>1, <3>1, <3>2 DEF WakeForFlatten, TypeOK, RoutineTypeOK
  <2>2. CASE ReadBeforeFlatten
    BY <2>2, <1>1 DEF ReadBeforeFlatten, FlattenReturns, TypeOK, RoutineTypeOK
  <2>3. CASE WaitForRelease
    BY <2>3 DEF WaitForRelease, TypeOK, RoutineTypeOK
  <2>4. CASE ListPositions
    <3>1. CASE UNCHANGED <<closing, tries>>
      BY <2>4, <3>1, <1>1 DEF ListPositions, FlattenReturns, TypeOK, RoutineTypeOK
    <3>2. CASE ~UNCHANGED <<closing, tries>>
      <4>1. /\ closing' = [t \in Ticker |-> IF t \in ToClose
                                           THEN "trying" ELSE "none"]
            /\ tries' = [t \in Ticker |-> 0]
            /\ routinePc' = "close"
            /\ mustClose' = HeldIds
            /\ UNCHANGED <<flatten_done_for, errors, flattenDay, blind>>
        BY <2>4, <3>2 DEF ListPositions
      <4>2. /\ closing' \in [Ticker -> {"none", "trying", "ok", "failed"}]
            /\ tries' \in [Ticker -> 0..CloseAttempts]
            /\ \A t \in Ticker : tries'[t] < CloseAttempts
        BY <4>1, LiveOrdersAssumption
      <4> QED BY <4>1, <4>2, <1>1 DEF TypeOK, RoutineTypeOK
    <3> QED BY <3>1, <3>2
  <2>5. CASE AllGathered
    BY <2>5 DEF AllGathered, FlattenReturns, TypeOK, RoutineTypeOK
  <2> QED BY <2>1, <2>2, <2>3, <2>4, <2>5
<1> QED BY <1>2, <1>3, EntryUntouched, BrokerageUntouched, ClockUntouched DEF TypeOK

LEMMA CancelAllType ==
  ASSUME TypeOK, CancelAllOrders
  PROVE  TypeOK'
<1>1. /\ \E S \in SUBSET OrderId : CancelOrders(S)
      /\ NoFault \/ Fault
      /\ routinePc' \in {"wait", "list"}
      /\ errors' \in SUBSET (Ticker \cup {"cancel", "list"})
      /\ UNCHANGED <<clockVars, entryVars, flattenDay, flatten_done_for, closing,
                     tries, mustClose, blind>>
  BY DEF CancelAllOrders, TypeOK, RoutineTypeOK
<1>2. BrokerageTypeOK' /\ UNCHANGED sent
  BY <1>1, CancelType DEF TypeOK
<1>3. RoutineTypeOK'
  BY <1>1 DEF TypeOK, RoutineTypeOK
<1> QED BY <1>1, <1>2, <1>3, EntryUntouched, ClockUntouched DEF TypeOK

\* Attempts are counted up to the last one, which ends the closing.
LEMMA ClosePositionType ==
  ASSUME TypeOK, NEW t \in Ticker, ClosePosition(t)
  PROVE  TypeOK'
<1>1. /\ Liquidate(t) \/ UNCHANGED orderVars
      /\ NoFault \/ Fault
      /\ UNCHANGED <<clockVars, entryVars, routinePc, flattenDay, flatten_done_for,
                     mustClose, blind>>
  BY DEF ClosePosition, CloseSucceeds, CloseRefused, CloseErrs
<1>2. BrokerageTypeOK' /\ UNCHANGED sent
  BY <1>1, LiquidateType, BrokerageUntouched DEF TypeOK
<1>3. RoutineTypeOK'
  <2> USE DEF TypeOK, RoutineTypeOK
  <2>1. CASE CloseSucceeds(t)
    BY <1>1, <2>1 DEF CloseSucceeds
  <2>2. CASE CloseErrs(t)
    BY <1>1, <2>2 DEF CloseErrs, CloseFails
  <2>3. CASE CloseRefused(t)
    <3>1. /\ closing[t] = "trying" /\ tries[t] + 1 \in 0..CloseAttempts
          /\ tries' = [tries EXCEPT ![t] = tries[t] + 1]
      BY <2>3, LiveOrdersAssumption DEF ClosePosition, CloseRefused
    <3>2. CASE tries[t] + 1 < CloseAttempts
      BY <1>1, <2>3, <3>1, <3>2 DEF CloseRefused, RetryLeft
    <3>3. CASE ~(tries[t] + 1 < CloseAttempts)
      BY <1>1, <2>3, <3>1, <3>3 DEF CloseRefused, RetryLeft, CloseFails
    <3> QED BY <3>2, <3>3
  <2> QED BY <2>1, <2>2, <2>3 DEF ClosePosition
<1> QED BY <1>1, <1>2, <1>3, EntryUntouched, ClockUntouched DEF TypeOK

LEMMA RestartType ==
  ASSUME TypeOK, Restart
  PROVE  TypeOK'
<1>1. ClockTypeOK'
  BY LiveOrdersAssumption DEF Restart, TypeOK, ClockTypeOK, clockVars
<1>2. EntryTypeOK'
  BY EntryEndsType DEF Restart, TypeOK, EntryTypeOK
<1>3. RoutineTypeOK'
  <2>1. /\ closing' \in [Ticker -> {"none", "trying", "ok", "failed"}]
        /\ \A t \in Ticker : closing'[t] = "none"
        /\ tries' \in [Ticker -> 0..CloseAttempts]
        /\ flattenDay' \in 0..MaxDay /\ flatten_done_for' \in 0..MaxDay
    BY LiveOrdersAssumption DEF Restart
  <2>2. \A t \in Ticker : closing'[t] = "trying" => tries'[t] < CloseAttempts
    BY <2>1
  <2> QED BY <2>1, <2>2, Zenon DEF Restart, RoutineTypeOK
<1> QED BY <1>1, <1>2, <1>3, BrokerageUntouched DEF TypeOK, Restart

LEMMA TickType ==
  ASSUME TypeOK, Tick
  PROVE  TypeOK'
<1>1. BrokerageTypeOK' /\ UNCHANGED sent
  BY ExpireType, BrokerageUntouched DEF Tick, TypeOK, BrokerageTypeOK
<1>2. ClockTypeOK'
  BY LiveOrdersAssumption DEF Tick, TypeOK, ClockTypeOK, failureVars
<1> QED BY <1>1, <1>2, EntryUntouched, RoutineUntouched DEF TypeOK, Tick

LEMMA NextType == TypeOK /\ [Next]_vars => TypeOK'
<1> SUFFICES ASSUME TypeOK, [Next]_vars PROVE TypeOK'
  OBVIOUS
<1>1. CASE \E t \in Ticker, side \in Side : Signal(t, side)
  BY <1>1, SignalType
<1>2. CASE PlaceOrder
  BY <1>2, ReadPositionsType, GetEquityType, SubmitType DEF PlaceOrder
<1>3. CASE WakeForFlatten
  BY <1>3, FlattenReadsType
<1>4. CASE Flatten
  BY <1>4, FlattenReadsType, CancelAllType, ClosePositionType DEF Flatten
<1>5. CASE Restart
  BY <1>5, RestartType
<1>6. CASE Tick
  BY <1>6, TickType
<1>7. CASE Broker
  <2>1. BrokerageTypeOK' /\ UNCHANGED sent
    BY <1>7, BrokerStepType DEF Broker, TypeOK
  <2> QED BY <1>7, <2>1, EntryUntouched, RoutineUntouched
          DEF Broker, TypeOK, ClockTypeOK, clockVars, failureVars
<1>8. CASE UNCHANGED vars
  BY <1>8, EntryUntouched, RoutineUntouched, BrokerageUntouched
     DEF vars, TypeOK, ClockTypeOK, clockVars, failureVars
<1> QED BY <1>1, <1>2, <1>3, <1>4, <1>5, <1>6, <1>7, <1>8 DEF Next

\* The system stays within its types whatever the account, the clock, the
\* failing calls and the crashes do; in particular no close is attempted
\* more than CloseAttempts times.
THEOREM TypeCorrect == Spec => []TypeOK
BY InitType, NextType, PTL DEF Spec

-----------------------------------------------------------------------------
(* A flatten accounts for the lots it found.                               *)

LotStatus == {"open", "closing", "exited"}

\* A step after which each lot is still a lot of its ticker, and none that a
\* liquidation works on, or that is gone, is open again.
Settling ==
  \A i \in OrderId : orders[i].st \in LotStatus =>
    /\ orders'[i].st \in LotStatus
    /\ orders'[i].ticker = orders[i].ticker
    /\ orders'[i].st = "open" => orders[i].st = "open"

LEMMA BrokerSettles == BrokerageTypeOK /\ BrokerStep => Settling
BY BrokerMoves DEF Settling, LotStatus, BrokerageTypeOK

LEMMA ClockSettles == BrokerageTypeOK /\ ExpireDayOrders => Settling
<1> SUFFICES ASSUME BrokerageTypeOK, ExpireDayOrders,
                    NEW i \in OrderId, orders[i].st \in LotStatus
             PROVE  orders'[i].st = orders[i].st /\ orders'[i].ticker = orders[i].ticker
  BY DEF Settling
<1>1. orders[i] \in Order /\ orders[i].st \in Status /\ orders[i].st # "resting"
  BY DEF BrokerageTypeOK, Order, LotStatus
<1>2. orders'[i] = Moved(orders[i], orders[i].st, "none")
  BY <1>1 DEF ExpireDayOrders
<1> QED BY <1>1, <1>2, MovedOrder

LEMMA AcceptSettles ==
  ASSUME BrokerageTypeOK, sent < MaxOrders, NEW t, NEW side, NEW q, Accept(t, side, q)
  PROVE  Settling
<1> SUFFICES ASSUME NEW i \in OrderId, orders[i].st \in LotStatus
             PROVE  orders'[i] = orders[i]
  BY DEF Settling
<1>1. i <= sent /\ i # sent + 1
  BY BrokerageAssumption DEF BrokerageTypeOK, LotStatus
<1> QED BY <1>1, BrokerageAssumption DEF Accept, BrokerageTypeOK

\* ... and after an accepted close no lot of the ticker is open.
LEMMA LiquidateSettles ==
  ASSUME BrokerageTypeOK, NEW t, Liquidate(t)
  PROVE  /\ Settling
         /\ \A i \in OrderId : orders[i].st \in LotStatus /\ orders[i].ticker = t
                               => orders'[i].st # "open"
<1> SUFFICES ASSUME NEW i \in OrderId, orders[i].st \in LotStatus
             PROVE  /\ orders'[i].st \in LotStatus
                    /\ orders'[i].ticker = orders[i].ticker
                    /\ orders'[i].st = "open" => orders[i].st = "open" /\ orders[i].ticker # t
  BY DEF Settling
<1>1. orders[i] \in Order /\ orders[i].legs \in Legs
  BY DEF BrokerageTypeOK, Order
<1>2. CASE i \in LotsOf(t)
  BY <1>1, <1>2, MovedOrder DEF Liquidate, LotStatus
<1>3. CASE i \notin LotsOf(t)
  BY <1>3 DEF Liquidate, LotsOf, HeldIds, InPosition, LotStatus
<1> QED BY <1>2, <1>3

LEMMA CancelKeepsLots ==
  ASSUME BrokerageTypeOK, NEW S \in SUBSET OrderId, CancelOrders(S),
         NEW i \in OrderId, orders[i].st \in LotStatus
  PROVE  orders'[i].st \in LotStatus
<1>1. orders[i] \in Order /\ orders[i].st \in Status /\ orders[i].legs \in Legs
  BY DEF BrokerageTypeOK, Order
<1>2. Cancelled(orders[i]).st \in LotStatus
  BY <1>1, MovedOrder DEF Cancelled, LotStatus
<1> QED BY <1>2 DEF CancelOrders

\* Steps that settle lots and leave the routine's record alone.
LEMMA SettlingKeepsFlattenInv ==
  ASSUME TypeOK, FlattenInv, Settling, UNCHANGED routineVars,
         day' \in Int, day' >= day
  PROVE  FlattenInv'
<1> USE DEF FlattenInv, routineVars, TypeOK, RoutineTypeOK, ClockTypeOK
<1>1. \A i \in mustClose : /\ i \in OrderId
                           /\ orders[i].st \in LotStatus
                           /\ orders'[i].st \in LotStatus
                           /\ orders'[i].ticker = orders[i].ticker
                           /\ orders'[i].st = "open" => orders[i].st = "open"
  BY DEF Settling, LotStatus
<1>2. flattenDay' <= day' /\ flatten_done_for' <= day'
  BY LiveOrdersAssumption
<1>3. routinePc' = "close" =>
        \A i \in mustClose' : orders'[i].st = "open" => BeingClosed(i)'
  BY <1>1 DEF BeingClosed
<1>4. FlattenAccounted'
  <2>1. flatten_done_for = day' => day' = day
    BY LiveOrdersAssumption
  <2> QED BY <1>1, <2>1 DEF FlattenAccounted, Unaccounted
<1> QED BY <1>1, <1>2, <1>3, <1>4 DEF LotStatus

LEMMA InitFlattenInv == Init => FlattenInv
BY LiveOrdersAssumption DEF Init, FlattenInv, FlattenAccounted

\* The entry task only ever adds an order that is not a lot yet.
LEMMA PlacingKeepsFlattenInv ==
  ASSUME TypeOK, FlattenInv,
         (\E t \in Ticker, side \in Side : Signal(t, side)) \/ PlaceOrder
  PROVE  FlattenInv'
<1>1. UNCHANGED routineVars /\ UNCHANGED clockVars
  BY DEF Signal, PlaceOrder, ReadPositions, GetEquityAndValidate, SubmitRaises,
         SubmitAccepted, SubmitRefused, LogResult
<1>2. Settling
  <2>1. CASE SubmitAccepted
    BY <2>1, AcceptSettles DEF SubmitAccepted, TypeOK, EntryTypeOK
  <2>2. CASE ~SubmitAccepted
    <3>1. UNCHANGED orderVars
      BY <2>2 DEF Signal, PlaceOrder, ReadPositions, GetEquityAndValidate,
                  SubmitRaises, SubmitRefused, LogResult
    <3> QED BY <3>1 DEF Settling, orderVars
  <2> QED BY <2>1, <2>2
<1> QED BY <1>1, <1>2, SettlingKeepsFlattenInv, LiveOrdersAssumption
        DEF clockVars, TypeOK, ClockTypeOK

\* What the flatten's reads and its return make of the record: the lots held
\* are to be closed; it returns when none is, or with the failure on record.
LEMMA ReadsKeepFlattenInv ==
  ASSUME TypeOK, FlattenInv,
         WakeForFlatten \/ ReadBeforeFlatten \/ WaitForRelease
         \/ ListPositions \/ AllGathered
  PROVE  FlattenInv'
<1> USE DEF TypeOK, RoutineTypeOK, ClockTypeOK, FlattenInv
<1>1. UNCHANGED <<orders, day>>
  BY DEF WakeForFlatten, ReadBeforeFlatten, WaitForRelease, ListPositions,
         AllGathered, orderVars, clockVars
<1>2. \A i \in HeldIds : i \in OrderId /\ orders[i].st \in LotStatus
  BY DEF HeldIds, InPosition, LotStatus
<1>3. mustClose' \in {mustClose, {}, HeldIds} /\ UNCHANGED day
  BY <1>1 DEF WakeForFlatten, ReadBeforeFlatten, WaitForRelease, ListPositions, AllGathered
<1>4. \A i \in mustClose' : orders'[i].st \in {"open", "closing", "exited"}
  BY <1>1, <1>2, <1>3 DEF LotStatus
<1>5. flattenDay' <= day' /\ flatten_done_for' <= day'
  BY <1>3, LiveOrdersAssumption
     DEF WakeForFlatten, ReadBeforeFlatten, WaitForRelease, ListPositions,
         AllGathered, FlattenReturns
<1>6. routinePc' = "close" =>
        \A i \in mustClose' : orders'[i].st = "open" => BeingClosed(i)'
  <2>1. CASE ListPositions
    <3> SUFFICES ASSUME routinePc' = "close", NEW i \in HeldIds
                 PROVE  closing'[orders'[i].ticker] = "trying"
      BY <2>1 DEF ListPositions, BeingClosed
    <3>1. closing' = [t \in Ticker |-> IF t \in ToClose THEN "trying" ELSE "none"]
      BY <2>1 DEF ListPositions, FlattenReturns
    <3>2. orders[i].ticker \in ToClose /\ orders[i].ticker \in Ticker
      BY <1>2 DEF TickersOf, ToClose, BrokerageTypeOK, LotStatus
    <3> QED BY <3>1, <3>2, <1>1
  <2>2. CASE ~ListPositions
    BY <2>2 DEF WakeForFlatten, ReadBeforeFlatten, WaitForRelease, AllGathered, FlattenReturns
  <2> QED BY <2>1, <2>2
<1>7. FlattenAccounted'
  <2>1. CASE WakeForFlatten \/ WaitForRelease
    BY <2>1 DEF WakeForFlatten, WaitForRelease, FlattenAccounted
  <2>2. CASE ReadBeforeFlatten
    BY <2>2 DEF ReadBeforeFlatten, FlattenAccounted
  <2>3. CASE ListPositions
    BY <2>3 DEF ListPositions, FlattenAccounted, Unaccounted
  <2>4. CASE AllGathered
    <3> SUFFICES ASSUME NEW i \in mustClose, orders[i].st = "open"
                 PROVE  orders[i].ticker \in errors
      BY <2>4, <1>1 DEF AllGathered, FlattenAccounted, Unaccounted
    <3>1. i \in OrderId /\ orders[i].ticker \in Ticker
      BY DEF BrokerageTypeOK
    <3> QED BY <2>4, <3>1 DEF AllGathered, AllReturned, BeingClosed
  <2> QED BY <2>1, <2>2, <2>3, <2>4
<1>8. routinePc' = "asleep" => flatten_done_for' = flattenDay'
  BY DEF WakeForFlatten, ReadBeforeFlatten, WaitForRelease, ListPositions,
         AllGathered, FlattenReturns
<1> QED BY <1>4, <1>5, <1>6, <1>7, <1>8

\* Cancelling may put a liquidation back to an open lot, but then the list of
\* positions is still to be read.
LEMMA CancelKeepsFlattenInv ==
  ASSUME TypeOK, FlattenInv, CancelAllOrders
  PROVE  FlattenInv'
<1>1. /\ \E S \in SUBSET OrderId : CancelOrders(S)
      /\ routinePc' \in {"wait", "list"}
      /\ UNCHANGED <<day, flattenDay, flatten_done_for, mustClose>>
  BY DEF CancelAllOrders, clockVars
<1>2. \A i \in mustClose : i \in OrderId /\ orders'[i].st \in LotStatus
  BY <1>1, CancelKeepsLots DEF TypeOK, RoutineTypeOK, FlattenInv, LotStatus
<1> QED BY <1>1, <1>2 DEF FlattenInv, FlattenAccounted, LotStatus

\* An attempt to close a position ends in a liquidation of all its lots, in
\* another attempt, or in errors.
LEMMA ClosingKeepsFlattenInv ==
  ASSUME TypeOK, FlattenInv, NEW t \in Ticker, ClosePosition(t)
  PROVE  FlattenInv'
<1> USE DEF TypeOK, RoutineTypeOK, FlattenInv
<1>1. /\ routinePc = "close" /\ closing[t] = "trying"
      /\ UNCHANGED <<day, routinePc, flattenDay, flatten_done_for, mustClose>>
  BY DEF ClosePosition, clockVars
<1>2. Settling
  <2>1. Liquidate(t) \/ UNCHANGED orderVars
    BY DEF ClosePosition, CloseSucceeds, CloseRefused, CloseErrs
  <2> QED BY <2>1, LiquidateSettles DEF Settling, orderVars
<1>3. ASSUME NEW i \in mustClose, orders'[i].st = "open"
      PROVE  BeingClosed(i)'
  <2>1. /\ i \in OrderId /\ orders[i].st = "open" /\ orders[i].ticker \in Ticker
        /\ orders'[i].ticker = orders[i].ticker /\ BeingClosed(i)
    BY <1>1, <1>2, <1>3 DEF Settling, LotStatus, BrokerageTypeOK
  <2>2. CASE CloseSucceeds(t)
    BY <1>3, <2>1, <2>2, LiquidateSettles DEF CloseSucceeds, BeingClosed, LotStatus
  <2>3. CASE CloseFails(t) /\ orders[i].ticker = t
    BY <2>1, <2>3 DEF CloseFails, BeingClosed
  <2>4. CASE CloseFails(t) /\ orders[i].ticker # t
    BY <2>1, <2>4 DEF CloseFails, BeingClosed
  <2>5. CASE UNCHANGED <<closing, errors>>
    BY <2>1, <2>5 DEF BeingClosed
  <2> QED BY <2>2, <2>3, <2>4, <2>5 DEF ClosePosition, CloseErrs, CloseRefused
<1> QED BY <1>1, <1>2, <1>3 DEF Settling, LotStatus, FlattenAccounted

LEMMA RestartKeepsFlattenInv == TypeOK /\ FlattenInv /\ Restart => FlattenInv'
BY LiveOrdersAssumption DEF TypeOK, ClockTypeOK, FlattenInv, Restart, FlattenAccounted, clockVars

LEMMA TickKeepsFlattenInv ==
  ASSUME TypeOK, FlattenInv, Tick
  PROVE  FlattenInv'
<1>1. Settling
  <2>1. ExpireDayOrders \/ UNCHANGED orders
    BY DEF Tick, orderVars
  <2> QED BY <2>1, ClockSettles DEF Settling, TypeOK
<1>2. day' \in Int /\ day' >= day /\ UNCHANGED routineVars
  BY LiveOrdersAssumption DEF Tick, TypeOK, ClockTypeOK
<1> QED BY <1>1, <1>2, SettlingKeepsFlattenInv

LEMMA NextFlattenInv == TypeOK /\ FlattenInv /\ [Next]_vars => FlattenInv'
<1> SUFFICES ASSUME TypeOK, FlattenInv, [Next]_vars PROVE FlattenInv'
  OBVIOUS
<1>0. day \in Int
  BY LiveOrdersAssumption DEF TypeOK, ClockTypeOK
<1>1. CASE (\E t \in Ticker, side \in Side : Signal(t, side)) \/ PlaceOrder
  BY <1>1, PlacingKeepsFlattenInv
<1>2. CASE WakeForFlatten
  BY <1>2, ReadsKeepFlattenInv
<1>3. CASE Flatten
  BY <1>3, ReadsKeepFlattenInv, CancelKeepsFlattenInv, ClosingKeepsFlattenInv DEF Flatten
<1>4. CASE Restart
  BY <1>4, RestartKeepsFlattenInv
<1>5. CASE Tick
  BY <1>5, TickKeepsFlattenInv
<1>6. CASE Broker
  BY <1>0, <1>6, BrokerSettles, SettlingKeepsFlattenInv DEF Broker, TypeOK, clockVars
<1>7. CASE UNCHANGED vars
  <2>1. Settling
    BY <1>7 DEF vars, orderVars, Settling
  <2> QED BY <1>0, <1>7, <2>1, SettlingKeepsFlattenInv DEF vars, clockVars
<1> QED BY <1>1, <1>2, <1>3, <1>4, <1>5, <1>6, <1>7 DEF Next

\* When the day's flatten is marked done, every lot it found held is gone, is
\* being liquidated or has its failure on record, unless the flatten took a
\* failed read for an empty account.
THEOREM FlattenIsAccounted == Spec => []FlattenAccounted
<1>1. FlattenInv => FlattenAccounted
  BY DEF FlattenInv
<1> QED BY InitFlattenInv, NextFlattenInv, TypeCorrect, <1>1, PTL DEF Spec

\* A process begins at most one flatten a day.
THEOREM FlattensOnceADay == Spec => FlattenOnceADay
<1>1. TypeOK /\ FlattenInv /\ [Next]_vars =>
        [routinePc = "asleep" /\ routinePc' # "asleep" => flattenDay < day]_vars
  <2> SUFFICES ASSUME TypeOK, FlattenInv, Next, routinePc = "asleep", routinePc' # "asleep"
               PROVE  flattenDay < day
    BY DEF vars
  <2>1. WakeForFlatten
    BY DEF Next, Signal, PlaceOrder, ReadPositions, GetEquityAndValidate, SubmitRaises,
           SubmitAccepted, SubmitRefused, LogResult, Flatten, ReadBeforeFlatten,
           CancelAllOrders, WaitForRelease, ListPositions, ClosePosition, AllGathered,
           Restart, Tick, Broker, routineVars
  <2> QED BY <2>1, LiveOrdersAssumption
          DEF WakeForFlatten, FlattenInv, TypeOK, ClockTypeOK, RoutineTypeOK
<1> QED BY <1>1, TypeCorrect, InitFlattenInv, NextFlattenInv, PTL DEF Spec, FlattenOnceADay

-----------------------------------------------------------------------------
(* Entries on one ticker.                                                  *)

\* A step after which no order works that did not work before, and every order
\* stands on its terms.
SameTerms(o, p) == o.ticker = p.ticker /\ o.side = p.side /\ o.qty = p.qty
Fading ==
  \A i \in OrderId : SameTerms(orders'[i], orders[i]) /\ (Working(i)' => Working(i))

LEMMA BrokerFades == BrokerageTypeOK /\ BrokerStep => Fading
BY BrokerMoves DEF Fading, SameTerms, Working, BrokerageTypeOK

\* Cancelling, liquidating and the close of the day end orders or leave them
\* working.
LEMMA RequestsFade ==
  ASSUME BrokerageTypeOK,
         \/ \E S \in SUBSET OrderId : CancelOrders(S)
         \/ \E t \in Ticker : Liquidate(t)
         \/ ExpireDayOrders
  PROVE  Fading
<1> SUFFICES ASSUME NEW i \in OrderId
             PROVE  SameTerms(orders'[i], orders[i]) /\ (Working(i)' => Working(i))
  BY DEF Fading, SameTerms
<1> USE DEF SameTerms
<1>1. orders[i] \in Order /\ orders[i].legs \in Legs /\ orders[i].st \in Status
  BY DEF BrokerageTypeOK, Order
<1>2. CASE \E S \in SUBSET OrderId : CancelOrders(S)
  <2>1. orders'[i] \in {orders[i], Cancelled(orders[i])}
    BY <1>2 DEF CancelOrders
  <2>2. /\ SameTerms(Cancelled(orders[i]), orders[i])
        /\ Cancelled(orders[i]).st \in {"resting", "open", "closing"} => Working(i)
    BY <1>1, MovedOrder DEF Cancelled, Working
  <2> QED BY <2>1, <2>2 DEF Working
<1>3. CASE \E t \in Ticker : Liquidate(t)
  <2>1. \/ orders'[i] = orders[i]
        \/ InPosition(i) /\ orders'[i] = Moved(orders[i], "closing", orders[i].legs)
    BY <1>3 DEF Liquidate, LotsOf, HeldIds
  <2> QED BY <1>1, <2>1, MovedOrder DEF Working, InPosition
<1>4. CASE ExpireDayOrders
  <2>1. PICK st \in Status :
          /\ orders'[i] = Moved(orders[i], st, "none")
          /\ st \in {"resting", "open", "closing"} => Working(i)
    BY <1>1, <1>4 DEF ExpireDayOrders, Working
  <2> QED BY <1>1, <2>1, MovedOrder DEF Working
<1> QED BY <1>2, <1>3, <1>4

\* Such steps, the entry task standing still or giving up.
Bystander ==
  /\ Fading
  /\ UNCHANGED <<sent, trail>>
  /\ entryPc' \in {"equity", "submit"} =>
       entryPc' = entryPc /\ UNCHANGED <<want, positions, size, view>>

\* Whatever an entry reads, gets approved or sends is one of three actions.
LEMMA EntryActions ==
  ASSUME TypeOK, [Next]_vars
  PROVE  \/ Bystander
         \/ ReadPositions /\ ~EntryEnds
         \/ GetEquityAndValidate /\ ~EntryEnds
         \/ SubmitAccepted
<1> USE DEF TypeOK
<1>0. UNCHANGED orders => Fading
  BY DEF Fading, SameTerms, Working
<1>1. CASE \E t \in Ticker, side \in Side : Signal(t, side)
  BY <1>0, <1>1 DEF Signal, Bystander, orderVars
<1>2. CASE EntryEnds /\ UNCHANGED <<orderVars, trail>>
  BY <1>0, <1>2 DEF EntryEnds, Bystander, orderVars
<1>3. CASE SubmitAccepted
  BY <1>3
<1>4. CASE ReadPositions \/ GetEquityAndValidate
  BY <1>2, <1>4 DEF ReadPositions, GetEquityAndValidate
<1>5. CASE SubmitRaises \/ LogResult
  BY <1>2, <1>5 DEF SubmitRaises, LogResult
<1>6. CASE SubmitRefused
  BY <1>0, <1>6 DEF SubmitRefused, Bystander, orderVars
<1>7. CASE WakeForFlatten \/ Flatten
  <2>1. /\ \/ \E S \in SUBSET OrderId : CancelOrders(S)
           \/ \E t \in Ticker : Liquidate(t)
           \/ UNCHANGED orders
        /\ UNCHANGED <<sent, entryVars>>
    <3>1. CASE CancelAllOrders
      BY <3>1 DEF CancelAllOrders, CancelOrders
    <3>2. CASE \E t \in Ticker : ClosePosition(t)
      BY <3>2 DEF ClosePosition, CloseSucceeds, CloseRefused, CloseErrs, Liquidate, orderVars
    <3> QED BY <1>7, <3>1, <3>2
            DEF Flatten, WakeForFlatten, ReadBeforeFlatten, WaitForRelease, ListPositions,
                AllGathered, orderVars
  <2>2. Fading
    BY <1>0, <2>1, RequestsFade
  <2> QED BY <2>1, <2>2 DEF entryVars, Bystander
<1>8. CASE Restart
  BY <1>2, <1>8 DEF Restart
<1>9. CASE Tick
  <2>1. ExpireDayOrders \/ UNCHANGED orders
    BY <1>9 DEF Tick, orderVars
  <2>2. Fading
    BY <1>0, <2>1, RequestsFade
  <2> QED BY <1>9, <2>2 DEF Tick, entryVars, orderVars, Bystander
<1>10. CASE Broker
  BY <1>10, BrokerFades, BrokerStepType DEF Broker, entryVars, Bystander
<1>11. CASE UNCHANGED vars
  BY <1>0, <1>11 DEF vars, orderVars, entryVars, Bystander
<1> QED BY <1>1, <1>3, <1>4, <1>5, <1>6, <1>7, <1>8, <1>9, <1>10, <1>11 DEF Next, PlaceOrder

LEMMA BystanderKeepsEntryInv ==
  ASSUME BrokerageTypeOK, EntryInv, Bystander
  PROVE  EntryInv'
<1> USE DEF Bystander
<1>1. \A i \in WorkingIds' : i \in WorkingIds /\ orders'[i].ticker = orders[i].ticker
  BY DEF Fading, SameTerms, WorkingIds
<1>2. PyramidOnlyOverUnfilled'
  <2> SUFFICES ASSUME NEW i \in WorkingIds', NEW j \in 1..(i - 1),
                      orders'[j].ticker = orders'[i].ticker, Working(j)'
               PROVE  trail[i].blind \/ j \in trail[i].resting
    BY DEF PyramidOnlyOverUnfilled
  <2>1. i \in OrderId /\ j \in OrderId
    BY BrokerageAssumption DEF WorkingIds
  <2> QED BY <1>1, <2>1 DEF Fading, SameTerms, EntryInv, PyramidOnlyOverUnfilled
<1>3. entryPc' \in {"equity", "submit"} =>
        \A j \in WorkingIds' : orders'[j].ticker = want'.ticker
                                => view'.blind \/ j \in view'.resting
  BY <1>1 DEF EntryInv
<1> QED BY <1>2, <1>3 DEF EntryInv

\* The read itself: no lot on the ticker was in a successful answer, so what
\* works on it rested.
LEMMA ReadKeepsEntryInv ==
  ASSUME TypeOK, EntryInv, ReadPositions
  PROVE  EntryInv'
<1>1. UNCHANGED <<orders, sent, trail>>
  BY DEF ReadPositions, orderVars
<1>2. PyramidOnlyOverUnfilled'
  BY <1>1 DEF EntryInv, PyramidOnlyOverUnfilled, WorkingIds, Working
<1>3. PICK lots \in {HeldIds, {}} :
        IF AlreadyHeld(lots)
        THEN EntryEnds
        ELSE /\ view' = [resting |-> RestingIds, blind |-> lots # HeldIds]
             /\ UNCHANGED want
  BY DEF ReadPositions
<1>4. ASSUME entryPc' # "idle", NEW j \in WorkingIds, orders[j].ticker = want'.ticker
      PROVE  view'.blind \/ j \in view'.resting
  <2>1. /\ ~AlreadyHeld(lots)
        /\ view'.resting = RestingIds /\ view'.blind = (lots # HeldIds)
        /\ want' = want
    BY <1>3, <1>4 DEF EntryEnds
  <2>2. CASE lots # HeldIds
    BY <2>1, <2>2
  <2>3. CASE lots = HeldIds
    BY <1>4, <2>1, <2>3 DEF AlreadyHeld, TickersOf, HeldIds, RestingIds, InPosition, WorkingIds, Working
  <2> QED BY <2>2, <2>3
<1> QED BY <1>1, <1>2, <1>4 DEF EntryInv, WorkingIds, Working

\* The order that is accepted is the youngest; the older ones that work on its
\* ticker were seen resting.
LEMMA AcceptKeepsEntryInv ==
  ASSUME TypeOK, EntryInv, SubmitAccepted
  PROVE  EntryInv'
<1>1. /\ sent \in Nat /\ sent + 1 \in OrderId /\ entryPc = "submit" /\ entryPc' = "log"
      /\ \A j \in OrderId : j # sent + 1 => orders'[j] = orders[j]
      /\ orders'[sent + 1].ticker = want.ticker
      /\ trail' = [trail EXCEPT ![sent + 1] = view]
      /\ trail \in [OrderId -> View]
      /\ \A j \in OrderId : Working(j) => j <= sent
  BY BrokerageAssumption
     DEF SubmitAccepted, Accept, TypeOK, EntryTypeOK, BrokerageTypeOK, Working
<1> SUFFICES ASSUME NEW i \in WorkingIds', NEW j \in 1..(i - 1),
                    orders'[j].ticker = orders'[i].ticker, Working(j)'
             PROVE  trail'[i].blind \/ j \in trail'[i].resting
  BY <1>1 DEF EntryInv, PyramidOnlyOverUnfilled
<1>2. i \in OrderId /\ j \in OrderId /\ j < i /\ Working(i)'
  BY BrokerageAssumption DEF WorkingIds
<1>3. CASE i = sent + 1
  <2>1. j \in WorkingIds /\ orders[j].ticker = want.ticker /\ trail'[i] = view
    BY <1>1, <1>2, <1>3 DEF Working, WorkingIds
  <2> QED BY <1>1, <2>1 DEF EntryInv
<1>4. CASE i # sent + 1
  <2>1. i \in WorkingIds /\ j # sent + 1
    BY <1>1, <1>2, <1>4 DEF Working, WorkingIds
  <2> QED BY <1>1, <1>2, <1>4, <2>1 DEF EntryInv, PyramidOnlyOverUnfilled, Working
<1> QED BY <1>3, <1>4

LEMMA InitEntryInv == Init => EntryInv
BY BrokerageAssumption
   DEF Init, BrokerageInit, EntryInv, PyramidOnlyOverUnfilled, WorkingIds, Working, Unsent

\* The validation leaves the account and the view alone.
LEMMA ValidateKeepsEntryInv ==
  TypeOK /\ EntryInv /\ GetEquityAndValidate /\ ~EntryEnds => EntryInv'
BY DEF GetEquityAndValidate, EntryInv, PyramidOnlyOverUnfilled, WorkingIds, Working, orderVars

LEMMA NextEntryInv == TypeOK /\ EntryInv /\ [Next]_vars => EntryInv'
BY EntryActions, BystanderKeepsEntryInv, ReadKeepsEntryInv, ValidateKeepsEntryInv,
   AcceptKeepsEntryInv DEF TypeOK

\* Two orders work on one ticker only if the older was unfilled, or the read
\* had failed, when the younger was decided on: whatever else the account, the
\* flatten, the failing calls and the crashes do in between.
THEOREM PyramidsOnlyOverUnfilled == Spec => []PyramidOnlyOverUnfilled
<1>1. EntryInv => PyramidOnlyOverUnfilled
  BY DEF EntryInv
<1> QED BY InitEntryInv, NextEntryInv, TypeCorrect, <1>1, PTL DEF Spec

-----------------------------------------------------------------------------
(* Exposure.                                                               *)

QtyFun == [i \in OrderId |-> orders[i].qty]
SignedFun == [i \in OrderId |-> Signed(orders[i])]

LEMMA SharesType ==
  ASSUME BrokerageTypeOK
  PROVE  /\ IsFiniteSet(OrderId) /\ \A i \in OrderId : QtyFun[i] = orders[i].qty
         /\ QtyFun \in [OrderId -> Nat] /\ QtyFun \in [OrderId -> Int]
         /\ SignedFun \in [OrderId -> Int]
<1>1. IsFiniteSet(OrderId)
  BY BrokerageAssumption, FS_Interval
<1>2. \A i \in OrderId : orders[i].qty \in Nat /\ Signed(orders[i]) \in Int
  BY BrokerageAssumption DEF BrokerageTypeOK, Order, Signed
<1> QED
  BY <1>1, <1>2 DEF QtyFun, SignedFun

\* What QtyOf and the answer to GET /v2/positions sum up.
LEMMA SharesOf ==
  ASSUME NEW S
  PROVE  /\ QtyOf(S) = SumFunctionOnSet(QtyFun, S)
         /\ \A t \in Ticker :
              PositionsOf(S)[t].quantity
                = SumFunctionOnSet(SignedFun, {i \in S : orders[i].ticker = t})
BY Zenon DEF QtyOf, QtyFun, SignedFun, PositionsOf

\* Lots that do not offset each other: the value of a ticker's position is the
\* number of their shares.
LEMMA PositionValue ==
  ASSUME BrokerageTypeOK, NEW S \in SUBSET OrderId, OneSided(S), NEW t \in Ticker
  PROVE  market_value(PositionsOf(S)[t])
           = SumFunctionOnSet(QtyFun, {i \in S : orders[i].ticker = t})
<1> DEFINE U == {i \in S : orders[i].ticker = t}
           q == SumFunctionOnSet(QtyFun, U)
           n == SumFunctionOnSet(SignedFun, U)
<1>1. U \in SUBSET OrderId
  OBVIOUS
<1>2. q \in Nat
  <2> HIDE DEF U
  <2> QED
    BY <1>1, SharesType, SumGrows
<1>3. market_value(PositionsOf(S)[t]) = Magnitude(n) * 1
  <2>1. PositionsOf(S)[t].quantity = n /\ PositionsOf(S)[t].current_price = 1
    BY SharesOf DEF PositionsOf
  <2> HIDE DEF n
  <2> QED
    BY <2>1, Zenon DEF market_value
<1>4. CASE \A i \in U : orders[i].side = "buy"
  <2>1. \A i \in U : SignedFun[i] = QtyFun[i]
    BY <1>4 DEF SignedFun, QtyFun, Signed
  <2> HIDE DEF U
  <2>2. n = q
    BY <1>1, <2>1, SharesType, SumAgrees
  <2> HIDE DEF n, q
  <2>3. market_value(PositionsOf(S)[t]) = q
    BY <1>2, <1>3, <2>2 DEF Magnitude
  <2> QED
    BY <2>3 DEF q, U
<1>5. CASE \A i \in U : orders[i].side = "sell"
  <2>1. \A i \in U : SignedFun[i] = -QtyFun[i]
    BY <1>5 DEF SignedFun, QtyFun, Signed
  <2> HIDE DEF U
  <2>2. n = -q
    BY <1>1, <2>1, SharesType, SumNegated, ZenonT(60)
  <2> HIDE DEF n, q
  <2>3. market_value(PositionsOf(S)[t]) = q
    BY <1>2, <1>3, <2>2 DEF Magnitude
  <2> QED
    BY <2>3 DEF q, U
<1>6. (\A i \in U : orders[i].side = "buy") \/ (\A i \in U : orders[i].side = "sell")
  <2>1. \A i \in U : orders[i].side \in {"buy", "sell"}
    BY DEF BrokerageTypeOK, Order
  <2>2. \A i, j \in U : orders[i].side = orders[j].side
    BY DEF OneSided
  <2> HIDE DEF U
  <2> QED
    BY <2>1, <2>2
<1> QED
  BY <1>4, <1>5, <1>6

\* The total that validate_order reads off such positions is the number of all
\* their shares.
LEMMA ExposureIsQty ==
  ASSUME BrokerageTypeOK, NEW S \in SUBSET OrderId, OneSided(S),
         \A i \in S : orders[i].ticker \in Ticker
  PROVE  TotalExposure(PositionsOf(S)) = QtyOf(S) /\ QtyOf(S) \in Nat
<1> DEFINE g == [t \in Ticker |-> market_value(PositionsOf(S)[t])]
           ticker == [i \in OrderId |-> orders[i].ticker]
<1>1. \A i \in S : ticker[i] = orders[i].ticker /\ ticker[i] \in Ticker
  OBVIOUS
<1>2. \A t \in Ticker : g[t] = SumFunctionOnSet(QtyFun, {i \in S : ticker[i] = t})
  <2> SUFFICES ASSUME NEW t \in Ticker
               PROVE  g[t] = SumFunctionOnSet(QtyFun, {i \in S : ticker[i] = t})
    OBVIOUS
  <2>1. {i \in S : ticker[i] = t} = {i \in S : orders[i].ticker = t}
    BY <1>1
  <2> QED
    BY <1>1, <2>1, PositionValue
<1>3. g \in [Ticker -> Int]
  <2>1. \A t \in Ticker : {i \in S : ticker[i] = t} \in SUBSET OrderId
    BY <1>1
  <2>2. \A t \in Ticker : SumFunctionOnSet(QtyFun, {i \in S : ticker[i] = t}) \in Int
    BY <2>1, SharesType, SumStep
  <2> HIDE DEF ticker
  <2> QED
    BY <1>2, <2>2
<1>4. TotalExposure(PositionsOf(S)) = SumFunctionOnSet(g, Ticker)
  <2>1. TotalExposure(PositionsOf(S)) = SumFunction(g)
    BY Zenon DEF TotalExposure
  <2>2. SumFunction(g) = SumFunctionOnSet(g, DOMAIN g) /\ DOMAIN g = Ticker
    BY Zenon DEF SumFunction
  <2> QED
    BY <2>1, <2>2, Zenon
<1> HIDE DEF g, ticker
<1>5. SumFunctionOnSet(g, Ticker) = SumFunctionOnSet(QtyFun, S)
  <2> DEFINE part == [t \in Ticker |-> {i \in S : ticker[i] = t}]
  <2>1. Parts(S, Ticker, part)
    BY <1>1 DEF Parts
  <2>2. SumsOfParts(g, QtyFun, Ticker, part)
    BY <1>2 DEF SumsOfParts
  <2>3. IsFiniteSet(OrderId) /\ QtyFun \in [OrderId -> Int] /\ IsFiniteSet(Ticker)
    BY SharesType, RiskAssumption
  <2> HIDE DEF part
  <2>4. \A h \in [Ticker -> Int] :
          SumsOfParts(h, QtyFun, Ticker, part)
            => SumFunctionOnSet(h, Ticker) = SumFunctionOnSet(QtyFun, S)
    BY <2>1, <2>3, SumByParts, ZenonT(60)
  <2> QED
    BY <1>3, <2>2, <2>4
<1>6. SumFunctionOnSet(QtyFun, S) \in Nat
  BY <1>1, SharesType, SumGrows
<1> QED
  BY <1>4, <1>5, <1>6, SharesOf

\* The quantity approved when the account holds nothing of the ticker keeps the
\* positions and the order within the cap.
LEMMA ApprovedWithinCap ==
  ASSUME NEW t, NEW side, NEW book, NEW q \in 1..MaxRequest, NEW total \in Nat,
         validate_order(t, side, q, 1, Equity, book).approved,
         book[t].quantity = 0, TotalExposure(book) = total
  PROVE  100 * (validate_order(t, side, q, 1, Equity, book).quantity + total) <= CapShares
<1> DEFINE n == CappedQuantity(q, 1, Equity)
<1>1. validate_order(t, side, q, 1, Equity, book).quantity = n /\ n \in Int
  <2>1. Verdict(t, side, q, 1, Equity, book) = "ok"
    BY DEF validate_order
  <2>2. validate_order(t, side, q, 1, Equity, book).quantity \in 1..q
    BY ApprovedQuantity
  <2>3. q \in Int
    BY LiveOrdersAssumption
  <2>4. validate_order(t, side, q, 1, Equity, book).quantity = n
    BY <2>1 DEF validate_order
  <2> HIDE DEF n
  <2> QED BY <2>2, <2>3, <2>4
<1>2. ~(100 * ProjectedExposure(t, side, n * 1, book) > Equity * MaxTotalExposurePct)
  BY DEF validate_order, Verdict
<1>3. ProjectedExposure(t, side, n * 1, book) = total + n * 1
  BY Zenon DEF ProjectedExposure
<1> HIDE DEF n
<1>4. Equity * MaxTotalExposurePct \in Int
  BY LiveOrdersAssumption, RiskAssumption
<1> QED BY <1>1, <1>2, <1>3, <1>4 DEF CapShares

LEMMA InitCapInv == Init => CapInv
<1> SUFFICES ASSUME Init PROVE CapInv
  OBVIOUS
<1>1. WorkingIds = {} /\ entryPc = "idle"
  BY DEF Init, BrokerageInit, WorkingIds, Working, Unsent
<1> QED BY <1>1 DEF CapInv, OneSided

LEMMA BystanderKeepsCapInv ==
  ASSUME BrokerageTypeOK, CapInv, Bystander
  PROVE  CapInv'
<1>1. /\ \A i \in OrderId : SameTerms(orders'[i], orders[i])
      /\ WorkingIds' \subseteq WorkingIds /\ UNCHANGED <<sent, trail>>
      /\ entryPc' \in {"equity", "submit"} =>
           entryPc' = entryPc /\ UNCHANGED <<want, positions, size, view>>
  BY DEF Bystander, Fading, WorkingIds
<1>2. QtyFun' = QtyFun
  BY <1>1 DEF QtyFun, SameTerms
<1>3. OneSided(WorkingIds)'
  BY <1>1 DEF CapInv, OneSided, WorkingIds, SameTerms
<1>4. ASSUME entryPc' \in {"equity", "submit"}
      PROVE  /\ positions' \subseteq 1..sent' /\ OneSided(positions)' /\ ~AlreadyHeld(positions)'
             /\ Clear(view)' => WorkingIds' \subseteq positions'
  <2>1. /\ positions \subseteq 1..sent /\ OneSided(positions) /\ ~AlreadyHeld(positions)
        /\ Clear(view) => WorkingIds \subseteq positions
        /\ UNCHANGED <<positions, want, view>>
    BY <1>1, <1>4 DEF CapInv
  <2>2. positions \subseteq OrderId
    BY <2>1, BrokerageAssumption DEF BrokerageTypeOK
  <2>3. OneSided(positions)'
    BY <1>1, <2>1, <2>2 DEF OneSided, SameTerms
  <2>4. ~AlreadyHeld(positions)'
    BY <1>1, <2>1, <2>2 DEF AlreadyHeld, TickersOf, SameTerms
  <2> QED BY <1>1, <2>1, <2>3, <2>4 DEF Clear
<1>5. ASSUME entryPc' = "submit"
      PROVE  100 * (size' + QtyOf(positions)') <= CapShares
  <2>1. UNCHANGED <<positions, size>> /\ 100 * (size + QtyOf(positions)) <= CapShares
    BY <1>1, <1>5 DEF CapInv
  <2>2. QtyOf(positions)' = QtyOf(positions)
    BY <1>2, <2>1, Zenon DEF QtyOf, QtyFun
  <2> QED BY <2>1, <2>2
<1>6. ASSUME NEW i \in WorkingIds', Sighted(i)'
      PROVE  100 * QtyOf({j \in WorkingIds : j <= i})' <= CapShares
  <2> DEFINE S == {j \in WorkingIds : j <= i}
             U == {j \in WorkingIds' : j <= i}
  <2>1. 100 * QtyOf(S) <= CapShares
    BY <1>1, <1>6 DEF CapInv, Sighted, Clear
  <2>2. U \subseteq S /\ S \subseteq OrderId
    BY <1>1 DEF WorkingIds
  <2> HIDE DEF S, U
  <2>3. SumFunctionOnSet(QtyFun, U) <= SumFunctionOnSet(QtyFun, S)
        /\ SumFunctionOnSet(QtyFun, U) \in Nat /\ SumFunctionOnSet(QtyFun, S) \in Nat
    BY <2>2, SharesType, SumGrows
  <2>4. QtyOf(S) = SumFunctionOnSet(QtyFun, S)
    BY SharesOf
  <2>5. QtyOf({j \in WorkingIds : j <= i})' = SumFunctionOnSet(QtyFun, U)
    BY <1>2, Zenon DEF QtyOf, QtyFun, U
  <2>6. CapShares \in Int
    BY LiveOrdersAssumption, RiskAssumption DEF CapShares
  <2> QED BY <2>1, <2>3, <2>4, <2>5, <2>6
<1> QED BY <1>3, <1>4, <1>5, <1>6 DEF CapInv

\* The read finds everything that is filled; when nothing rests either, that is
\* all that works.
LEMMA ReadKeepsCapInv ==
  ASSUME TypeOK, CapInv, ReadPositions, ~EntryEnds
  PROVE  CapInv'
<1>1. UNCHANGED <<orders, sent, trail, want>> /\ entryPc' = "equity"
  BY DEF ReadPositions, orderVars
<1>2. PICK lots \in {HeldIds, {}} :
        /\ ~AlreadyHeld(lots) /\ positions' = lots
        /\ view' = [resting |-> RestingIds, blind |-> lots # HeldIds]
  BY DEF ReadPositions
<1>3. lots \subseteq 1..sent /\ lots \subseteq WorkingIds
  BY DEF HeldIds, InPosition, WorkingIds, Working, TypeOK, BrokerageTypeOK
<1>4. WorkingIds' = WorkingIds /\ QtyFun' = QtyFun
  BY <1>1 DEF WorkingIds, Working, QtyFun
<1>5. OneSided(WorkingIds)' /\ OneSided(positions)' /\ ~AlreadyHeld(positions)'
  BY <1>1, <1>2, <1>3, <1>4 DEF CapInv, OneSided, AlreadyHeld, TickersOf
<1>6. Clear(view)' => WorkingIds' \subseteq positions'
  <2> SUFFICES ASSUME Clear(view)' PROVE WorkingIds \subseteq lots
    BY <1>2, <1>4
  <2>1. lots = HeldIds /\ RestingIds = {}
    BY <1>2 DEF Clear
  <2> QED BY <2>1 DEF WorkingIds, Working, HeldIds, InPosition, RestingIds
<1>7. ASSUME NEW i \in WorkingIds', Sighted(i)'
      PROVE  100 * QtyOf({j \in WorkingIds : j <= i})' <= CapShares
  <2>1. 100 * QtyOf({j \in WorkingIds : j <= i}) <= CapShares
    BY <1>1, <1>4, <1>7 DEF CapInv, Sighted, Clear
  <2>2. QtyOf({j \in WorkingIds : j <= i})' = QtyOf({j \in WorkingIds : j <= i})
    BY <1>4, Zenon DEF QtyOf, QtyFun
  <2> QED BY <2>1, <2>2
<1> QED BY <1>1, <1>2, <1>3, <1>5, <1>6, <1>7 DEF CapInv

\* What gets approved fits under the cap with the positions read.
LEMMA ValidateKeepsCapInv ==
  ASSUME TypeOK, CapInv, GetEquityAndValidate, ~EntryEnds
  PROVE  CapInv'
<1>1. /\ UNCHANGED <<orders, sent, trail, want, positions, view>>
      /\ entryPc = "equity" /\ entryPc' = "submit"
  BY DEF GetEquityAndValidate, orderVars
<1>2. PICK q \in 1..MaxRequest :
        LET check == validate_order(want.ticker, want.side, q, 1, Equity,
                                    PositionsOf(positions))
        IN  check.approved /\ size' = check.quantity
  BY DEF GetEquityAndValidate, TypeOK, EntryTypeOK
<1>3. /\ positions \subseteq 1..sent /\ OneSided(positions) /\ ~AlreadyHeld(positions)
      /\ Clear(view) => WorkingIds \subseteq positions
  BY <1>1 DEF CapInv
<1>4. positions \subseteq OrderId /\ \A i \in positions : orders[i].ticker \in Ticker
  BY <1>3, BrokerageAssumption DEF TypeOK, BrokerageTypeOK
<1>5. TotalExposure(PositionsOf(positions)) = QtyOf(positions) /\ QtyOf(positions) \in Nat
  BY <1>3, <1>4, ExposureIsQty DEF TypeOK
<1>6. PositionsOf(positions)[want.ticker].quantity = 0
  <2>1. want.ticker \in Ticker
    BY <1>1 DEF TypeOK, EntryTypeOK
  <2>2. {i \in positions : orders[i].ticker = want.ticker} = {}
    BY <1>3 DEF AlreadyHeld, TickersOf
  <2>3. SumFunctionOnSet(SignedFun, {}) = 0
    BY SharesType, SumStep DEF TypeOK
  <2>4. PositionsOf(positions)[want.ticker].quantity
          = SumFunctionOnSet(SignedFun, {i \in positions : orders[i].ticker = want.ticker})
    BY <2>1, SharesOf
  <2> QED BY <2>2, <2>3, <2>4
<1>7. 100 * (size' + QtyOf(positions)) <= CapShares
  BY <1>2, <1>5, <1>6, ApprovedWithinCap
<1>8. WorkingIds' = WorkingIds /\ QtyFun' = QtyFun
  BY <1>1 DEF WorkingIds, Working, QtyFun
<1>9. QtyOf(positions)' = QtyOf(positions)
  BY <1>1, <1>8, Zenon DEF QtyOf, QtyFun
<1>10. OneSided(WorkingIds)' /\ OneSided(positions)' /\ ~AlreadyHeld(positions)'
  BY <1>1, <1>3, <1>8 DEF CapInv, OneSided, AlreadyHeld, TickersOf
<1>11. ASSUME NEW i \in WorkingIds', Sighted(i)'
      PROVE  100 * QtyOf({j \in WorkingIds : j <= i})' <= CapShares
  <2>1. 100 * QtyOf({j \in WorkingIds : j <= i}) <= CapShares
    BY <1>1, <1>8, <1>11 DEF CapInv, Sighted, Clear
  <2>2. QtyOf({j \in WorkingIds : j <= i})' = QtyOf({j \in WorkingIds : j <= i})
    BY <1>8, Zenon DEF QtyOf, QtyFun
  <2> QED BY <2>1, <2>2
<1>12. Clear(view)' => WorkingIds' \subseteq positions'
  BY <1>1, <1>3, <1>8 DEF Clear
<1>13. positions' \subseteq 1..sent'
  BY <1>1, <1>3
<1>14. 100 * (size' + QtyOf(positions)') <= CapShares
  BY <1>7, <1>9
<1> QED BY <1>10, <1>11, <1>12, <1>13, <1>14 DEF CapInv

\* The order accepted is the youngest. It does not offset what works, and when
\* its read was clear all of that is among the positions it was checked with.
LEMMA AcceptKeepsCapInv ==
  ASSUME TypeOK, CapInv, SubmitAccepted
  PROVE  CapInv'
<1> DEFINE n == sent + 1
<1>1. /\ sent \in Nat /\ n \in OrderId /\ sent' = n
      /\ entryPc = "submit" /\ entryPc' = "log" /\ size \in Nat
      /\ want.ticker \in Ticker /\ want.side \in Side
      /\ trail' = [trail EXCEPT ![n] = view] /\ trail \in [OrderId -> View]
      /\ \A j \in OrderId : Working(j) => j <= sent
  BY BrokerageAssumption
     DEF SubmitAccepted, Accept, TypeOK, EntryTypeOK, BrokerageTypeOK, Working
<1>2. /\ \A j \in OrderId : j # n => orders'[j] = orders[j]
      /\ orders'[n].ticker = want.ticker /\ orders'[n].side = want.side
      /\ orders'[n].qty = size /\ orders'[n].st = "resting"
  BY <1>1 DEF SubmitAccepted, Accept, TypeOK, BrokerageTypeOK
<1>3. BrokerageTypeOK'
  <2>1. sent < MaxOrders /\ size \in 0..MaxQty
    BY <1>1 DEF TypeOK, EntryTypeOK
  <2> QED BY <1>1, <2>1, AcceptType DEF SubmitAccepted, TypeOK
<1> HIDE DEF n
<1>4. WorkingIds' = WorkingIds \cup {n} /\ n \notin WorkingIds /\ WorkingIds \subseteq OrderId
  BY <1>1, <1>2 DEF WorkingIds, Working, n
<1>5. OneSided(WorkingIds)'
  <2>1. \A i \in WorkingIds : orders[i].ticker = want.ticker => orders[i].side = want.side
    BY DEF SubmitAccepted, Accept, Acceptable, WorkingIds
  <2>2. \A i \in WorkingIds : i # n /\ orders'[i] = orders[i]
    BY <1>2, <1>4
  <2> QED BY <1>2, <1>4, <2>1, <2>2 DEF CapInv, OneSided
<1>6. /\ IsFiniteSet(OrderId) /\ QtyFun \in [OrderId -> Nat] /\ QtyFun' \in [OrderId -> Nat]
      /\ QtyFun \in [OrderId -> Int] /\ QtyFun' \in [OrderId -> Int]
      /\ \A j \in OrderId \ {n} : QtyFun'[j] = QtyFun[j]
      /\ QtyFun'[n] = size
  <2>1. IsFiniteSet(OrderId) /\ QtyFun \in [OrderId -> Nat]
    BY SharesType DEF TypeOK
  <2>2. QtyFun' \in [OrderId -> Nat]
    BY <1>3, BrokerageAssumption DEF BrokerageTypeOK, Order, QtyFun
  <2>3. /\ \A j \in OrderId \ {n} : QtyFun'[j] = QtyFun[j]
        /\ QtyFun'[n] = size
    BY <1>1, <1>2 DEF QtyFun
  <2> QED BY <2>1, <2>2, <2>3
<1>10. PICK f, g : f = QtyFun /\ g = QtyFun'
  OBVIOUS
<1>11. IsFiniteSet(OrderId) /\ f \in [OrderId -> Int] /\ g \in [OrderId -> Int]
  BY <1>6, <1>10
<1>7. \A S \in SUBSET (OrderId \ {n}) : SumFunctionOnSet(g, S) = SumFunctionOnSet(f, S)
  <2>1. \A S \in SUBSET OrderId :
          (\A j \in S : g[j] = f[j]) => SumFunctionOnSet(g, S) = SumFunctionOnSet(f, S)
    BY <1>11, SumAgrees
  <2> QED BY <1>6, <1>10, <2>1
<1>12. ASSUME NEW S \in SUBSET OrderId, NEW y \in S
       PROVE  SumFunctionOnSet(g, S) = g[y] + SumFunctionOnSet(g, S \ {y})
  <2> HIDE DEF OrderId
  <2> QED BY <1>11, SumRemove
<1>8. CapShares \in Int
  BY LiveOrdersAssumption, RiskAssumption DEF CapShares
<1>9. ASSUME NEW i \in WorkingIds', Sighted(i)'
      PROVE  100 * QtyOf({j \in WorkingIds : j <= i})' <= CapShares
  <2> DEFINE U == {j \in WorkingIds' : j <= i}
  <2>1. QtyOf({j \in WorkingIds : j <= i})' = SumFunctionOnSet(QtyFun', U)
    BY Zenon DEF QtyOf, QtyFun
  <2>2. CASE i # n
    <3>1. i \in WorkingIds /\ i \in OrderId /\ i <= sent /\ Sighted(i)
      BY <1>1, <1>4, <1>9, <2>2 DEF Sighted, Clear, WorkingIds
    <3>2. U = {j \in WorkingIds : j <= i} /\ U \subseteq OrderId \ {n}
      <4>1. \A j \in WorkingIds' : j <= i => j \in WorkingIds
        <5>1. ~(n <= i) /\ i \in Int
          BY <1>1, <3>1 DEF n
        <5> QED BY <1>4, <5>1
      <4> QED BY <1>4, <4>1
    <3>3. 100 * QtyOf(U) <= CapShares
      BY <3>1, <3>2 DEF CapInv
    <3> HIDE DEF U
    <3>4. QtyOf(U) = SumFunctionOnSet(QtyFun, U)
      BY SharesOf
    <3> QED BY <1>7, <1>10, <2>1, <3>2, <3>3, <3>4
  <2>3. CASE i = n
    <3>1. Clear(view)
      BY <1>1, <1>9, <2>3 DEF Sighted, Clear
    <3>2. WorkingIds \subseteq positions /\ positions \subseteq OrderId
          /\ 100 * (size + QtyOf(positions)) <= CapShares
      BY <1>1, <3>1, BrokerageAssumption DEF CapInv, TypeOK, BrokerageTypeOK
    <3>3. U = WorkingIds' /\ n \in U /\ U \ {n} = WorkingIds /\ U \subseteq OrderId
      BY <1>1, <1>4, <2>3 DEF n, WorkingIds
    <3> HIDE DEF U
    <3>4. SumFunctionOnSet(QtyFun', U) = size + SumFunctionOnSet(QtyFun', U \ {n})
      <4>1. g[n] = size
        BY <1>6, <1>10
      <4>2. SumFunctionOnSet(g, U) = g[n] + SumFunctionOnSet(g, U \ {n})
        BY <1>12, <3>3
      <4> QED BY <1>10, <4>1, <4>2
    <3>5. SumFunctionOnSet(QtyFun', U \ {n}) = SumFunctionOnSet(QtyFun, WorkingIds)
      BY <1>4, <1>7, <1>10, <3>3
    <3>6. /\ SumFunctionOnSet(QtyFun, WorkingIds) <= SumFunctionOnSet(QtyFun, positions)
          /\ SumFunctionOnSet(QtyFun, WorkingIds) \in Nat
      BY <1>6, <3>2, SumGrows
    <3>7. SumFunctionOnSet(QtyFun, positions) \in Nat
      BY <1>6, <3>2, SumGrows
    <3>8. QtyOf(positions) = SumFunctionOnSet(QtyFun, positions)
      BY SharesOf
    <3> QED BY <1>1, <1>8, <2>1, <3>2, <3>4, <3>5, <3>6, <3>7, <3>8
  <2> QED BY <2>2, <2>3
<1> QED BY <1>1, <1>5, <1>9 DEF CapInv

LEMMA NextCapInv == TypeOK /\ CapInv /\ [Next]_vars => CapInv'
BY EntryActions, BystanderKeepsCapInv, ReadKeepsCapInv, ValidateKeepsCapInv,
   AcceptKeepsCapInv DEF TypeOK

\* The youngest order that works bounds them all.
LEMMA CapInvBounds ==
  ASSUME TypeOK, CapInv
  PROVE  ExposureWithinCap
<1> SUFFICES ASSUME \A i \in WorkingIds : Sighted(i)
             PROVE  100 * QtyOf(WorkingIds) <= CapShares
  BY DEF ExposureWithinCap
<1>1. WorkingIds \subseteq OrderId
  BY DEF WorkingIds
<1>2. CapShares \in Nat
  BY LiveOrdersAssumption, RiskAssumption DEF CapShares
<1>3. CASE WorkingIds = {}
  <2>1. SumFunctionOnSet(QtyFun, {}) = 0
    BY SharesType, SumStep DEF TypeOK
  <2>2. QtyOf(WorkingIds) = 0
    BY <1>3, <2>1, SharesOf
  <2> QED BY <1>2, <2>2
<1>4. CASE WorkingIds # {}
  <2>1. PICK i \in WorkingIds : \A j \in WorkingIds : j <= i
    <3> DEFINE T == {MaxOrders - j : j \in WorkingIds}
    <3>1. T \in SUBSET Nat /\ T # {}
      <4>1. \A j \in WorkingIds : MaxOrders - j \in Nat
        BY <1>1, BrokerageAssumption
      <4> QED BY <1>4, <4>1
    <3>2. PICK m \in T : \A k \in T : m <= k
      BY <3>1, LeastNatural
    <3>3. PICK i \in WorkingIds : m = MaxOrders - i
      BY <3>2
    <3>4. \A j \in WorkingIds : MaxOrders - i <= MaxOrders - j
      BY <3>2, <3>3
    <3> QED BY <1>1, <3>4, BrokerageAssumption
  <2>2. {j \in WorkingIds : j <= i} = WorkingIds
    BY <2>1
  <2> QED BY <2>1, <2>2 DEF CapInv
<1> QED BY <1>3, <1>4

\* As long as every working order was decided on while nothing rested and no
\* read failed, the account with its unfilled entries is within the cap on the
\* total exposure, for every watchlist, cap, equity and number of orders and
\* however reads, approvals, fills, exits and the flatten interleave.
THEOREM ExposureIsCapped == Spec => []ExposureWithinCap
BY InitType, NextType, InitCapInv, NextCapInv, CapInvBounds, TypeCorrect, PTL DEF Spec

-----------------------------------------------------------------------------
(* What the orders table shows.                                            *)

Owed == Misreported \cup Unanswered

LEMMA OwedCounts ==
  ASSUME TypeOK, NEW i, NEW S \in SUBSET (Owed \cup {i})
  PROVE  /\ IsFiniteSet(S) /\ Cardinality(S) \in Nat /\ Cardinality(Owed) \in Nat
         /\ Cardinality(S) <= Cardinality(Owed) + 1
         /\ S \subseteq Owed => Cardinality(S) <= Cardinality(Owed)
<1>1. IsFiniteSet(1..sent) /\ Owed \subseteq 1..sent
  BY FS_Interval, BrokerageAssumption
     DEF Owed, Misreported, Unanswered, TypeOK, BrokerageTypeOK
<1>2. IsFiniteSet(Owed) /\ Cardinality(Owed) \in Nat
  BY <1>1, FS_Subset, FS_CardinalityType
<1>3. /\ IsFiniteSet(Owed \cup {i}) /\ Cardinality(Owed \cup {i}) \in Nat
      /\ Cardinality(Owed \cup {i}) <= Cardinality(Owed) + 1
  BY <1>2, FS_AddElement, FS_CardinalityType
<1>4. IsFiniteSet(S) /\ Cardinality(S) <= Cardinality(Owed \cup {i})
  BY <1>3, FS_Subset
<1>5. Cardinality(S) \in Nat
  BY <1>4, FS_CardinalityType
<1>6. S \subseteq Owed => Cardinality(S) <= Cardinality(Owed)
  BY <1>2, FS_Subset
<1> QED BY <1>2, <1>3, <1>4, <1>5, <1>6

LEMMA CountersType == TypeOK => faults \in Nat /\ restarts \in Nat
BY LiveOrdersAssumption DEF TypeOK, ClockTypeOK

\* What a step may cost: an order comes to be owed only with a failed call, a
\* failed write or a crash.
LEMMA Owing ==
  ASSUME TypeOK, [Next]_vars
  PROVE  \/ Owed' \subseteq Owed /\ faults' + restarts' >= faults + restarts
         \/ /\ \E i : Owed' \subseteq Owed \cup {i}
            /\ faults' + restarts' = faults + restarts + 1
<1>0. faults \in Nat /\ restarts \in Nat
  BY CountersType
<1>1. (NoFault \/ Fault) => faults' + restarts' >= faults + restarts
  BY <1>0 DEF NoFault, Fault, failureVars
<1>2. CASE /\ UNCHANGED <<sent, row>> /\ entryPc # "log"
           /\ entryPc' # "log" \/ result' = NoResult
           /\ NoFault \/ Fault
  BY <1>1, <1>2 DEF Owed, Misreported, Unanswered, NoResult
<1>3. CASE UNCHANGED <<sent, entryVars>> /\ (NoFault \/ Fault)
  BY <1>1, <1>3 DEF Owed, Misreported, Unanswered, entryVars
<1>4. CASE SubmitAccepted
  <2>1. /\ entryPc = "submit" /\ entryPc' = "log" /\ sent' = sent + 1 /\ sent \in Nat
        /\ UNCHANGED row /\ result'.id = sent + 1
        /\ \/ NoFault /\ result'.success
           \/ Fault
    BY <1>4, BrokerageAssumption DEF SubmitAccepted, Accept, TypeOK, BrokerageTypeOK
  <2>2. Owed' \subseteq Owed \cup {sent + 1}
    BY <2>1 DEF Owed, Misreported, Unanswered
  <2>3. result'.success => Owed' \subseteq Owed
    BY <2>1 DEF Owed, Misreported, Unanswered
  <2>4. Fault => faults' + restarts' = faults + restarts + 1
    BY <1>0 DEF Fault
  <2> QED BY <1>1, <2>1, <2>2, <2>3, <2>4
<1>5. CASE LogResult /\ row' = ResultRow /\ NoFault
  <2>1. UNCHANGED sent /\ entryPc = "log" /\ entryPc' = "idle" /\ row' = ResultRow /\ NoFault
    BY <1>5 DEF LogResult, EntryEnds, orderVars
  <2>2. 1..sent \subseteq OrderId
    BY BrokerageAssumption DEF TypeOK, BrokerageTypeOK
  <2>3. ASSUME NEW i \in Owed' PROVE i \in Owed
    <3>1. i \in 1..sent /\ i \in OrderId /\ row'[i] # "submitted"
      BY <2>1, <2>2 DEF Owed, Misreported, Unanswered
    <3>2. row'[i] = IF i # result.id THEN row[i]
                    ELSE IF result.success THEN "submitted" ELSE "failed"
      BY <2>1, <3>1 DEF ResultRow
    <3> QED BY <2>1, <3>1, <3>2 DEF Owed, Misreported, Unanswered
  <2> QED BY <1>1, <2>1, <2>3
<1>6. CASE Restart \/ (LogResult /\ UNCHANGED row /\ Fault)
  <2>1. /\ UNCHANGED <<sent, row>> /\ entryPc' = "idle"
        /\ faults' + restarts' = faults + restarts + 1
    BY <1>0, <1>6 DEF Restart, LogResult, EntryEnds, orderVars, Fault
  <2>2. Owed' \subseteq Owed \cup {result.id}
    BY <2>1 DEF Owed, Misreported, Unanswered
  <2> QED BY <2>1, <2>2
<1>7. CASE \E t \in Ticker, side \in Side : Signal(t, side)
  BY <1>2, <1>7 DEF Signal, orderVars
<1>8. CASE ReadPositions
  BY <1>2, <1>8 DEF ReadPositions, EntryEnds, orderVars
<1>9. CASE GetEquityAndValidate
  <2>1. /\ UNCHANGED <<sent, row>> /\ entryPc = "equity"
        /\ entryPc' # "log"
        /\ NoFault \/ Fault
    BY <1>9 DEF GetEquityAndValidate, EquityAnswer, EntryEnds, orderVars
  <2> QED BY <1>2, <2>1
<1>10. CASE SubmitRaises \/ SubmitRefused
  BY <1>2, <1>10 DEF SubmitRaises, SubmitRefused, EntryEnds, orderVars
<1>11. CASE WakeForFlatten \/ Flatten
  <2>1. CASE CancelAllOrders
    BY <1>3, <2>1 DEF CancelAllOrders, CancelOrders
  <2>2. CASE \E t \in Ticker : ClosePosition(t)
    BY <1>3, <2>2 DEF ClosePosition, CloseSucceeds, CloseRefused, CloseErrs, Liquidate, orderVars
  <2> QED BY <1>3, <1>11, <2>1, <2>2
          DEF Flatten, WakeForFlatten, ReadBeforeFlatten, WaitForRelease, ListPositions,
              AllGathered, orderVars
<1>12. CASE Tick
  BY <1>3, <1>12 DEF Tick, orderVars, NoFault
<1>13. CASE Broker
  BY <1>3, <1>13, BrokerStepType DEF Broker, NoFault, TypeOK
<1>14. CASE UNCHANGED vars
  BY <1>3, <1>14 DEF vars, orderVars, NoFault
<1> QED BY <1>4, <1>5, <1>6, <1>7, <1>8, <1>9, <1>10, <1>11, <1>12, <1>13, <1>14
        DEF Next, PlaceOrder, LogResult

LEMMA InitReportInv == Init => ReportInv
<1> SUFFICES ASSUME Init PROVE ReportInv
  OBVIOUS
<1>1. Misreported \cup Unanswered = {}
  BY DEF Init, BrokerageInit, Misreported, Unanswered
<1>2. faults = 0 /\ restarts = 0
  BY DEF Init
<1> QED BY <1>1, <1>2, FS_EmptySet DEF ReportInv

LEMMA NextReportInv == TypeOK /\ ReportInv /\ [Next]_vars => ReportInv'
<1> SUFFICES ASSUME TypeOK, ReportInv, [Next]_vars PROVE ReportInv'
  OBVIOUS
<1>1. PICK f, r : f = faults' /\ r = restarts'
  OBVIOUS
<1>6. /\ faults \in Nat /\ restarts \in Nat /\ f \in Nat /\ r \in Nat
  BY <1>1, CountersType, NextType, LiveOrdersAssumption DEF TypeOK, ClockTypeOK
<1>2. PICK c, d : c = Cardinality(Owed) /\ d = Cardinality(Owed')
  OBVIOUS
<1>3. c <= faults + restarts
  BY <1>2 DEF ReportInv, Owed
<1>4. /\ c \in Nat /\ d \in Nat
      /\ \/ d <= c /\ f + r >= faults + restarts
         \/ d <= c + 1 /\ f + r = faults + restarts + 1
  <2>1. ASSUME NEW i, Owed' \subseteq Owed \cup {i}
        PROVE  c \in Nat /\ d \in Nat /\ d <= c + 1 /\ (Owed' \subseteq Owed => d <= c)
    BY <1>2, <2>1, OwedCounts
  <2> QED BY <1>1, <2>1, Owing
<1>5. d <= f + r
  BY <1>3, <1>4, <1>6
<1> QED BY <1>1, <1>2, <1>5, Zenon DEF ReportInv, Owed

\* Every order that the orders table does not show as submitted has cost one
\* failed call, one failed write of a row or one crash, for every number of each.
THEOREM MisreportsCostFailures == Spec => []MisreportedOnlyByFailure
<1>1. TypeOK /\ ReportInv => MisreportedOnlyByFailure
  <2> SUFFICES ASSUME TypeOK, ReportInv PROVE MisreportedOnlyByFailure
    OBVIOUS
  <2>1. Misreported \subseteq Owed
    BY DEF Owed
  <2>2. Cardinality(Misreported) \in Nat /\ Cardinality(Owed) \in Nat
        /\ Cardinality(Misreported) <= Cardinality(Owed)
    BY <2>1, OwedCounts
  <2> QED BY <2>2, CountersType DEF ReportInv, Owed, MisreportedOnlyByFailure
<1> QED BY InitReportInv, NextReportInv, TypeCorrect, <1>1, PTL DEF Spec

-----------------------------------------------------------------------------
(* The life of an order.                                                   *)

Book == [i \in OrderId |-> BookOf(i)]
Mishaps == faults + restarts

\* The abstract view of the account and of the rows that are owed.
LEMMA BookReads ==
  ASSUME TypeOK
  PROVE  /\ Lifecycle!Sent = {i \in OrderId : orders[i].st # "unsent"}
         /\ Lifecycle!Owed = {i \in Lifecycle!Sent : entryPc = "log" /\ result.id = i}
         /\ \A i \in Lifecycle!Sent :
              BookOf(i) = [life |-> LifeOf(orders[i].st), row |-> RowSeen(i),
                           terms |-> <<orders[i].ticker, orders[i].side, orders[i].qty>>]
         /\ \A i \in OrderId \ Lifecycle!Sent : BookOf(i) = [life |-> "unsent"]
<1>1. \A i \in OrderId : orders[i].st \in Status
  BY DEF TypeOK, BrokerageTypeOK, Order
<1>2. \A st \in Status \ {"unsent"} : LifeOf(st) \in {"resting", "lot", "over"}
  BY DEF LifeOf
<1>3. ASSUME NEW i \in OrderId
      PROVE  /\ BookOf(i).life # "unsent" <=> orders[i].st # "unsent"
             /\ orders[i].st # "unsent" => BookOf(i).row = RowSeen(i)
  BY <1>1, <1>2 DEF BookOf
<1>4. Lifecycle!Sent = {i \in OrderId : orders[i].st # "unsent"}
  BY <1>3 DEF Lifecycle!Sent
<1>5. ASSUME NEW i \in OrderId
      PROVE  RowSeen(i) \in {"answered", "unanswered"} <=> entryPc = "log" /\ result.id = i
  <2>1. row[i] \in {"none", "submitted", "failed"}
    BY DEF TypeOK, EntryTypeOK
  <2> QED BY <2>1 DEF RowSeen
<1>6. Lifecycle!Owed = {i \in Lifecycle!Sent : entryPc = "log" /\ result.id = i}
  BY <1>3, <1>4, <1>5 DEF Lifecycle!Owed
<1> QED BY <1>4, <1>6 DEF BookOf

\* A step that moves orders on, all on their terms, and sends none.
Onward(st, now) ==
  /\ now = "unsent" <=> st = "unsent"
  /\ st # "unsent" => <<LifeOf(st), LifeOf(now)>> \in Lifecycle!Moves
Forward ==
  \A i \in OrderId : SameTerms(orders'[i], orders[i]) /\ Onward(orders[i].st, orders'[i].st)

LEMMA OnwardCases ==
  /\ \A st \in Status : Onward(st, st)
  /\ \A st \in {"resting"} : \A now \in {"open", "cancelled"} : Onward(st, now)
  /\ \A st \in {"open", "closing"} : \A now \in {"open", "closing", "exited"} : Onward(st, now)
BY DEF Onward, LifeOf, Lifecycle!Moves, Lifecycle!Lives

LEMMA AllForward ==
  ASSUME BrokerageTypeOK,
         \/ BrokerStep
         \/ \E S \in SUBSET OrderId : CancelOrders(S)
         \/ \E t \in Ticker : Liquidate(t)
         \/ ExpireDayOrders
         \/ UNCHANGED orders
  PROVE  Forward
<1> SUFFICES ASSUME NEW i \in OrderId
             PROVE  SameTerms(orders'[i], orders[i]) /\ Onward(orders[i].st, orders'[i].st)
  BY DEF Forward
<1> USE DEF SameTerms
<1>1. orders[i] \in Order /\ orders[i].legs \in Legs /\ orders[i].st \in Status
  BY DEF BrokerageTypeOK, Order
<1>2. CASE BrokerStep
  <2>1. PICK j \in OrderId, o \in Order :
           /\ orders' = [orders EXCEPT ![j] = o]
           /\ o.ticker = orders[j].ticker /\ o.side = orders[j].side /\ o.qty = orders[j].qty
           /\ \/ o.st = orders[j].st
              \/ orders[j].st = "resting" /\ o.st = "open"
              \/ orders[j].st \in {"open", "closing"} /\ o.st = "exited"
    BY <1>2, BrokerMoves
  <2>2. CASE i = j
    <3>1. orders'[i] = o
      BY <2>1, <2>2 DEF BrokerageTypeOK
    <3> QED BY <1>1, <2>1, <2>2, <3>1, OnwardCases
  <2>3. CASE i # j
    <3>1. orders'[i] = orders[i]
      BY <2>1, <2>3 DEF BrokerageTypeOK
    <3> QED BY <1>1, <3>1, OnwardCases
  <2> QED BY <2>2, <2>3
<1>3. CASE \E S \in SUBSET OrderId : CancelOrders(S)
  <2>1. orders'[i] \in {orders[i], Cancelled(orders[i])}
    BY <1>3 DEF CancelOrders
  <2>2. /\ SameTerms(Cancelled(orders[i]), orders[i])
        /\ Cancelled(orders[i]).st = IF orders[i].st = "resting" THEN "cancelled"
                                     ELSE IF orders[i].st = "closing" THEN "open" ELSE orders[i].st
    BY <1>1, MovedOrder DEF Cancelled
  <2> QED BY <1>1, <2>1, <2>2, OnwardCases
<1>4. CASE \E t \in Ticker : Liquidate(t)
  <2>1. \/ orders'[i] = orders[i]
        \/ InPosition(i) /\ orders'[i] = Moved(orders[i], "closing", orders[i].legs)
    BY <1>4 DEF Liquidate, LotsOf, HeldIds
  <2> QED BY <1>1, <2>1, MovedOrder, OnwardCases DEF InPosition
<1>5. CASE ExpireDayOrders
  <2>1. PICK st \in Status :
          /\ orders'[i] = Moved(orders[i], st, "none")
          /\ st = IF orders[i].st = "resting" THEN "cancelled" ELSE orders[i].st
    BY <1>1, <1>5 DEF ExpireDayOrders
  <2> QED BY <1>1, <2>1, MovedOrder, OnwardCases
<1>6. CASE UNCHANGED orders
  BY <1>1, <1>6, OnwardCases
<1> QED BY <1>2, <1>3, <1>4, <1>5, <1>6

\* No row is written, none comes to be owed, at most one call fails.
RowsStand ==
  /\ UNCHANGED <<sent, row>>
  /\ \/ UNCHANGED <<entryPc, result>>
     \/ entryPc # "log" /\ (entryPc' # "log" \/ result' = NoResult)
  /\ Mishaps' \in {Mishaps, Mishaps + 1}

LEMMA SameRows ==
  ASSUME RowsStand, NEW i \in OrderId
  PROVE  RowSeen(i)' = RowSeen(i)
<1>1. i # 0
  BY BrokerageAssumption
<1>2. NoResult.id = 0
  BY DEF NoResult
<1> QED BY <1>1, <1>2 DEF RowsStand, RowSeen

LEMMA StepKinds ==
  ASSUME TypeOK, [Next]_vars
  PROVE  \/ Forward /\ RowsStand
         \/ SubmitAccepted
         \/ LogResult
         \/ Restart
<1>0. faults \in Nat /\ restarts \in Nat
  BY CountersType
<1>1. (NoFault \/ Fault) => Mishaps' \in {Mishaps, Mishaps + 1}
  BY <1>0 DEF NoFault, Fault, failureVars, Mishaps
<1>2. BrokerageTypeOK
  BY DEF TypeOK
<1>3. UNCHANGED orders => Forward
  BY <1>2, AllForward
<1>4. CASE /\ UNCHANGED <<orders, sent, row>> /\ entryPc # "log"
           /\ entryPc' # "log" \/ result' = NoResult
           /\ NoFault \/ Fault
  BY <1>1, <1>3, <1>4 DEF RowsStand
<1>5. CASE Forward /\ UNCHANGED <<sent, entryVars>> /\ (NoFault \/ Fault)
  BY <1>1, <1>5 DEF RowsStand, entryVars
<1>6. CASE \E t \in Ticker, side \in Side : Signal(t, side)
  BY <1>4, <1>6 DEF Signal, orderVars
<1>7. CASE ReadPositions
  BY <1>4, <1>7 DEF ReadPositions, EntryEnds, orderVars
<1>8. CASE GetEquityAndValidate
  <2>1. /\ UNCHANGED <<orders, sent, row>> /\ entryPc = "equity"
        /\ entryPc' # "log"
        /\ NoFault \/ Fault
    BY <1>8 DEF GetEquityAndValidate, EquityAnswer, EntryEnds, orderVars
  <2> QED BY <1>4, <2>1
<1>9. CASE SubmitRaises \/ SubmitRefused
  BY <1>4, <1>9 DEF SubmitRaises, SubmitRefused, EntryEnds, orderVars
<1>10. CASE WakeForFlatten \/ Flatten
  <2>1. /\ \/ \E S \in SUBSET OrderId : CancelOrders(S)
           \/ \E t \in Ticker : Liquidate(t)
           \/ UNCHANGED orders
        /\ UNCHANGED <<sent, entryVars>>
        /\ NoFault \/ Fault
    <3>1. CASE CancelAllOrders
      BY <3>1 DEF CancelAllOrders, CancelOrders
    <3>2. CASE \E t \in Ticker : ClosePosition(t)
      BY <3>2 DEF ClosePosition, CloseSucceeds, CloseRefused, CloseErrs, Liquidate, orderVars
    <3> QED BY <1>10, <3>1, <3>2
            DEF Flatten, WakeForFlatten, ReadBeforeFlatten, WaitForRelease, ListPositions,
                AllGathered, orderVars
  <2>2. Forward
    BY <1>2, <2>1, AllForward
  <2> QED BY <1>5, <2>1, <2>2
<1>11. CASE Tick
  <2>1. ExpireDayOrders \/ UNCHANGED orders
    BY <1>11 DEF Tick, orderVars
  <2>2. Forward
    BY <1>2, <2>1, AllForward
  <2> QED BY <1>5, <1>11, <2>2 DEF Tick, orderVars, NoFault
<1>12. CASE Broker
  BY <1>2, <1>5, <1>12, AllForward, BrokerStepType DEF Broker, NoFault
<1>13. CASE UNCHANGED vars
  BY <1>3, <1>5, <1>13 DEF vars, orderVars, NoFault
<1> QED BY <1>6, <1>7, <1>8, <1>9, <1>10, <1>11, <1>12, <1>13 DEF Next, PlaceOrder

\* A row is written once: none is there while it is owed, or before its order.
RowInv ==
  /\ entryPc = "log" => result.id <= sent
  /\ \A i \in OrderId : row[i] # "none" => i <= sent /\ ~(entryPc = "log" /\ result.id = i)

LEMMA NextRowInv ==
  ASSUME TypeOK, RowInv, [Next]_vars
  PROVE  RowInv'
<1>1. sent \in Nat /\ \A i \in OrderId : i \in Nat /\ i # 0
  BY BrokerageAssumption DEF TypeOK, BrokerageTypeOK
<1>2. NoResult.id = 0
  BY DEF NoResult
<1>3. CASE RowsStand
  BY <1>1, <1>2, <1>3 DEF RowsStand, RowInv
<1>4. CASE SubmitAccepted
  <2>1. entryPc = "submit" /\ sent' = sent + 1 /\ UNCHANGED row /\ result'.id = sent + 1
    BY <1>4 DEF SubmitAccepted, Accept
  <2> QED BY <1>1, <2>1 DEF RowInv
<1>5. CASE LogResult
  <2>1. UNCHANGED sent /\ entryPc = "log" /\ entryPc' = "idle" /\ row' \in {ResultRow, row}
    BY <1>5 DEF LogResult, EntryEnds, orderVars
  <2>2. \A i \in OrderId : i # result.id => row'[i] = row[i]
    BY <2>1 DEF ResultRow
  <2> QED BY <1>1, <2>1, <2>2 DEF RowInv
<1>6. CASE Restart
  BY <1>6 DEF Restart, EntryEnds, orderVars, RowInv
<1> QED BY <1>3, <1>4, <1>5, <1>6, StepKinds

\* A step that only moves orders on is a step of the market.
LEMMA ForwardIsTrade ==
  ASSUME TypeOK, TypeOK', Forward, RowsStand
  PROVE  Lifecycle!Trade
<1>1. \A i \in OrderId : (orders[i].st = "unsent" <=> orders'[i].st = "unsent")
  BY DEF Forward, Onward
<1>2. \A i \in Lifecycle!Sent : i \in OrderId /\ orders[i].st # "unsent"
  BY BookReads
<1>3. \A i \in Lifecycle!Sent : <<LifeOf(orders[i].st), LifeOf(orders'[i].st)>> \in Lifecycle!Moves
  BY <1>2 DEF Forward, Onward
<1>4. \A i \in Lifecycle!Sent : LifeOf(orders'[i].st) \in Lifecycle!Lives
  <2>1. \A st \in Status \ {"unsent"} : LifeOf(st) \in Lifecycle!Lives
    BY DEF LifeOf, Lifecycle!Lives
  <2>2. \A i \in Lifecycle!Sent : orders'[i].st \in Status \ {"unsent"}
    BY <1>1, <1>2 DEF TypeOK, BrokerageTypeOK, Order
  <2> QED BY <2>1, <2>2
<1>5. ASSUME NEW i \in Lifecycle!Sent
      PROVE  Book'[i] \in Lifecycle!Later(Book[i])
  <2> DEFINE life == LifeOf(orders[i].st)
             now == LifeOf(orders'[i].st)
  <2>1. i \in OrderId /\ orders'[i].st # "unsent"
    BY <1>1, <1>2
  <2>2. BookOf(i) = [life |-> life, row |-> RowSeen(i),
                     terms |-> <<orders[i].ticker, orders[i].side, orders[i].qty>>]
    BY BookReads
  <2>3. BookOf(i)' = [life |-> now, row |-> RowSeen(i)',
                      terms |-> <<orders'[i].ticker, orders'[i].side, orders'[i].qty>>]
    BY <2>1 DEF BookOf
  <2>4. RowSeen(i)' = RowSeen(i) /\ SameTerms(orders'[i], orders[i])
    BY <2>1, SameRows DEF Forward
  <2>5. Book[i] = BookOf(i) /\ Book'[i] = BookOf(i)'
    BY <2>1 DEF Book
  <2>6. <<life, now>> \in Lifecycle!Moves /\ now \in Lifecycle!Lives
    BY <1>3, <1>4
  <2> HIDE DEF life, now
  <2>7. Book'[i] = [Book[i] EXCEPT !.life = now] /\ Book[i].life = life
    BY <2>2, <2>3, <2>4, <2>5 DEF SameTerms
  <2> QED BY <2>6, <2>7 DEF Lifecycle!Later
<1>6. ASSUME NEW i \in OrderId \ Lifecycle!Sent PROVE Book'[i] = Lifecycle!Unsent
  <2>1. orders'[i].st = "unsent"
    BY <1>1, BookReads
  <2> QED BY <2>1 DEF Book, BookOf, Lifecycle!Unsent
<1>7. /\ DOMAIN Book' = OrderId
      /\ \A i \in OrderId : Book'[i] \in IF i \in Lifecycle!Sent THEN Lifecycle!Later(Book[i])
                                         ELSE {Lifecycle!Unsent}
  BY <1>5, <1>6 DEF Book
<1>8. Mishaps' \in {Mishaps, Mishaps + 1}
  BY DEF RowsStand
<1> QED BY <1>7, <1>8 DEF Lifecycle!Trade, Lifecycle!MayFail, Book, Mishaps

\* An accepted submission is the acceptance of the next order.
LEMMA SubmissionIsAccept ==
  ASSUME TypeOK, TypeOK', SubmitAccepted
  PROVE  \E i \in OrderId, terms \in Ticker \X Side \X (1..MaxQty) : Lifecycle!Accept(i, terms)
<1> PICK n : n = sent + 1
  OBVIOUS
<1> DEFINE terms == <<want.ticker, want.side, size>>
<1>1. /\ sent \in Nat /\ n \in OrderId /\ n \in Nat /\ sent' = n
      /\ orders' = [orders EXCEPT ![n] = [ticker |-> want.ticker, side |-> want.side, qty |-> size,
                                          st |-> "resting", legs |-> "none"]]
      /\ entryPc = "submit" /\ entryPc' = "log" /\ UNCHANGED row
      /\ orders \in [OrderId -> Order]
      /\ \A i \in OrderId : orders[i].st # "unsent" <=> i <= sent
  BY BrokerageAssumption DEF SubmitAccepted, Accept, TypeOK, EntryTypeOK, BrokerageTypeOK
<1>2. terms \in Ticker \X Side \X (1..MaxQty)
  <2>1. want.ticker \in Ticker /\ want.side \in Side /\ size \in 1..MaxQty
    BY <1>1, BrokerageAssumption DEF TypeOK, EntryTypeOK
  <2> QED BY <2>1
<1>3. n \notin Lifecycle!Sent /\ (\A j \in OrderId : j < n => j \in Lifecycle!Sent) /\ Lifecycle!Owed = {}
  <2>1. n > sent /\ \A j \in OrderId : j < n => j <= sent
    BY <1>1, BrokerageAssumption
  <2> QED BY <1>1, <2>1, BookReads
<1>4. PICK ok \in BOOLEAN : /\ result' = [success |-> ok, id |-> n]
                            /\ Mishaps' = IF ok THEN Mishaps ELSE Mishaps + 1
  <2>1. CASE NoFault /\ result' = [success |-> TRUE, id |-> n]
    BY <2>1 DEF NoFault, failureVars, Mishaps
  <2>2. CASE Fault /\ result' = [success |-> FALSE, id |-> n]
    <3>1. Mishaps' = Mishaps + 1
      BY <2>2, CountersType DEF Fault, Mishaps
    <3>2. Mishaps' = IF FALSE THEN Mishaps ELSE Mishaps + 1
      BY <3>1
    <3> QED BY <2>2, <3>2
  <2> QED BY <2>1, <2>2 DEF SubmitAccepted
<1> DEFINE seen == IF ok THEN "answered" ELSE "unanswered"
<1>5. \A i \in OrderId \ {n} : BookOf(i)' = BookOf(i)
  <2> SUFFICES ASSUME NEW i \in OrderId \ {n} PROVE BookOf(i)' = BookOf(i)
    OBVIOUS
  <2>1. orders'[i] = orders[i]
    BY <1>1
  <2>2. RowSeen(i)' = RowSeen(i)
    BY <1>1, <1>4 DEF RowSeen
  <2> QED BY <2>1, <2>2 DEF BookOf
<1>6. BookOf(n)' = Lifecycle!Accepted(terms, seen)
  <2>1. /\ orders'[n].st = "resting" /\ orders'[n].ticker = want.ticker
        /\ orders'[n].side = want.side /\ orders'[n].qty = size
    BY <1>1
  <2>2. RowSeen(n)' = seen
    BY <1>1, <1>4 DEF RowSeen
  <2> HIDE DEF seen
  <2> QED BY <2>1, <2>2 DEF BookOf, LifeOf, Lifecycle!Accepted
<1> HIDE DEF terms
<1>7. Book' = [Book EXCEPT ![n] = Lifecycle!Accepted(terms, seen)]
  BY <1>1, <1>5, <1>6 DEF Book
<1>8. Lifecycle!Accept(n, terms)
  <2>1. CASE ok
    BY <1>3, <1>4, <1>7, <2>1 DEF Lifecycle!Accept, Book, Mishaps
  <2>2. CASE ~ok
    BY <1>3, <1>4, <1>7, <2>2 DEF Lifecycle!Accept, Book, Mishaps
  <2> QED BY <2>1, <2>2
<1> QED BY <1>1, <1>2, <1>8

\* The row that is written is the one that is owed; a refused order has none.
LEMMA RowIsRecord ==
  ASSUME TypeOK, TypeOK', LogResult, row' = ResultRow, NoFault
  PROVE  (\E i \in OrderId : Lifecycle!Record(i)) \/ UNCHANGED <<Book, Mishaps>>
<1>1. /\ UNCHANGED orders /\ entryPc = "log" /\ entryPc' = "idle" /\ row' = ResultRow
      /\ UNCHANGED Mishaps
  BY DEF LogResult, EntryEnds, orderVars, NoFault, failureVars, Mishaps
<1> PICK n, ok : n = result.id /\ ok = result.success
  OBVIOUS
<1>2. \A i \in OrderId : row'[i] = IF i # n THEN row[i]
                                   ELSE IF ok THEN "submitted" ELSE "failed"
  BY <1>1 DEF ResultRow
<1>3. \A i \in OrderId \ {n} : BookOf(i)' = BookOf(i)
  BY <1>1, <1>2 DEF BookOf, RowSeen
<1>4. CASE n \notin Lifecycle!Sent
  <2>1. \A i \in OrderId : BookOf(i)' = BookOf(i)
    <3>1. n \in OrderId => orders[n].st = "unsent"
      BY <1>4, BookReads
    <3> QED BY <1>1, <1>3, <3>1 DEF BookOf
  <2> QED BY <1>1, <2>1 DEF Book
<1>5. CASE n \in Lifecycle!Sent
  <2>1. n \in OrderId /\ n \in Lifecycle!Owed /\ orders[n].st # "unsent"
    BY <1>1, <1>5, BookReads
  <2>2. /\ RowSeen(n) = IF ok THEN "answered" ELSE "unanswered"
        /\ RowSeen(n)' = IF ok THEN "submitted" ELSE "failed"
    BY <1>1, <1>2, <2>1 DEF RowSeen
  <2>3. RowSeen(n)' = Lifecycle!RowOf(RowSeen(n))
    BY <2>2 DEF Lifecycle!RowOf
  <2>4. /\ BookOf(n) = [life |-> LifeOf(orders[n].st), row |-> RowSeen(n),
                        terms |-> <<orders[n].ticker, orders[n].side, orders[n].qty>>]
        /\ BookOf(n)' = [life |-> LifeOf(orders[n].st), row |-> RowSeen(n)',
                         terms |-> <<orders[n].ticker, orders[n].side, orders[n].qty>>]
    BY <1>1, <2>1 DEF BookOf
  <2>5. BookOf(n)' = [BookOf(n) EXCEPT !.row = Lifecycle!RowOf(BookOf(n).row)]
    BY <2>3, <2>4
  <2>6. Book' = [Book EXCEPT ![n] = [BookOf(n) EXCEPT !.row = Lifecycle!RowOf(BookOf(n).row)]]
    BY <1>3, <2>1, <2>5 DEF Book
  <2>7. Book' = [Book EXCEPT ![n].row = Lifecycle!RowOf(Book[n].row)]
    BY <2>1, <2>6 DEF Book
  <2>8. Lifecycle!Record(n)
    BY <1>1, <2>1, <2>7 DEF Lifecycle!Record, Book, Mishaps
  <2> QED BY <2>1, <2>8
<1> QED BY <1>4, <1>5

\* A crash, or a write that fails, loses the row that is owed, and nothing else.
LEMMA LossIsLose ==
  ASSUME TypeOK, TypeOK', RowInv, Restart \/ (LogResult /\ UNCHANGED row /\ Fault)
  PROVE  Lifecycle!Lose
<1>1. /\ UNCHANGED <<orders, row>> /\ entryPc' = "idle"
      /\ Mishaps' = Mishaps + 1
  BY CountersType DEF Restart, LogResult, EntryEnds, orderVars, Mishaps, Fault
<1>2. ASSUME NEW i \in OrderId
      PROVE  BookOf(i)' = IF i \in Lifecycle!Owed THEN [BookOf(i) EXCEPT !.row = "lost"] ELSE BookOf(i)
  <2>1. CASE i \notin Lifecycle!Sent
    <3>1. orders[i].st = "unsent" /\ i \notin Lifecycle!Owed
      BY <2>1, BookReads
    <3> QED BY <1>1, <3>1 DEF BookOf
  <2>2. CASE i \in Lifecycle!Sent
    <3>1. /\ orders[i].st # "unsent"
          /\ i \in Lifecycle!Owed <=> entryPc = "log" /\ result.id = i
      BY <2>2, BookReads
    <3>2. /\ BookOf(i) = [life |-> LifeOf(orders[i].st), row |-> RowSeen(i),
                          terms |-> <<orders[i].ticker, orders[i].side, orders[i].qty>>]
          /\ BookOf(i)' = [life |-> LifeOf(orders[i].st), row |-> RowSeen(i)',
                           terms |-> <<orders[i].ticker, orders[i].side, orders[i].qty>>]
      BY <1>1, <3>1 DEF BookOf
    <3>3. RowSeen(i)' = IF i \in Lifecycle!Owed THEN "lost" ELSE RowSeen(i)
      BY <1>1, <3>1 DEF RowSeen, RowInv
    <3> QED BY <3>2, <3>3
  <2> QED BY <2>1, <2>2
<1>3. Book' = [i \in OrderId |-> IF i \in Lifecycle!Owed THEN [Book[i] EXCEPT !.row = "lost"] ELSE Book[i]]
  BY <1>2 DEF Book
<1> QED BY <1>1, <1>3 DEF Lifecycle!Lose, Book, Mishaps

\* Order path, flatten, broker, clock and crashes together implement the life of an
\* order, for every watchlist and every number of orders, of calls and writes that fail
\* and of crashes.
THEOREM OrdersRefineLifecycle == Spec => OrdersKeepTheirLife
<1>1. Init => Lifecycle!Init
  <2> SUFFICES ASSUME Init PROVE Lifecycle!Init
    OBVIOUS
  <2>1. \A i \in OrderId : BookOf(i) = [life |-> "unsent"]
    BY DEF Init, BrokerageInit, Unsent, BookOf
  <2>2. faults + restarts = 0
    BY DEF Init
  <2> QED BY <2>1, <2>2 DEF Lifecycle!Init, Lifecycle!Unsent
<1>2. TypeOK /\ TypeOK' /\ RowInv /\ [Next]_vars => [Lifecycle!Next]_<<Book, Mishaps>>
  <2> SUFFICES ASSUME TypeOK, TypeOK', RowInv, [Next]_vars
               PROVE  Lifecycle!Next \/ UNCHANGED <<Book, Mishaps>>
    OBVIOUS
  <2>1. CASE Forward /\ RowsStand
    BY <2>1, ForwardIsTrade DEF Lifecycle!Next
  <2>2. CASE SubmitAccepted
    BY <2>2, SubmissionIsAccept DEF Lifecycle!Next
  <2>3. CASE LogResult
    <3>1. CASE row' = ResultRow /\ NoFault
      BY <2>3, <3>1, RowIsRecord DEF Lifecycle!Next
    <3>2. CASE UNCHANGED row /\ Fault
      BY <2>3, <3>2, LossIsLose DEF Lifecycle!Next
    <3> QED BY <2>3, <3>1, <3>2 DEF LogResult
  <2>4. CASE Restart
    BY <2>4, LossIsLose DEF Lifecycle!Next
  <2> QED BY <2>1, <2>2, <2>3, <2>4, StepKinds
<1>3. Init => RowInv
  BY DEF Init, RowInv
<1> QED BY <1>1, <1>2, <1>3, NextRowInv, TypeCorrect, PTL DEF Spec, OrdersKeepTheirLife, Lifecycle!Spec, Book, Mishaps

=============================================================================
