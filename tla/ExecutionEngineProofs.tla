------------------------ MODULE ExecutionEngineProofs ------------------------
(***************************************************************************)
(* Proofs of ExecutionEngine's safety properties, for any number of       *)
(* orders, any quantities, any number of requests and events delivered in  *)
(* any order.                                                              *)
(*                                                                         *)
(* OrderSound collects what one order promises.  It has to be one          *)
(* invariant: that an excess belongs to FILLED orders only rests on a      *)
(* refused request never bringing an order back to FILLED, which is        *)
(* PendingCanBeRestored.                                                   *)
(*                                                                         *)
(* LedgerInv and PositionInv are about fills: what the orders and the      *)
(* position have booked are distinct executions of the venue, and the same *)
(* ones.  A sum is the cardinality of a set of units, so that adding a     *)
(* fill is adding a disjoint set.  CatchUpInv is about a reliable stream:  *)
(* the venue's order has a history, a move for every event on its way,     *)
(* that begins where the order in the cache is.                            *)
(***************************************************************************)
EXTENDS ExecutionEngine, FiniteSetTheorems, TLAPS

PendingSound(order) == order.status \in Pending => order.previous_status \in Workable

TradesSound(order) == \A e, f \in order.fills : e.trade = f.trade => e = f

LeavesSound(order) == order.leaves_qty = saturating_sub(order.quantity, order.filled_qty)

OverfillSound(order) ==
    order.overfill_qty = IF order.status = "Filled"
                         THEN order.filled_qty - order.quantity ELSE 0

OrderSound(order) ==
    PendingSound(order) /\ TradesSound(order) /\ LeavesSound(order) /\ OverfillSound(order)

-----------------------------------------------------------------------------
(* Facts of the transition table. *)

(* A refusal is taken in the matching pending status only. *)
LEMMA RefusalFrom ==
    ASSUME NEW s \in Status, NEW t \in {"ModifyRejected", "CancelRejected"}, t \in Admits[s]
    PROVE  s \in Pending
  BY DEF Admits, Status, Workable, Pending, ActiveLocal, Open, Closed

(* A closed status admits nothing, but for a fill of a canceled order. *)
LEMMA ClosedAdmits ==
    ASSUME NEW s \in Closed, NEW t, t \in Admits[s]
    PROVE  s = "Canceled" /\ t = "Filled"
  BY DEF Admits, Closed

(* Only an order that is not yet with the venue becomes local. *)
LEMMA LocalFrom ==
    ASSUME NEW s \in Status, NEW t \in ActiveLocal, t \in Admits[s]
    PROVE  s \in ActiveLocal
  BY DEF Admits, Status, Workable, Pending, ActiveLocal, Open, Closed

(* Only a local order becomes submitted. *)
LEMMA SubmittedFrom ==
    ASSUME NEW s \in Status, "Submitted" \in Admits[s]
    PROVE  s \in ActiveLocal
  BY DEF Admits, Status, Workable, Pending, ActiveLocal, Open, Closed

(* An update is taken in a status that is not closed nor pending cancel. *)
LEMMA UpdateFrom ==
    ASSUME NEW s \in Status, "Updated" \in Admits[s]
    PROVE  s \notin Closed /\ s # "PendingCancel"
  BY SMTT(60) DEF Admits, Status, Workable, Pending, ActiveLocal, Open, Closed

-----------------------------------------------------------------------------
(* What an admitted event makes of an order's status. *)
NextStatus(order, e) ==
    CASE e.type = "Filled" -> IF order.filled_qty + e.qty < order.quantity
                              THEN "PartiallyFilled" ELSE "Filled"
      [] e.type = "Updated" -> IF order.status = "PendingUpdate"
                               THEN order.previous_status ELSE order.status
      [] e.type \in {"ModifyRejected", "CancelRejected"} -> order.previous_status
      [] OTHER -> e.type

(* applied, field by field. *)
LEMMA AppliedFields ==
    ASSUME NEW order \in Order, NEW e \in Event, e.type \in Admits[order.status]
    PROVE  /\ applied(order, e).status = NextStatus(order, e)
           /\ applied(order, e).previous_status = remembered(order, e.type)
           /\ applied(order, e).quantity =
                 IF e.type = "Updated" THEN e.qty ELSE order.quantity
           /\ applied(order, e).filled_qty =
                 IF e.type = "Filled" THEN order.filled_qty + e.qty ELSE order.filled_qty
           /\ applied(order, e).leaves_qty =
                 IF e.type = "Filled" THEN saturating_sub(order.leaves_qty, e.qty)
                 ELSE IF e.type = "Updated" THEN saturating_sub(e.qty, order.filled_qty)
                 ELSE order.leaves_qty
           /\ applied(order, e).overfill_qty =
                 IF e.type = "Filled"
                 THEN order.overfill_qty
                        + saturating_sub(order.filled_qty + e.qty, order.quantity)
                 ELSE order.overfill_qty
           /\ applied(order, e).fills =
                 IF e.type = "Filled" THEN order.fills \cup {e} ELSE order.fills
  <1>1. CASE e.type = "Filled"
    BY <1>1, Zenon DEF applied, filled, NextStatus, Order, Event, transition
  <1>2. CASE e.type = "Updated"
    <2>1. order.status = "PendingUpdate" => remembered(order, e.type) = order.previous_status
      BY <1>2, Zenon DEF remembered, Pending
    <2>2. QED
      BY <1>2, <2>1, Zenon DEF applied, updated, NextStatus, Order, Event, transition
  <1>3. CASE e.type \in {"ModifyRejected", "CancelRejected"}
    <2>1. remembered(order, e.type) = order.previous_status
      BY <1>3, Zenon DEF remembered
    <2>2. QED
      BY <1>3, <2>1, Zenon DEF applied, NextStatus, Order, Event, transition
  <1>4. CASE e.type \notin {"Filled", "Updated", "ModifyRejected", "CancelRejected"}
    BY <1>4, Zenon DEF applied, NextStatus, Order, Event, transition
  <1>5. QED
    BY <1>1, <1>2, <1>3, <1>4, Zenon

LEMMA SaturatingSubType ==
    ASSUME NEW a \in Nat, NEW b \in Nat
    PROVE  saturating_sub(a, b) \in Nat
  BY DEF saturating_sub

LEMMA NextStatusType ==
    ASSUME NEW order \in Order, NEW e \in Event
    PROVE  NextStatus(order, e) \in Status /\ remembered(order, e.type) \in Status
  <1>1. order.status \in Status /\ order.previous_status \in Status
    BY Zenon DEF Order
  <1>2. e.type \in EventType
    BY Zenon DEF Event
  <1>3. remembered(order, e.type) \in Status
    BY <1>1, Zenon DEF remembered
  <1>4. NextStatus(order, e) \in Status
    <2>1. "PartiallyFilled" \in Status /\ "Filled" \in Status
      BY Zenon DEF Status, Open, Closed
    <2>2. e.type \notin {"Updated", "ModifyRejected", "CancelRejected"} => e.type \in Status
      BY <1>2, Zenon DEF EventType
    <2>3. QED
      BY <1>1, <2>1, <2>2, Zenon DEF NextStatus
  <1>5. QED
    BY <1>3, <1>4, Zenon

(* An admitted event keeps an order an order. *)
LEMMA AppliedType ==
    ASSUME NEW order \in Order, NEW e \in Event, e.type \in Admits[order.status]
    PROVE  applied(order, e) \in Order
  <1>1. /\ order.quantity \in Nat /\ order.filled_qty \in Nat /\ order.leaves_qty \in Nat
        /\ order.overfill_qty \in Nat /\ order.fills \in SUBSET Event
    BY Zenon DEF Order
  <1>2. e.qty \in Nat
    BY Zenon DEF Event
  <1>3. applied(order, e) = [status |-> applied(order, e).status,
            previous_status |-> applied(order, e).previous_status,
            quantity |-> applied(order, e).quantity,
            filled_qty |-> applied(order, e).filled_qty,
            leaves_qty |-> applied(order, e).leaves_qty,
            overfill_qty |-> applied(order, e).overfill_qty,
            fills |-> applied(order, e).fills]
    <2>1. CASE e.type = "Filled"
      BY <2>1, Zenon DEF applied, filled, Order
    <2>2. CASE e.type = "Updated"
      BY <2>2, Zenon DEF applied, updated, Order
    <2>3. CASE e.type \in {"ModifyRejected", "CancelRejected"}
      BY <2>3, Zenon DEF applied, Order
    <2>4. CASE e.type \notin {"Filled", "Updated", "ModifyRejected", "CancelRejected"}
      BY <2>4, Zenon DEF applied, Order
    <2>5. QED
      BY <2>1, <2>2, <2>3, <2>4, Zenon
  <1>4. applied(order, e).status \in Status /\ applied(order, e).previous_status \in Status
    BY AppliedFields, NextStatusType, Zenon
  <1>5. applied(order, e).quantity \in Nat /\ applied(order, e).filled_qty \in Nat
    <2>1. order.filled_qty + e.qty \in Nat
      BY ONLY <1>1, <1>2
    <2>2. QED
      BY <1>1, <1>2, <2>1, AppliedFields, Zenon
  <1>6. applied(order, e).leaves_qty \in Nat
    <2>1. saturating_sub(order.leaves_qty, e.qty) \in Nat
      BY <1>1, <1>2, SaturatingSubType, Zenon
    <2>2. saturating_sub(e.qty, order.filled_qty) \in Nat
      BY <1>1, <1>2, SaturatingSubType, Zenon
    <2>3. QED
      BY <1>1, <2>1, <2>2, AppliedFields, Zenon
  <1>7. applied(order, e).overfill_qty \in Nat
    <2>1. order.filled_qty + e.qty \in Nat
      BY ONLY <1>1, <1>2
    <2>2. saturating_sub(order.filled_qty + e.qty, order.quantity) \in Nat
      BY <1>1, <2>1, SaturatingSubType, Zenon
    <2>3. order.overfill_qty + saturating_sub(order.filled_qty + e.qty, order.quantity) \in Nat
      BY ONLY <1>1, <2>2
    <2>4. QED
      BY <1>1, <2>3, AppliedFields, Zenon
  <1>8. applied(order, e).fills \in SUBSET Event
    BY <1>1, AppliedFields, ZenonT(60)
  <1>9. QED
    BY <1>3, <1>4, <1>5, <1>6, <1>7, <1>8, Zenon DEF Order

(* What an admitted event may do to a sound order's status. *)
LEMMA StatusAfter ==
    ASSUME NEW order \in Order, NEW e \in Event, OrderSound(order),
           e.type \in Admits[order.status]
    PROVE  /\ NextStatus(order, e) \in ActiveLocal => order.status \in ActiveLocal
           /\ order.status \in Closed =>
                 /\ order.status = "Canceled"
                 /\ NextStatus(order, e) \in {"PartiallyFilled", "Filled"}
           /\ NextStatus(order, e) = "PendingCancel" => e.type = "PendingCancel"
  <1>1. order.status \in Status
    BY Zenon DEF Order
  <1>2. order.status \in Closed =>
            /\ order.status = "Canceled"
            /\ NextStatus(order, e) \in {"PartiallyFilled", "Filled"}
    BY ClosedAdmits, Zenon DEF NextStatus
  <1>3. CASE e.type = "Filled"
    BY <1>2, <1>3, Zenon DEF NextStatus, ActiveLocal
  <1>4. CASE e.type = "Updated"
    BY <1>1, <1>2, <1>4, UpdateFrom, Zenon
       DEF NextStatus, ActiveLocal, OrderSound, PendingSound, Pending, Workable
  <1>5. CASE e.type \in {"ModifyRejected", "CancelRejected"}
    <2>1. order.status \in Pending
      BY <1>1, <1>5, RefusalFrom, Zenon
    <2>2. NextStatus(order, e) \in Workable
      BY <1>5, <2>1, Zenon DEF NextStatus, OrderSound, PendingSound
    <2>3. QED
      BY <1>2, <2>2, Zenon DEF Workable, ActiveLocal
  <1>6. CASE e.type \notin {"Filled", "Updated", "ModifyRejected", "CancelRejected"}
    <2>1. NextStatus(order, e) = e.type
      BY <1>6, Zenon DEF NextStatus
    <2>2. QED
      BY <1>1, <1>2, <2>1, LocalFrom, Zenon
  <1>7. QED
    BY <1>3, <1>4, <1>5, <1>6, Zenon

-----------------------------------------------------------------------------
(* The state.  Every step leaves the orders and their buckets alone or     *)
(* applies one event to one order and refreshes its buckets; only the      *)
(* strategy's own cancel makes an order PENDING_CANCEL.                    *)
OrderTaken(o, e) ==
    /\ error(o, e) = "none"
    /\ orders' = [orders EXCEPT ![o] = applied(@, e)]
    /\ \/ e.type # "PendingCancel" /\ index' = refresh_order(index, o, applied(orders[o], e))
       \/ index' = [refresh_order(index, o, applied(orders[o], e))
                        EXCEPT !["pending_cancel"] = @ \cup {o}]

OrdersStep ==
    \/ UNCHANGED <<orders, index>>
    \/ \E o \in ClientOrderId, e \in Event : OrderTaken(o, e)

OrdersTypeOK ==
    /\ orders \in [ClientOrderId -> Order]
    /\ index \in [Bucket -> SUBSET ClientOrderId]

OrdersSound == \A o \in ClientOrderId : OrderSound(orders[o])

LEMMA PlainIsEvent ==
    ASSUME NEW t \in EventType
    PROVE  Plain(t) \in Event /\ Plain(t).type = t
  BY Zenon DEF Plain, Event

LEMMA VenueLeavesEngine ==
    ASSUME NEW o \in ClientOrderId, VenueReports(o)
    PROVE  UNCHANGED engineVars
  BY Zenon DEF VenueReports, VenueAccepts, VenueRejects, VenueTriggers, VenueFills, VenueCancels,
         VenueExpires, VenueUpdates, VenueRefuses, VenueCorrects

LEMMA NextIsOrdersStep == TypeOK /\ [Next]_vars => OrdersStep
  <1>HandledEvent. ASSUME NEW o \in ClientOrderId, NEW e \in Event, e.type # "PendingCancel",
                          handle_event(o, e)
                   PROVE  OrdersStep
    <2> USE <1>HandledEvent
    <2>1. CASE EventSkipped(o, e)
      BY <2>1, Zenon DEF EventSkipped, engineVars, OrdersStep
    <2>2. CASE EventApplied(o, e)
      BY <2>2, Zenon DEF EventApplied, update_order, OrdersStep, OrderTaken
    <2>3. CASE EventRefused(o, e)
      BY <2>3, Zenon DEF EventRefused, OrdersStep
    <2>4. CASE EventDropped(o, e)
      BY <2>4, Zenon DEF EventDropped, engineVars, OrdersStep
    <2>5. QED
      BY <2>1, <2>2, <2>3, <2>4, Zenon DEF handle_event

  <1> SUFFICES ASSUME TypeOK, [Next]_vars PROVE OrdersStep
    BY Zenon
  <1>1. CASE UNCHANGED vars
    BY <1>1, Zenon DEF vars, OrdersStep
  <1>2. ASSUME NEW o \in ClientOrderId, SubmitOrder(o) PROVE OrdersStep
    <2>1. "Submitted" \in EventType
      BY Zenon DEF EventType, Status
    <2>2. QED
      BY <1>2, <2>1, PlainIsEvent, <1>HandledEvent, Zenon DEF SubmitOrder
  <1>3. ASSUME NEW o \in ClientOrderId, deny_order(o) PROVE OrdersStep
    <2>1. "Denied" \in EventType
      BY Zenon DEF EventType, Status, Closed
    <2>2. QED
      BY <1>3, <2>1, PlainIsEvent, <1>HandledEvent, Zenon DEF deny_order
  <1>4. ASSUME NEW o \in ClientOrderId, modify_order(o) PROVE OrdersStep
    <2>1. "PendingUpdate" \in EventType
      BY Zenon DEF EventType, Status, Open, Pending
    <2>2. OrderTaken(o, Plain("PendingUpdate"))
      BY <1>4, <2>1, PlainIsEvent, Zenon DEF modify_order, update_order, OrderTaken
    <2>3. QED
      BY <2>1, <2>2, PlainIsEvent, Zenon DEF OrdersStep
  <1>5. ASSUME NEW o \in ClientOrderId, cancel_order(o) PROVE OrdersStep
    <2>1. "PendingCancel" \in EventType
      BY Zenon DEF EventType, Status, Open, Pending
    <2>2. OrderTaken(o, Plain("PendingCancel"))
      BY <1>5, Zenon DEF cancel_order, OrderTaken
    <2>3. QED
      BY <2>1, <2>2, PlainIsEvent, Zenon DEF OrdersStep
  <1>6. ASSUME NEW o \in ClientOrderId, reject_modify_order(o) PROVE OrdersStep
    <2>1. "ModifyRejected" \in EventType
      BY Zenon DEF EventType
    <2>2. QED
      BY <1>6, <2>1, PlainIsEvent, <1>HandledEvent, Zenon DEF reject_modify_order
  <1>7. ASSUME NEW o \in ClientOrderId, VenueReports(o) PROVE OrdersStep
    BY <1>7, VenueLeavesEngine, Zenon DEF OrdersStep, engineVars
  <1>8. ASSUME NEW o \in ClientOrderId, DeliverNext(o) PROVE OrdersStep
    <2>1. Head(stream[o]) \in Report
      BY <1>8 DEF DeliverNext, TypeOK
    <2>2. QED
      BY <1>8, <2>1, <1>HandledEvent, Zenon DEF DeliverNext, Report, ReportType
  <1>9. ASSUME NEW o \in ClientOrderId, DeliverAny(o) PROVE OrdersStep
    <2>1. PICK e \in archive[o] : handle_event(o, e)
      BY <1>9, Zenon DEF DeliverAny
    <2>2. e \in Report
      BY <2>1, Zenon DEF TypeOK
    <2>3. QED
      BY <2>1, <2>2, <1>HandledEvent, Zenon DEF Report, ReportType
  <1>10. QED
    BY <1>1, <1>2, <1>3, <1>4, <1>5, <1>6, <1>7, <1>8, <1>9, Zenon DEF Next

LEMMA RefreshType ==
    ASSUME NEW idx \in [Bucket -> SUBSET ClientOrderId], NEW o \in ClientOrderId, NEW order
    PROVE  refresh_order(idx, o, order) \in [Bucket -> SUBSET ClientOrderId]
  BY DEF refresh_order, Bucket

LEMMA OrdersStepType == OrdersTypeOK /\ OrdersStep => OrdersTypeOK'
  <1> SUFFICES ASSUME OrdersTypeOK, OrdersStep PROVE OrdersTypeOK'
    BY Zenon
  <1>1. CASE UNCHANGED <<orders, index>>
    BY <1>1, Zenon DEF OrdersTypeOK
  <1>2. ASSUME NEW o \in ClientOrderId, NEW e \in Event, OrderTaken(o, e)
        PROVE  OrdersTypeOK'
    <2>1. orders[o] \in Order
      BY Zenon DEF OrdersTypeOK
    <2>2. e.type \in Admits[orders[o].status]
      BY <1>2, Zenon DEF OrderTaken, error, apply_error
    <2>3. applied(orders[o], e) \in Order
      BY <2>1, <2>2, AppliedType, Zenon
    <2>4. orders' \in [ClientOrderId -> Order]
      BY <1>2, <2>3, Zenon DEF OrderTaken, OrdersTypeOK
    <2>5. refresh_order(index, o, applied(orders[o], e)) \in [Bucket -> SUBSET ClientOrderId]
      BY RefreshType, Zenon DEF OrdersTypeOK
    <2>6. index' \in [Bucket -> SUBSET ClientOrderId]
      BY ONLY <1>2, <2>5 DEF OrderTaken, Bucket
    <2>7. QED
      BY <2>4, <2>6, Zenon DEF OrdersTypeOK
  <1>3. QED
    BY <1>1, <1>2, Zenon DEF OrdersStep

LEMMA OrdersStepSound == OrdersTypeOK /\ OrdersSound /\ OrdersStep => OrdersSound'
  (* A request is marked pending from a workable or a pending status only. *)
  <1>PendingFrom. ASSUME NEW s \in Status, NEW t \in Pending, t \in Admits[s]
                  PROVE  s \in Workable \cup Pending
    BY ONLY <1>PendingFrom DEF Admits, Status, Workable, Pending, ActiveLocal, Open, Closed

  (* The remainder of a remainder. *)
  <1>SaturatingSubTwice. ASSUME NEW a \in Nat, NEW b \in Nat, NEW c \in Nat
                         PROVE  saturating_sub(saturating_sub(a, b), c) = saturating_sub(a, b + c)
    BY ONLY <1>SaturatingSubTwice DEF saturating_sub

  (* An event that apply does not refuse keeps an order sound. *)
  <1>AppliedSound. ASSUME NEW order \in Order, NEW e \in Event, NEW triggerable,
                          OrderSound(order), apply_error(order, e, triggerable) = "none"
                   PROVE  OrderSound(applied(order, e))
    <2> USE <1>AppliedSound
    <2>1. e.type \in Admits[order.status]
      BY Zenon DEF apply_error
    <2>2. e.type = "Filled" => ~has_trade_id(order, e)
      BY Zenon DEF apply_error
    <2>3. /\ order.status \in Status /\ order.quantity \in Nat /\ order.filled_qty \in Nat
          /\ order.leaves_qty \in Nat /\ order.overfill_qty \in Nat
      BY Zenon DEF Order
    <2>4. e.qty \in Nat /\ e.type \in EventType
      BY Zenon DEF Event
    <2>5. PendingSound(applied(order, e))
      <3>1. CASE e.type \in Pending
        <4>1. order.status \in Workable \cup Pending
          BY <2>1, <2>3, <3>1, <1>PendingFrom, Zenon
        <4>2. remembered(order, e.type) \in Workable
          BY <3>1, <4>1, Zenon DEF remembered, OrderSound, PendingSound, Pending
        <4>3. QED
          BY <2>1, <4>2, AppliedFields, Zenon DEF PendingSound
      <3>2. CASE e.type \in {"ModifyRejected", "CancelRejected"}
        <4>1. order.status \in Pending
          BY <2>1, <2>3, <3>2, RefusalFrom, Zenon
        <4>2. NextStatus(order, e) \in Workable
          BY <3>2, <4>1, Zenon DEF NextStatus, OrderSound, PendingSound
        <4>3. QED
          BY <2>1, <4>2, AppliedFields, Zenon DEF PendingSound, Pending, Workable
      <3>3. CASE e.type = "Updated"
        <4>1. order.status # "PendingCancel"
          BY <2>1, <2>3, <3>3, UpdateFrom, Zenon
        <4>2. NextStatus(order, e) \notin Pending
          BY <3>3, <4>1, Zenon DEF NextStatus, OrderSound, PendingSound, Pending, Workable
        <4>3. QED
          BY <2>1, <4>2, AppliedFields, Zenon DEF PendingSound
      <3>4. CASE e.type = "Filled"
        <4>1. NextStatus(order, e) \notin Pending
          BY <3>4, Zenon DEF NextStatus, Pending
        <4>2. QED
          BY <2>1, <4>1, AppliedFields, Zenon DEF PendingSound
      <3>5. CASE e.type \notin Pending \cup {"ModifyRejected", "CancelRejected", "Updated",
                                             "Filled"}
        <4>1. NextStatus(order, e) = e.type
          BY <3>5, Zenon DEF NextStatus
        <4>2. QED
          BY <2>1, <3>5, <4>1, AppliedFields, Zenon DEF PendingSound
      <3>6. QED
        BY <3>1, <3>2, <3>3, <3>4, <3>5, Zenon
    <2>6. TradesSound(applied(order, e))
      <3>1. CASE e.type = "Filled"
        <4>1. applied(order, e).fills = order.fills \cup {e}
          BY <2>1, <3>1, AppliedFields, Zenon
        <4>2. \A f \in order.fills : f.trade # e.trade
          BY <2>2, <3>1, Zenon DEF has_trade_id
        <4>3. QED
          BY <4>1, <4>2, Zenon DEF TradesSound, OrderSound
      <3>2. CASE e.type # "Filled"
        BY <2>1, <3>2, AppliedFields, Zenon DEF TradesSound, OrderSound
      <3>3. QED
        BY <3>1, <3>2, Zenon
    <2>7. LeavesSound(applied(order, e))
      <3>1. CASE e.type = "Filled"
        <4>1. applied(order, e).leaves_qty
                = saturating_sub(saturating_sub(order.quantity, order.filled_qty), e.qty)
          BY <2>1, <3>1, AppliedFields, Zenon DEF OrderSound, LeavesSound
        <4>2. applied(order, e).leaves_qty
                = saturating_sub(order.quantity, order.filled_qty + e.qty)
          BY <2>3, <2>4, <4>1, <1>SaturatingSubTwice, ZenonT(60)
        <4>3. QED
          BY <2>1, <3>1, <4>2, AppliedFields, Zenon DEF LeavesSound
      <3>2. CASE e.type = "Updated"
        BY <2>1, <3>2, AppliedFields, Zenon DEF LeavesSound
      <3>3. CASE e.type \notin {"Filled", "Updated"}
        BY <2>1, <3>3, AppliedFields, Zenon DEF LeavesSound, OrderSound
      <3>4. QED
        BY <3>1, <3>2, <3>3, Zenon
    <2>8. OverfillSound(applied(order, e))
      <3>1. order.status # "Filled"
        BY ONLY <2>1 DEF Admits
      <3>2. order.overfill_qty = 0
        BY <3>1, Zenon DEF OrderSound, OverfillSound
      <3>3. CASE e.type = "Filled"
        <4>1. applied(order, e).overfill_qty
                = 0 + saturating_sub(order.filled_qty + e.qty, order.quantity)
          BY <2>1, <3>2, <3>3, AppliedFields, Zenon
        <4>2. /\ applied(order, e).filled_qty = order.filled_qty + e.qty
              /\ applied(order, e).quantity = order.quantity
              /\ applied(order, e).status = IF order.filled_qty + e.qty < order.quantity
                                            THEN "PartiallyFilled" ELSE "Filled"
          BY <2>1, <3>3, AppliedFields, Zenon DEF NextStatus
        <4>3. QED
          BY ONLY <2>3, <2>4, <4>1, <4>2 DEF OverfillSound, saturating_sub
      <3>4. CASE e.type # "Filled"
        <4>1. applied(order, e).overfill_qty = 0
          BY <2>1, <3>2, <3>4, AppliedFields, Zenon
        <4>2. NextStatus(order, e) # "Filled"
          <5>1. CASE e.type \in {"ModifyRejected", "CancelRejected"}
            <6>1. order.status \in Pending
              BY <2>1, <2>3, <5>1, RefusalFrom, Zenon
            <6>2. QED
              BY <5>1, <6>1, Zenon DEF NextStatus, OrderSound, PendingSound, Workable
          <5>2. CASE e.type = "Updated"
            BY <3>1, <5>2, Zenon DEF NextStatus, OrderSound, PendingSound, Pending, Workable
          <5>3. CASE e.type \notin {"ModifyRejected", "CancelRejected", "Updated"}
            BY <3>4, <5>3, Zenon DEF NextStatus
          <5>4. QED
            BY <5>1, <5>2, <5>3, Zenon
        <4>3. QED
          BY <2>1, <4>1, <4>2, AppliedFields, Zenon DEF OverfillSound
      <3>5. QED
        BY <3>3, <3>4, Zenon
    <2>9. QED
      BY <2>5, <2>6, <2>7, <2>8, Zenon DEF OrderSound

  <1> SUFFICES ASSUME OrdersTypeOK, OrdersSound, OrdersStep,
                      NEW p \in ClientOrderId
               PROVE  OrderSound(orders'[p])
    BY Zenon DEF OrdersSound
  <1>1. CASE UNCHANGED <<orders, index>>
    BY <1>1, Zenon DEF OrdersSound
  <1>2. ASSUME NEW o \in ClientOrderId, NEW e \in Event, OrderTaken(o, e)
        PROVE  OrderSound(orders'[p])
    <2>1. orders'[p] = IF p = o THEN applied(orders[o], e) ELSE orders[p]
      BY <1>2, Zenon DEF OrderTaken, OrdersTypeOK
    <2>2. orders[o] \in Order /\ OrderSound(orders[o]) /\ OrderSound(orders[p])
      BY Zenon DEF OrdersTypeOK, OrdersSound
    <2>3. apply_error(orders[o], e, o \in Triggerable) = "none"
      BY <1>2, Zenon DEF OrderTaken, error
    <2>4. OrderSound(applied(orders[o], e))
      BY <2>2, <2>3, <1>AppliedSound, Zenon
    <2>5. QED
      BY <2>1, <2>2, <2>4, Zenon
  <1>3. QED
    BY <1>1, <1>2, Zenon DEF OrdersStep

(* What one order's place in the buckets promises. *)
Placed(idx, o, order) ==
    /\ o \in idx["active_local"] <=> is_active_local(order)
    /\ o \in idx["inflight"] <=> is_inflight(order)
    /\ o \in idx["closed"] <=> is_closed(order)
    /\ is_open(order) => o \in idx["open"]
    /\ o \in idx["open"] => is_open(order) \/ order.status = "Submitted"
    /\ order.status = "PendingCancel" => o \in idx["pending_cancel"]

(* BucketsCoverOrders is kept by every step of orders and buckets. *)
LEMMA OrdersStepPlaced ==
    OrdersTypeOK /\ OrdersSound /\ BucketsCoverOrders /\ OrdersStep => BucketsCoverOrders'
  (* refresh_order, bucket by bucket, for the order refreshed and the others. *)
  <1>RefreshFields. ASSUME NEW idx \in [Bucket -> SUBSET ClientOrderId], NEW o \in ClientOrderId,
                           NEW order, NEW p \in ClientOrderId
                    PROVE  LET new == refresh_order(idx, o, order)
                           IN  /\ p # o => \A b \in Bucket : p \in new[b] <=> p \in idx[b]
                               /\ o \in new["active_local"] <=> is_active_local(order)
                               /\ o \in new["inflight"] <=> is_inflight(order)
                               /\ o \in new["open"] <=>
                                     \/ is_open(order)
                                     \/ ~is_closed(order) /\ o \in idx["open"]
                               /\ o \in new["closed"] <=>
                                     ~is_open(order) /\ (is_closed(order) \/ o \in idx["closed"])
                               /\ o \in new["pending_cancel"] <=>
                                     ~is_closed(order) /\ o \in idx["pending_cancel"]
    BY <1>RefreshFields, Zenon DEF refresh_order, Bucket

  <1>PlacedAfter.
      ASSUME NEW idx \in [Bucket -> SUBSET ClientOrderId], NEW o \in ClientOrderId,
             NEW old \in Order, NEW e \in Event, NEW new \in Order,
             NEW idx2 \in [Bucket -> SUBSET ClientOrderId],
             OrderSound(old), Placed(idx, o, old), e.type \in Admits[old.status],
             new.status = NextStatus(old, e),
             \/ e.type # "PendingCancel" /\ idx2 = refresh_order(idx, o, new)
             \/ idx2 = [refresh_order(idx, o, new) EXCEPT !["pending_cancel"] = @ \cup {o}]
      PROVE  Placed(idx2, o, new)
    <2> USE <1>PlacedAfter
    <2> DEFINE ref == refresh_order(idx, o, new)
    <2>1. ref \in [Bucket -> SUBSET ClientOrderId]
      BY RefreshType, Zenon
    <2>2. \A b \in Bucket \ {"pending_cancel"} : idx2[b] = ref[b]
      BY <2>1, Zenon DEF Bucket
    <2>3. e.type = "PendingCancel" => o \in idx2["pending_cancel"]
      BY <2>1, Zenon DEF Bucket
    <2>4. /\ idx2["active_local"] = ref["active_local"] /\ idx2["inflight"] = ref["inflight"]
          /\ idx2["open"] = ref["open"] /\ idx2["closed"] = ref["closed"]
      BY <2>2, Zenon DEF Bucket
    <2> HIDE DEF ref
    <2>5. /\ o \in ref["active_local"] <=> is_active_local(new)
          /\ o \in ref["inflight"] <=> is_inflight(new)
          /\ o \in ref["open"] <=> is_open(new) \/ (~is_closed(new) /\ o \in idx["open"])
          /\ o \in ref["closed"] <=> ~is_open(new) /\ (is_closed(new) \/ o \in idx["closed"])
      BY <1>RefreshFields, Zenon DEF ref
    <2>6. new.status \in Status /\ old.status \in Status
      BY Zenon DEF Order
    <2>7. /\ new.status \in ActiveLocal => old.status \in ActiveLocal
          /\ old.status \in Closed => new.status \in {"PartiallyFilled", "Filled"}
          /\ new.status = "PendingCancel" => e.type = "PendingCancel"
      BY StatusAfter
    <2>8. o \in idx2["closed"] <=> is_closed(new)
      <3>1. o \in idx["closed"] <=> is_closed(old)
        BY Zenon DEF Placed
      <3>2. is_closed(old) => is_open(new) \/ is_closed(new)
        BY <2>7, Zenon DEF is_closed, is_open, Open, Closed
      <3>3. is_closed(new) => ~is_open(new)
        BY Zenon DEF is_closed, is_open, Open, Closed, Pending
      <3>4. QED
        BY <2>4, <2>5, <3>1, <3>2, <3>3, Zenon
    <2>9. o \in idx2["open"] => is_open(new) \/ new.status = "Submitted"
      <3>1. o \in idx["open"] => is_open(old) \/ old.status = "Submitted"
        BY Zenon DEF Placed
      <3>2. is_open(old) \/ old.status = "Submitted" => old.status \notin ActiveLocal
        BY Zenon DEF is_open, Open, Pending, ActiveLocal
      <3>3. new.status \in ActiveLocal \/ is_open(new) \/ is_closed(new)
               \/ new.status = "Submitted"
        BY <2>6, Zenon DEF Status, is_open, is_closed
      <3>4. QED
        BY <2>4, <2>5, <2>7, <3>1, <3>2, <3>3, Zenon
    <2>10. QED
      BY <2>3, <2>4, <2>5, <2>7, <2>8, <2>9, Zenon DEF Placed

  <1> SUFFICES ASSUME OrdersTypeOK, OrdersSound, BucketsCoverOrders, OrdersStep,
                      NEW p \in ClientOrderId
               PROVE  Placed(index', p, orders'[p])
    BY Zenon DEF BucketsCoverOrders, Placed
  <1>1. Placed(index, p, orders[p])
    BY Zenon DEF BucketsCoverOrders, Placed
  <1>2. CASE UNCHANGED <<orders, index>>
    BY <1>1, <1>2, Zenon
  <1>3. ASSUME NEW o \in ClientOrderId, NEW e \in Event, OrderTaken(o, e)
        PROVE  Placed(index', p, orders'[p])
    <2> DEFINE new == applied(orders[o], e)
               ref == refresh_order(index, o, new)
    <2>1. orders'[p] = IF p = o THEN new ELSE orders[p]
      BY <1>3, Zenon DEF OrderTaken, OrdersTypeOK
    <2>2. /\ index' \in [Bucket -> SUBSET ClientOrderId]
          /\ index \in [Bucket -> SUBSET ClientOrderId]
      BY OrdersStepType, Zenon DEF OrdersTypeOK
    <2>3. /\ orders[o] \in Order /\ OrderSound(orders[o])
          /\ e.type \in Admits[orders[o].status]
      BY <1>3, Zenon DEF OrderTaken, OrdersTypeOK, OrdersSound, error, apply_error
    <2>4. new \in Order /\ new.status = NextStatus(orders[o], e)
      BY <2>3, AppliedType, AppliedFields, Zenon
    <2>5. \/ e.type # "PendingCancel" /\ index' = ref
          \/ index' = [ref EXCEPT !["pending_cancel"] = @ \cup {o}]
      BY <1>3, Zenon DEF OrderTaken
    <2> HIDE DEF new
    <2>6. CASE p = o
      <3>1. Placed(index', o, new)
        BY <1>1, <2>2, <2>3, <2>4, <2>5, <2>6, <1>PlacedAfter, Zenon
      <3>2. QED
        BY <2>1, <2>6, <3>1, Zenon
    <2>7. CASE p # o
      <3>1. ref \in [Bucket -> SUBSET ClientOrderId]
        BY <2>2, RefreshType, Zenon
      <3>2. \A b \in Bucket : p \in ref[b] <=> p \in index[b]
        BY <2>2, <2>7, <1>RefreshFields, Zenon
      <3> HIDE DEF ref
      <3>3. \A b \in Bucket : p \in index'[b] <=> p \in ref[b]
        BY ONLY <2>5, <2>7, <3>1 DEF Bucket
      <3>4. \A b \in Bucket : p \in index'[b] <=> p \in index[b]
        BY <3>2, <3>3, Zenon
      <3>5. orders'[p] = orders[p]
        BY <2>1, <2>7, Zenon
      <3>6. QED
        BY <1>1, <3>4, <3>5, Zenon DEF Placed, Bucket
    <2>8. QED
      BY <2>6, <2>7, Zenon
  <1>4. QED
    BY <1>2, <1>3, Zenon DEF OrdersStep

-----------------------------------------------------------------------------
(* Types of the rest of the state. *)
PositionTypeOK ==
    /\ position \in [signed_qty : Int, events : SUBSET Events, open : BOOLEAN]
    /\ panicked \in BOOLEAN

VenueOrder == [state : {"none", "received", "working", "done"}, triggered : BOOLEAN,
               qty : Nat, filled : Nat]

StreamTypeOK ==
    /\ stream \in [ClientOrderId -> Seq(Report)]
    /\ archive \in [ClientOrderId -> SUBSET Report]

LEMMA PlainIsReport ==
    ASSUME NEW t \in ReportType
    PROVE  Plain(t) \in Report
  <1>1. t \in EventType
    BY Zenon DEF ReportType, EventType, Status, Open, Closed, Pending, ActiveLocal
  <1>2. QED
    BY <1>1, PlainIsEvent, Zenon DEF Report

LEMMA FillIsReport ==
    ASSUME NEW n \in Nat, NEW q \in Nat
    PROVE  Fill(n, q) \in Report /\ Update(q) \in Report
  <1>1. "Filled" \in EventType /\ "Updated" \in EventType
    BY Zenon DEF EventType, Status, Closed
  <1>2. QED
    BY <1>1, Zenon DEF Fill, Update, Report, ReportType, Event

EdgeTypeOK ==
    /\ venue \in [ClientOrderId -> VenueOrder]
    /\ requests \in [ClientOrderId -> SUBSET Request]
    /\ StreamTypeOK

(* TypeOK, by the parts above. *)
LEMMA TypeOKParts ==
    TypeOK <=> /\ OrdersTypeOK /\ PositionTypeOK /\ EdgeTypeOK
               /\ refused \in [ClientOrderId -> SUBSET Event]
               /\ asked \in [ClientOrderId -> 0..MaxRequests]
  BY Zenon DEF TypeOK, OrdersTypeOK, PositionTypeOK, EdgeTypeOK, StreamTypeOK, VenueOrder

LEMMA TypeOKStep == TypeOK /\ [Next]_vars => TypeOK'
  <1>PositionStepType. ASSUME PositionTypeOK, NEW o \in ClientOrderId, NEW e \in Event,
                              handle_order_fill(o, e)
                       PROVE  PositionTypeOK'
    <2> USE <1>PositionStepType
    <2>1. /\ position.signed_qty \in Int /\ position.events \in SUBSET Events
          /\ position.open \in BOOLEAN
      BY Zenon DEF PositionTypeOK
    <2>2. e.trade \in Nat /\ e.qty \in Nat /\ e.px \in {1, 2}
      BY Zenon DEF Event
    <2>3. ASSUME NEW q \in Nat
          PROVE  [order |-> o, trade |-> e.trade, qty |-> q, px |-> e.px] \in Events
      BY <2>2, Zenon DEF Events
    <2>4. ASSUME NEW q \in Nat PROVE signed(o, q) \in Int
      BY DEF signed
    <2>5. ASSUME NEW q \in Nat
          PROVE  PositionOf(o, e, q) \in [signed_qty : Int, events : SUBSET Events,
                                          open : BOOLEAN]
      BY <2>3, <2>4, Zenon DEF PositionOf
    <2>6. CASE UNCHANGED <<position, panicked>>
      BY <2>6, Zenon DEF PositionTypeOK
    <2>7. CASE open_position(o, e)
      BY <2>2, <2>5, <2>7, Zenon DEF open_position, PositionTypeOK
    <2>8. CASE position_apply_panics(o, e)
      BY <2>8, Zenon DEF position_apply_panics, PositionTypeOK
    <2>9. CASE flip_position(o, e)
      <3>1. e.qty - abs(position.signed_qty) \in Nat
        BY ONLY <2>1, <2>2, <2>9 DEF flip_position, will_flip_position, abs
      <3>2. QED
        BY <2>5, <2>9, <3>1, Zenon DEF flip_position, PositionTypeOK
    <2>10. CASE update_position(o, e)
      <3>1. position.signed_qty + signed(o, e.qty) \in Int
        BY ONLY <2>1, <2>2, <2>4
      <3>2. position.events \cup {[order |-> o, trade |-> e.trade, qty |-> e.qty, px |-> e.px]}
               \in SUBSET Events
        BY <2>1, <2>2, <2>3, Zenon
      <3>3. QED
        BY <2>10, <3>1, <3>2, Zenon DEF update_position, PositionTypeOK
    <2>11. QED
      BY <2>6, <2>7, <2>8, <2>9, <2>10, Zenon DEF handle_order_fill, handle_position_update

  <1>HandledType. ASSUME TypeOK, NEW o \in ClientOrderId, NEW e \in Event, handle_event(o, e)
                  PROVE  PositionTypeOK' /\ refused' \in [ClientOrderId -> SUBSET Event]
    <2> USE <1>HandledType
    <2>1. PositionTypeOK /\ refused \in [ClientOrderId -> SUBSET Event]
      BY Zenon DEF TypeOK, PositionTypeOK
    <2>2. CASE EventSkipped(o, e) \/ EventDropped(o, e)
      BY <2>1, <2>2, Zenon DEF EventSkipped, EventDropped, engineVars, PositionTypeOK
    <2>3. CASE EventApplied(o, e)
      BY <2>1, <2>3, <1>PositionStepType, Zenon DEF EventApplied
    <2>4. CASE EventRefused(o, e)
      <3>1. PositionTypeOK'
        BY <2>1, <2>4, <1>PositionStepType, Zenon DEF EventRefused
      <3>2. refused' \in [ClientOrderId -> SUBSET Event]
        BY <2>1, <2>4, Zenon DEF EventRefused
      <3>3. QED
        BY <3>1, <3>2, Zenon
    <2>5. QED
      BY <2>2, <2>3, <2>4, Zenon DEF handle_event

  (* Whatever the venue emits is a report. *)
  <1>EmitType. ASSUME StreamTypeOK, NEW o \in ClientOrderId, NEW e \in Report, Emit(o, e)
               PROVE  StreamTypeOK'
    <2> USE <1>EmitType
    <2>1. stream' \in [ClientOrderId -> Seq(Report)]
      BY DEF StreamTypeOK, Emit
    <2>2. archive' \in [ClientOrderId -> SUBSET Report]
      BY Zenon DEF StreamTypeOK, Emit
    <2>3. QED
      BY <2>1, <2>2, Zenon DEF StreamTypeOK

  <1>VenueType. ASSUME EdgeTypeOK, NEW o \in ClientOrderId, VenueReports(o)
                PROVE  EdgeTypeOK' /\ UNCHANGED asked
    <2> USE <1>VenueType
    <2>1. /\ venue \in [ClientOrderId -> VenueOrder] /\ venue[o] \in VenueOrder
          /\ requests \in [ClientOrderId -> SUBSET Request] /\ StreamTypeOK
      BY Zenon DEF EdgeTypeOK
    <2>2. CASE VenueAccepts(o)
      <3>1. StreamTypeOK'
        BY <2>1, <2>2, <1>EmitType, PlainIsReport, Zenon DEF VenueAccepts, ReportType
      <3>2. QED
        BY <2>1, <2>2, <3>1, Zenon DEF VenueAccepts, EdgeTypeOK, VenueOrder
    <2>3. CASE VenueRejects(o)
      <3>1. StreamTypeOK'
        BY <2>1, <2>3, <1>EmitType, PlainIsReport, Zenon DEF VenueRejects, ReportType
      <3>2. QED
        BY <2>1, <2>3, <3>1, Zenon DEF VenueRejects, EdgeTypeOK, VenueOrder
    <2>4. CASE VenueTriggers(o)
      <3>1. StreamTypeOK'
        BY <2>1, <2>4, <1>EmitType, PlainIsReport, Zenon DEF VenueTriggers, ReportType
      <3>2. QED
        BY <2>1, <2>4, <3>1, Zenon DEF VenueTriggers, EdgeTypeOK, VenueOrder
    <2>5. CASE VenueFills(o)
      <3>1. PICK q \in 1..(venue[o].qty + 1) :
               /\ venue' = [venue EXCEPT ![o].filled = @ + q,
                                         ![o].state = IF venue[o].filled + q >= venue[o].qty
                                                      THEN "done" ELSE @]
               /\ Emit(o, Fill(venue[o].filled + q, q))
        BY <2>5, Zenon DEF VenueFills
      <3>2. venue[o].filled \in Nat /\ venue[o].qty \in Nat
        BY <2>1, Zenon DEF VenueOrder
      <3>3. q \in Nat /\ venue[o].filled + q \in Nat
        BY ONLY <3>1, <3>2
      <3>4. StreamTypeOK'
        BY <2>1, <3>1, <3>3, <1>EmitType, FillIsReport, Zenon
      <3>5. venue' \in [ClientOrderId -> VenueOrder]
        BY <2>1, <3>1, <3>3, Zenon DEF VenueOrder
      <3>6. QED
        BY <2>1, <2>5, <3>4, <3>5, Zenon DEF VenueFills, EdgeTypeOK
    <2>6. CASE VenueCancels(o)
      <3>1. StreamTypeOK'
        BY <2>1, <2>6, <1>EmitType, PlainIsReport, Zenon DEF VenueCancels, ReportType
      <3>2. QED
        BY <2>1, <2>6, <3>1, Zenon DEF VenueCancels, EdgeTypeOK, VenueOrder
    <2>7. CASE VenueExpires(o)
      <3>1. StreamTypeOK'
        BY <2>1, <2>7, <1>EmitType, PlainIsReport, Zenon DEF VenueExpires, ReportType
      <3>2. QED
        BY <2>1, <2>7, <3>1, Zenon DEF VenueExpires, EdgeTypeOK, VenueOrder
    <2>8. CASE VenueUpdates(o)
      <3>1. PICK r \in requests[o] :
               /\ requests' = [requests EXCEPT ![o] = @ \ {r}]
               /\ venue' = [venue EXCEPT ![o].qty = r.qty]
               /\ Emit(o, Update(r.qty))
        BY <2>8, Zenon DEF VenueUpdates
      <3>2. r.qty \in Nat
        BY ONLY <2>1, <3>1 DEF Request
      <3>3. StreamTypeOK'
        BY <2>1, <3>1, <3>2, <1>EmitType, FillIsReport, Zenon
      <3>4. venue' \in [ClientOrderId -> VenueOrder]
        BY <2>1, <3>1, <3>2, Zenon DEF VenueOrder
      <3>5. QED
        BY <2>1, <2>8, <3>1, <3>3, <3>4, Zenon DEF VenueUpdates, EdgeTypeOK
    <2>9. CASE VenueRefuses(o)
      <3>1. PICK r \in requests[o] :
               /\ requests' = [requests EXCEPT ![o] = @ \ {r}]
               /\ Emit(o, Plain(IF r.kind = "modify" THEN "ModifyRejected"
                                                     ELSE "CancelRejected"))
        BY <2>9, Zenon DEF VenueRefuses
      <3>2. Plain(IF r.kind = "modify" THEN "ModifyRejected" ELSE "CancelRejected") \in Report
        BY PlainIsReport, Zenon DEF ReportType
      <3>3. StreamTypeOK'
        BY <2>1, <3>1, <3>2, <1>EmitType, Zenon
      <3>4. QED
        BY <2>1, <2>9, <3>1, <3>3, Zenon DEF VenueRefuses, EdgeTypeOK
    <2>10. CASE VenueCorrects(o)
      <3>1. PICK e \in archive[o] : Emit(o, [e EXCEPT !.px = 2])
        BY <2>10, Zenon DEF VenueCorrects
      <3>2. e \in Report
        BY <2>1, <3>1, Zenon DEF StreamTypeOK
      <3>3. [e EXCEPT !.px = 2] \in Report
        BY <3>2, Zenon DEF Report, Event
      <3>4. StreamTypeOK'
        BY <2>1, <3>1, <3>3, <1>EmitType, Zenon
      <3>5. QED
        BY <2>1, <2>10, <3>4, Zenon DEF VenueCorrects, EdgeTypeOK
    <2>11. QED
      BY <2>2, <2>3, <2>4, <2>5, <2>6, <2>7, <2>8, <2>9, <2>10, Zenon
         DEF VenueReports, VenueAccepts, VenueRejects, VenueTriggers, VenueFills, VenueCancels,
             VenueExpires, VenueUpdates, VenueRefuses, VenueCorrects

  <1>RequestType. ASSUME EdgeTypeOK, asked \in [ClientOrderId -> 0..MaxRequests],
                         NEW o \in ClientOrderId, NEW r \in Request, SendRequest(o, r)
                  PROVE  /\ requests' \in [ClientOrderId -> SUBSET Request]
                         /\ asked' \in [ClientOrderId -> 0..MaxRequests]
    <2> USE <1>RequestType
    <2>1. MaxRequests \in Nat
      BY EngineAssumption, Zenon
    <2>2. asked[o] + 1 \in 0..MaxRequests
      BY <2>1 DEF SendRequest
    <2>3. QED
      BY <2>2, Zenon DEF SendRequest, EdgeTypeOK

  <1> SUFFICES ASSUME TypeOK, [Next]_vars PROVE TypeOK'
    BY Zenon
  <1> DEFINE Rest == /\ PositionTypeOK /\ EdgeTypeOK
                     /\ refused \in [ClientOrderId -> SUBSET Event]
                     /\ asked \in [ClientOrderId -> 0..MaxRequests]
  <1>1. OrdersTypeOK /\ Rest
    BY TypeOKParts, Zenon
  <1>2. OrdersTypeOK'
    BY <1>1, NextIsOrdersStep, OrdersStepType, Zenon
  <1>3. CASE UNCHANGED vars
    BY <1>3, Zenon DEF vars, TypeOK
  <1>4. ASSUME NEW o \in ClientOrderId, SubmitOrder(o) PROVE Rest'
    <2>1. "Submitted" \in EventType
      BY Zenon DEF EventType, Status
    <2>2. Plain("Submitted") \in Event
      BY <2>1, PlainIsEvent, Zenon
    <2>3. PositionTypeOK' /\ refused' \in [ClientOrderId -> SUBSET Event]
      BY <1>4, <2>2, <1>HandledType, Zenon DEF SubmitOrder
    <2>4. EdgeTypeOK' /\ UNCHANGED asked
      BY <1>1, <1>4, ZenonT(60) DEF SubmitOrder, streamVars, EdgeTypeOK, StreamTypeOK, VenueOrder
    <2>5. QED
      BY <1>1, <2>3, <2>4, Zenon
  <1>5. ASSUME NEW o \in ClientOrderId, deny_order(o) PROVE Rest'
    <2>1. "Denied" \in EventType
      BY Zenon DEF EventType, Status, Closed
    <2>2. Plain("Denied") \in Event
      BY <2>1, PlainIsEvent, Zenon
    <2>3. PositionTypeOK' /\ refused' \in [ClientOrderId -> SUBSET Event]
      BY <1>5, <2>2, <1>HandledType, Zenon DEF deny_order
    <2>4. EdgeTypeOK' /\ UNCHANGED asked
      BY <1>1, <1>5, Zenon DEF deny_order, streamVars, EdgeTypeOK, StreamTypeOK
    <2>5. QED
      BY <1>1, <2>3, <2>4, Zenon
  <1>6. ASSUME NEW o \in ClientOrderId, modify_order(o) PROVE Rest'
    <2>1. PICK q \in ModifyTo : SendRequest(o, [kind |-> "modify", qty |-> q])
      BY <1>6, Zenon DEF modify_order
    <2>2. q \in Nat
      BY <2>1, EngineAssumption, Zenon
    <2>3. [kind |-> "modify", qty |-> q] \in Request
      BY <2>2, Zenon DEF Request
    <2>4. /\ requests' \in [ClientOrderId -> SUBSET Request]
          /\ asked' \in [ClientOrderId -> 0..MaxRequests]
      BY <1>1, <2>1, <2>3, <1>RequestType, Zenon
    <2>5. QED
      BY <1>1, <1>6, <2>4, Zenon
         DEF modify_order, streamVars, EdgeTypeOK, StreamTypeOK, PositionTypeOK
  <1>7. ASSUME NEW o \in ClientOrderId, cancel_order(o) PROVE Rest'
    <2>1. [kind |-> "cancel", qty |-> 0] \in Request
      BY Zenon DEF Request
    <2>2. /\ requests' \in [ClientOrderId -> SUBSET Request]
          /\ asked' \in [ClientOrderId -> 0..MaxRequests]
      BY <1>1, <1>7, <2>1, <1>RequestType, Zenon DEF cancel_order
    <2>3. QED
      BY <1>1, <1>7, <2>2, Zenon
         DEF cancel_order, streamVars, EdgeTypeOK, StreamTypeOK, PositionTypeOK
  <1>8. ASSUME NEW o \in ClientOrderId, reject_modify_order(o) PROVE Rest'
    <2>1. "ModifyRejected" \in EventType
      BY Zenon DEF EventType
    <2>2. Plain("ModifyRejected") \in Event
      BY <2>1, PlainIsEvent, Zenon
    <2>3. PositionTypeOK' /\ refused' \in [ClientOrderId -> SUBSET Event]
      BY <1>8, <2>2, <1>HandledType, Zenon DEF reject_modify_order
    <2>4. EdgeTypeOK' /\ UNCHANGED asked
      BY <1>1, <1>8, Zenon DEF reject_modify_order, streamVars, EdgeTypeOK, StreamTypeOK
    <2>5. QED
      BY <1>1, <2>3, <2>4, Zenon
  <1>9. ASSUME NEW o \in ClientOrderId, VenueReports(o) PROVE Rest'
    <2>1. EdgeTypeOK' /\ UNCHANGED asked
      BY <1>1, <1>9, <1>VenueType, Zenon
    <2>2. UNCHANGED engineVars
      BY <1>9, VenueLeavesEngine, Zenon
    <2>3. QED
      BY <1>1, <2>1, <2>2, Zenon DEF engineVars, PositionTypeOK
  <1>10. ASSUME NEW o \in ClientOrderId, DeliverNext(o) PROVE Rest'
    <2>1. Head(stream[o]) \in Report
      BY <1>10 DEF DeliverNext, TypeOK
    <2>2. Head(stream[o]) \in Event
      BY <2>1, Zenon DEF Report
    <2>3. PositionTypeOK' /\ refused' \in [ClientOrderId -> SUBSET Event]
      BY <1>10, <2>2, <1>HandledType, Zenon DEF DeliverNext
    <2>4. stream' \in [ClientOrderId -> Seq(Report)]
      BY <1>10 DEF DeliverNext, TypeOK
    <2>5. QED
      BY <1>1, <1>10, <2>3, <2>4, Zenon DEF DeliverNext, EdgeTypeOK, StreamTypeOK
  <1>11. ASSUME NEW o \in ClientOrderId, DeliverAny(o) PROVE Rest'
    <2>1. PICK e \in archive[o] : handle_event(o, e)
      BY <1>11, Zenon DEF DeliverAny
    <2>2. e \in Event
      BY <2>1, Zenon DEF TypeOK, Report
    <2>3. PositionTypeOK' /\ refused' \in [ClientOrderId -> SUBSET Event]
      BY <2>1, <2>2, <1>HandledType, Zenon
    <2>4. EdgeTypeOK' /\ UNCHANGED asked
      BY <1>1, <1>11, Zenon DEF DeliverAny, streamVars, EdgeTypeOK, StreamTypeOK
    <2>5. QED
      BY <1>1, <2>3, <2>4, Zenon
  <1>12. CASE Next
    <2>1. Rest'
      BY <1>4, <1>5, <1>6, <1>7, <1>8, <1>9, <1>10, <1>11, <1>12, Zenon DEF Next
    <2>2. QED
      BY <1>2, <2>1, Zenon DEF TypeOK, OrdersTypeOK, PositionTypeOK, EdgeTypeOK, StreamTypeOK,
                        VenueOrder
  <1>13. QED
    BY <1>3, <1>12, Zenon

-----------------------------------------------------------------------------
(* The inductive invariant, and the theorems. *)
EngineInv == TypeOK /\ OrdersSound /\ BucketsCoverOrders

LEMMA EngineInvInit == Init => EngineInv
  <1> SUFFICES ASSUME Init PROVE EngineInv
    BY Zenon
  <1>1. Quantity \in Nat /\ MaxRequests \in Nat
    BY EngineAssumption, Zenon
  <1>2. NewOrder(Quantity) \in Order
    BY <1>1, Zenon DEF NewOrder, Order, Status, ActiveLocal
  <1>3. OrderSound(NewOrder(Quantity))
    BY <1>1 DEF NewOrder, OrderSound, PendingSound, TradesSound, LeavesSound, OverfillSound,
                Pending, saturating_sub
  <1>4. TypeOK
    <2>1. orders \in [ClientOrderId -> Order] /\ refused \in [ClientOrderId -> SUBSET Event]
      BY <1>2, Zenon DEF Init
    <2>2. index \in [Bucket -> SUBSET ClientOrderId]
      BY Zenon DEF Init
    <2>3. /\ position \in [signed_qty : Int, events : SUBSET Events, open : BOOLEAN]
          /\ panicked \in BOOLEAN
      <3>1. position = [signed_qty |-> 0, events |-> {}, open |-> FALSE] /\ panicked = FALSE
        BY Zenon DEF Init
      <3>2. 0 \in Int /\ {} \in SUBSET Events /\ FALSE \in BOOLEAN
        OBVIOUS
      <3>3. QED
        BY ONLY <3>1, <3>2, Zenon
    <2>4. /\ venue \in [ClientOrderId -> [state : {"none", "received", "working", "done"},
                                           triggered : BOOLEAN, qty : Nat, filled : Nat]]
          /\ requests \in [ClientOrderId -> SUBSET Request]
          /\ asked \in [ClientOrderId -> 0..MaxRequests]
      BY <1>1 DEF Init
    <2>5. /\ stream \in [ClientOrderId -> Seq(Report)]
          /\ archive \in [ClientOrderId -> SUBSET Report]
      BY DEF Init
    <2>6. QED
      BY <2>1, <2>2, <2>3, <2>4, <2>5, Zenon DEF TypeOK
  <1>5. OrdersSound
    BY <1>3, Zenon DEF Init, OrdersSound
  <1>6. BucketsCoverOrders
    BY Zenon DEF Init, BucketsCoverOrders, Bucket, NewOrder, is_active_local, is_inflight, is_open,
           is_closed, ActiveLocal, Pending, Open, Closed
  <1>7. QED
    BY <1>4, <1>5, <1>6, Zenon DEF EngineInv

LEMMA EngineInvStep == EngineInv /\ [Next]_vars => EngineInv'
  <1> SUFFICES ASSUME EngineInv, [Next]_vars PROVE EngineInv'
    BY Zenon
  <1>1. OrdersTypeOK /\ OrdersStep
    BY NextIsOrdersStep, TypeOKParts, Zenon DEF EngineInv
  <1>2. QED
    BY <1>1, TypeOKStep, OrdersStepSound, OrdersStepPlaced, Zenon DEF EngineInv

LEMMA EngineInvariant == Spec => []EngineInv
  BY EngineInvInit, EngineInvStep, PTL DEF Spec

(* Every variable of the engine, the venue and the streams keeps its type, *)
(* whatever handle_event is given.                                         *)
THEOREM EngineTypeOK == Spec => []TypeOK
  <1>1. EngineInv => TypeOK
    BY Zenon DEF EngineInv
  <1>2. QED
    BY <1>1, EngineInvariant, PTL

(* leaves_qty, overfill_qty and the trade ids of an order are exact after  *)
(* any sequence of events given to OrderCore::apply.                       *)
THEOREM EngineQuantitiesExact == Spec => []QuantitiesExact
  <1>1. EngineInv => QuantitiesExact
    BY Zenon DEF EngineInv, OrdersSound, OrderSound, TradesSound, LeavesSound, OverfillSound,
           QuantitiesExact
  <1>2. QED
    BY <1>1, EngineInvariant, PTL

(* previous_status is a status that a refused request can go back to, for  *)
(* any number of requests, acknowledgements and fills in between.          *)
THEOREM EnginePendingCanBeRestored == Spec => []PendingCanBeRestored
  <1>1. EngineInv => PendingCanBeRestored
    BY Zenon DEF EngineInv, OrdersSound, OrderSound, PendingSound, PendingCanBeRestored
  <1>2. QED
    BY <1>1, EngineInvariant, PTL

(* Cache::refresh_order keeps the buckets covering the orders.             *)
THEOREM EngineBucketsCoverOrders == Spec => []BucketsCoverOrders
  <1>1. EngineInv => BucketsCoverOrders
    BY Zenon DEF EngineInv
  <1>2. QED
    BY <1>1, EngineInvariant, PTL

(* A closed order is reopened by a late fill of a canceled order only, and *)
(* no event takes a fill back.                                             *)
THEOREM EngineClosedReopensOnlyByFill == Spec => ClosedReopensOnlyByFill
  <1> DEFINE Kept(o) ==
          /\ is_closed(orders[o]) /\ ~is_closed(orders'[o]) =>
                 orders[o].status = "Canceled" /\ orders'[o].status = "PartiallyFilled"
          /\ orders[o].fills \subseteq orders'[o].fills
  <1>1. EngineInv /\ [Next]_vars => \A o \in ClientOrderId : Kept(o)
    <2> SUFFICES ASSUME EngineInv, [Next]_vars, NEW p \in ClientOrderId PROVE Kept(p)
      BY Zenon
    <2>1. OrdersTypeOK /\ OrdersSound /\ OrdersStep
      BY NextIsOrdersStep, TypeOKParts, Zenon DEF EngineInv
    <2>2. CASE UNCHANGED <<orders, index>>
      BY <2>2, Zenon
    <2>3. ASSUME NEW o \in ClientOrderId, NEW e \in Event, OrderTaken(o, e)
          PROVE  Kept(p)
      <3>1. orders'[p] = IF p = o THEN applied(orders[o], e) ELSE orders[p]
        BY <2>1, <2>3, Zenon DEF OrderTaken, OrdersTypeOK
      <3>2. /\ orders[o] \in Order /\ OrderSound(orders[o])
            /\ e.type \in Admits[orders[o].status]
        BY <2>1, <2>3, Zenon DEF OrderTaken, OrdersTypeOK, OrdersSound, error, apply_error
      <3>3. applied(orders[o], e).status = NextStatus(orders[o], e)
        BY <3>2, AppliedFields, Zenon
      <3>4. orders[o].fills \subseteq applied(orders[o], e).fills
        BY <3>2, AppliedFields, Zenon
      <3>5. is_closed(orders[o]) =>
               /\ orders[o].status = "Canceled"
               /\ applied(orders[o], e).status \in {"PartiallyFilled", "Filled"}
        BY <3>2, <3>3, StatusAfter, Zenon DEF is_closed
      <3>6. is_closed(applied(orders[o], e)) <=> applied(orders[o], e).status \in Closed
        BY Zenon DEF is_closed
      <3>7. "Filled" \in Closed
        BY Zenon DEF Closed
      <3>8. QED
        BY <3>1, <3>4, <3>5, <3>6, <3>7, Zenon
    <2>4. QED
      BY <2>1, <2>2, <2>3, Zenon DEF OrdersStep
  <1>2. QED
    BY <1>1, EngineInvariant, PTL DEF Spec, ClosedReopensOnlyByFill

-----------------------------------------------------------------------------
(* Sums, counted out in units. *)
Units(f) == UNION {{x} \X (1..f[x]) : x \in DOMAIN f}

(* A unit is an element with a number up to its value. *)
LEMMA UnitsMember ==
    ASSUME NEW S, NEW f \in [S -> Nat], NEW u
    PROVE  u \in Units(f) <=> \E x \in S, k \in Nat : k \in 1..f[x] /\ u = <<x, k>>
  BY DEF Units

(* Finitely many elements have finitely many units. *)
LEMMA UnitsFinite ==
    ASSUME NEW S, IsFiniteSet(S), NEW f \in [S -> Nat]
    PROVE  IsFiniteSet(Units(f)) /\ SumOf(f) = Cardinality(Units(f)) /\ SumOf(f) \in Nat
  <1> DEFINE Block(x) == {x} \X (1..f[x])
             T        == {Block(x) : x \in S}
             h        == [x \in S |-> Block(x)]
  <1>1. h \in Surjection(S, T)
    BY Zenon DEF Surjection
  <1>2. IsFiniteSet(T)
    BY <1>1, FS_Surjection, Zenon
  <1>3. ASSUME NEW x \in S PROVE IsFiniteSet(Block(x))
    <2>1. IsFiniteSet({x})
      BY FS_Singleton, Zenon
    <2>2. IsFiniteSet(1..f[x])
      BY ONLY FS_Interval
    <2>3. QED
      BY <2>1, <2>2, FS_Product, Zenon
  <1>4. \A B \in T : IsFiniteSet(B)
    BY <1>3, Zenon
  <1>5. Units(f) = UNION T
    BY Zenon DEF Units
  <1>6. IsFiniteSet(Units(f))
    BY <1>2, <1>4, <1>5, FS_UNION, Zenon
  <1>7. SumOf(f) = Cardinality(Units(f))
    BY Zenon DEF SumOf, Units
  <1>8. QED
    BY <1>6, <1>7, FS_CardinalityType, Zenon

(* Growing one term by n, or adding a term n, adds n to the sum. *)
LEMMA SumGrows ==
    ASSUME NEW S, NEW T, IsFiniteSet(S), IsFiniteSet(T), S \subseteq T,
           NEW f \in [S -> Nat], NEW g \in [T -> Nat], NEW x \in T,
           NEW a \in Nat, NEW n \in Nat,
           a = IF x \in S THEN f[x] ELSE 0,
           g[x] = a + n, \A y \in T : y # x => y \in S /\ g[y] = f[y]
    PROVE  SumOf(g) = SumOf(f) + n
  <1> DEFINE New == {x} \X ((a + 1)..(a + n))
  <1>1. IsFiniteSet(New) /\ Cardinality(New) = n
    <2>1. IsFiniteSet({x}) /\ Cardinality({x}) = 1
      BY FS_Singleton, Zenon
    <2>2. IsFiniteSet((a + 1)..(a + n)) /\ Cardinality((a + 1)..(a + n)) = n
      <3>1. a + 1 \in Int /\ a + n \in Int
        OBVIOUS
      <3>2. /\ IsFiniteSet((a + 1)..(a + n))
            /\ Cardinality((a + 1)..(a + n)) = IF a + 1 > a + n THEN 0
                                               ELSE (a + n) - (a + 1) + 1
        BY <3>1, FS_Interval, Zenon
      <3>3. QED
        BY ONLY <3>2
    <2>3. IsFiniteSet(New) /\ Cardinality(New) = 1 * n
      <3> DEFINE K == (a + 1)..(a + n)
      <3>1. IsFiniteSet(K) /\ Cardinality(K) = n
        BY <2>2, Zenon
      <3> HIDE DEF K
      <3>2. /\ IsFiniteSet({x} \X K)
            /\ Cardinality({x} \X K) = Cardinality({x}) * Cardinality(K)
        BY <2>1, <3>1, FS_Product, Zenon
      <3>3. QED
        BY <2>1, <3>1, <3>2, Zenon DEF K
    <2>4. QED
      BY ONLY <2>3
  <1>2. Units(g) = Units(f) \cup New
    <2>1. ASSUME NEW u \in Units(g) PROVE u \in Units(f) \cup New
      <3>1. PICK y \in T, k \in Nat : k \in 1..g[y] /\ u = <<y, k>>
        BY ONLY UnitsMember
      <3>2. CASE y # x
        BY <3>1, <3>2, UnitsMember, Zenon
      <3>3. CASE y = x /\ k <= a
        <4>1. x \in S /\ k \in 1..f[x]
          BY <3>1, <3>3
        <4>2. QED
          BY <3>1, <3>3, <4>1, UnitsMember, Zenon
      <3>4. CASE y = x /\ ~(k <= a)
        <4>1. k \in (a + 1)..(a + n)
          BY <3>1, <3>4
        <4>2. QED
          BY <3>1, <3>4, <4>1, Zenon
      <3>5. QED
        BY <3>2, <3>3, <3>4, Zenon
    <2>2. ASSUME NEW u \in Units(f) PROVE u \in Units(g)
      <3>1. PICK y \in S, k \in Nat : k \in 1..f[y] /\ u = <<y, k>>
        BY ONLY UnitsMember
      <3>2. y \in T /\ k \in 1..g[y]
        BY <3>1
      <3>3. QED
        BY <3>1, <3>2, UnitsMember, Zenon
    <2>3. ASSUME NEW u \in New PROVE u \in Units(g)
      <3>1. PICK k \in (a + 1)..(a + n) : u = <<x, k>>
        OBVIOUS
      <3>2. k \in 1..g[x]
        BY <3>1
      <3>3. QED
        BY ONLY <3>1, <3>2, UnitsMember
    <2>4. QED
      BY <2>1, <2>2, <2>3, Zenon
  <1>3. Units(f) \cap New = {}
    <2>1. ASSUME NEW u \in Units(f), u \in New PROVE FALSE
      <3>1. PICK y \in S, k \in Nat : k \in 1..f[y] /\ u = <<y, k>>
        BY ONLY UnitsMember
      <3>2. y = x /\ k \in (a + 1)..(a + n)
        BY <2>1, <3>1, Zenon
      <3>3. QED
        BY <3>1, <3>2
    <2>2. QED
      BY <2>1, Zenon
  <1>4. /\ IsFiniteSet(Units(f)) /\ SumOf(f) = Cardinality(Units(f)) /\ SumOf(f) \in Nat
        /\ SumOf(g) = Cardinality(Units(g))
    BY UnitsFinite, Zenon
  <1>5. Cardinality(Units(g)) = Cardinality(Units(f)) + Cardinality(New) - Cardinality({})
    BY ONLY <1>1, <1>2, <1>3, <1>4, FS_Union
  <1>6. Cardinality({}) = 0
    BY FS_EmptySet, Zenon
  <1>7. QED
    BY ONLY <1>1, <1>4, <1>5, <1>6

(* A sum whose terms lie apart within 1..n is at most n. *)
LEMMA SumFits ==
    ASSUME NEW S, IsFiniteSet(S), NEW f \in [S -> Nat], NEW n \in Nat, NEW g \in [S -> Nat],
           \A x \in S : g[x] + f[x] <= n,
           \A x, y \in S : x # y => (g[x] + f[x] <= g[y] \/ g[y] + f[y] <= g[x])
    PROVE  SumOf(f) <= n
  <1> DEFINE h == [u \in Units(f) |-> g[u[1]] + u[2]]
  <1>1. ASSUME NEW u \in Units(f)
        PROVE  \E x \in S, k \in Nat : k \in 1..f[x] /\ u = <<x, k>> /\ h[u] = g[x] + k
    BY ONLY UnitsMember
  <1>2. ASSUME NEW u \in Units(f) PROVE h[u] \in 1..n
    BY <1>1
  <1>3. ASSUME NEW u \in Units(f), NEW v \in Units(f), h[u] = h[v] PROVE u = v
    <2>1. PICK x \in S, k \in Nat : k \in 1..f[x] /\ u = <<x, k>> /\ h[u] = g[x] + k
      BY <1>1, Zenon
    <2>2. PICK y \in S, j \in Nat : j \in 1..f[y] /\ v = <<y, j>> /\ h[v] = g[y] + j
      BY <1>1, Zenon
    <2>3. g[x] + k = g[y] + j
      BY <1>3, <2>1, <2>2, Zenon
    <2>4. g[x] \in Nat /\ g[y] \in Nat /\ f[x] \in Nat /\ f[y] \in Nat
      BY Zenon
    <2>5. x = y
      <3>1. /\ k \in 1..f[x] /\ j \in 1..f[y]
            /\ x # y => (g[x] + f[x] <= g[y] \/ g[y] + f[y] <= g[x])
        BY <2>1, <2>2, Zenon
      <3>2. \A b, c, d, e \in Nat : \A l \in 1..d, m \in 1..e :
               b + l = c + m => ~(b + d <= c) /\ ~(c + e <= b)
        OBVIOUS
      <3>3. ~(g[x] + f[x] <= g[y]) /\ ~(g[y] + f[y] <= g[x])
        BY <2>3, <2>4, <3>1, <3>2, Zenon
      <3>4. QED
        BY <3>1, <3>3, Zenon
    <2>6. QED
      BY ONLY <2>1, <2>2, <2>3, <2>4, <2>5
  <1>4. h \in Injection(Units(f), 1..n)
    BY <1>2, <1>3, Zenon DEF Injection, IsInjective
  <1>5. IsFiniteSet(1..n) /\ Cardinality(1..n) = n
    BY ONLY FS_Interval
  <1>6. Cardinality(Units(f)) <= n
    BY ONLY <1>4, <1>5, FS_Injection
  <1>7. QED
    BY <1>6, UnitsFinite, Zenon

(* The sum over no elements. *)
LEMMA SumOfNothing ==
    ASSUME NEW S, NEW f \in [S -> Nat], \A x \in S : f[x] = 0
    PROVE  SumOf(f) = 0
  <1>1. Units(f) = {}
    BY UnitsMember
  <1>2. QED
    BY <1>1, FS_EmptySet, Zenon DEF SumOf, Units

-----------------------------------------------------------------------------
(* The ledger of fills.  A fill's trade id is the quantity the venue had   *)
(* executed with it, so the fills of an order are intervals that lie       *)
(* apart; whatever of them is still on its way or already recorded.        *)
(* The events of an order that may still reach the engine. *)
Coming(o) == {stream[o][i] : i \in DOMAIN stream[o]} \cup archive[o]

Emitted(o) == Coming(o) \cup orders[o].fills

FillsApart(S, n) ==
    /\ \A e \in S : e.type = "Filled" => e.qty \in 1..e.trade /\ e.trade \in 1..n
    /\ \A e, f \in S : (e.type = "Filled" /\ f.type = "Filled") =>
           /\ e.trade = f.trade => e.qty = f.qty
           /\ e.trade < f.trade => e.trade + f.qty <= f.trade

LedgerInv ==
    \A o \in ClientOrderId :
        /\ FillsApart(Emitted(o), venue[o].filled)
        /\ \A e \in orders[o].fills : e.type = "Filled"
        /\ IsFiniteSet(orders[o].fills)
        /\ orders[o].filled_qty = SumOf([e \in orders[o].fills |-> e.qty])

(* What the venue's step reports, and what it executes with it. *)
VenueStep(o, e) ==
    /\ e \in Report /\ Emit(o, e)
    /\ \A p \in ClientOrderId : p # o => venue'[p] = venue[p]
    /\ \/ e.type # "Filled" /\ venue'[o].filled = venue[o].filled
       \/ \E q \in Nat \ {0} : /\ e = Fill(venue[o].filled + q, q)
                               /\ venue'[o].filled = venue[o].filled + q
       \/ /\ ~Reliable /\ venue'[o].filled = venue[o].filled
          /\ \E f \in archive[o] : /\ f.type = "Filled" /\ e.trade = f.trade
                                   /\ e.qty = f.qty

(* Every action of the venue is such a step. *)
LEMMA VenueEmits ==
    ASSUME EdgeTypeOK, NEW o \in ClientOrderId, VenueReports(o)
    PROVE  \E e \in Report : VenueStep(o, e)
  <1>1. /\ venue \in [ClientOrderId -> VenueOrder] /\ venue[o] \in VenueOrder
        /\ requests \in [ClientOrderId -> SUBSET Request] /\ StreamTypeOK
    BY Zenon DEF EdgeTypeOK
  <1>2. CASE VenueAccepts(o)
    <2>1. Plain("Accepted") \in Report
      BY PlainIsReport, Zenon DEF ReportType
    <2>2. VenueStep(o, Plain("Accepted"))
      BY <1>1, <1>2, <2>1, Zenon DEF VenueAccepts, VenueStep, Plain, VenueOrder
    <2>3. QED
      BY <2>1, <2>2, Zenon
  <1>3. CASE VenueRejects(o)
    <2>1. Plain("Rejected") \in Report
      BY PlainIsReport, Zenon DEF ReportType
    <2>2. VenueStep(o, Plain("Rejected"))
      BY <1>1, <1>3, <2>1, Zenon DEF VenueRejects, VenueStep, Plain, VenueOrder
    <2>3. QED
      BY <2>1, <2>2, Zenon
  <1>4. CASE VenueTriggers(o)
    <2>1. Plain("Triggered") \in Report
      BY PlainIsReport, Zenon DEF ReportType
    <2>2. VenueStep(o, Plain("Triggered"))
      BY <1>1, <1>4, <2>1, Zenon DEF VenueTriggers, VenueStep, Plain, VenueOrder
    <2>3. QED
      BY <2>1, <2>2, Zenon
  <1>5. CASE VenueFills(o)
    <2>1. PICK q \in 1..(venue[o].qty + 1) :
             /\ venue' = [venue EXCEPT ![o].filled = @ + q,
                                       ![o].state = IF venue[o].filled + q >= venue[o].qty
                                                    THEN "done" ELSE @]
             /\ Emit(o, Fill(venue[o].filled + q, q))
      BY <1>5, Zenon DEF VenueFills
    <2>2. venue[o].filled \in Nat /\ venue[o].qty \in Nat
      BY <1>1, Zenon DEF VenueOrder
    <2>3. q \in Nat \ {0} /\ venue[o].filled + q \in Nat
      BY ONLY <2>1, <2>2
    <2>4. Fill(venue[o].filled + q, q) \in Report
      BY <2>3, FillIsReport, Zenon
    <2>5. /\ \A p \in ClientOrderId : p # o => venue'[p] = venue[p]
          /\ venue'[o].filled = venue[o].filled + q
      BY <1>1, <2>1, Zenon DEF VenueOrder
    <2>6. VenueStep(o, Fill(venue[o].filled + q, q))
      BY <2>1, <2>3, <2>4, <2>5, Zenon DEF VenueStep
    <2>7. QED
      BY <2>4, <2>6, Zenon
  <1>6. CASE VenueCancels(o)
    <2>1. Plain("Canceled") \in Report
      BY PlainIsReport, Zenon DEF ReportType
    <2>2. VenueStep(o, Plain("Canceled"))
      BY <1>1, <1>6, <2>1, Zenon DEF VenueCancels, VenueStep, Plain, VenueOrder
    <2>3. QED
      BY <2>1, <2>2, Zenon
  <1>7. CASE VenueExpires(o)
    <2>1. Plain("Expired") \in Report
      BY PlainIsReport, Zenon DEF ReportType
    <2>2. VenueStep(o, Plain("Expired"))
      BY <1>1, <1>7, <2>1, Zenon DEF VenueExpires, VenueStep, Plain, VenueOrder
    <2>3. QED
      BY <2>1, <2>2, Zenon
  <1>8. CASE VenueUpdates(o)
    <2>1. PICK r \in requests[o] :
             venue' = [venue EXCEPT ![o].qty = r.qty] /\ Emit(o, Update(r.qty))
      BY <1>8, Zenon DEF VenueUpdates
    <2>2. r.qty \in Nat
      BY ONLY <1>1, <2>1 DEF Request
    <2>3. Update(r.qty) \in Report
      BY <2>2, FillIsReport, Zenon
    <2>4. VenueStep(o, Update(r.qty))
      BY <1>1, <2>1, <2>3, Zenon DEF VenueStep, Update, VenueOrder
    <2>5. QED
      BY <2>3, <2>4, Zenon
  <1>9. CASE VenueRefuses(o)
    <2>1. PICK r \in requests[o] :
             Emit(o, Plain(IF r.kind = "modify" THEN "ModifyRejected" ELSE "CancelRejected"))
      BY <1>9, Zenon DEF VenueRefuses
    <2> DEFINE e == Plain(IF r.kind = "modify" THEN "ModifyRejected" ELSE "CancelRejected")
    <2>2. e \in Report
      BY PlainIsReport, Zenon DEF ReportType
    <2>3. e.type # "Filled" /\ Emit(o, e) /\ venue' = venue
      BY <1>9, <2>1, Zenon DEF VenueRefuses, Plain
    <2> HIDE DEF e
    <2>4. VenueStep(o, e)
      BY <2>2, <2>3, Zenon DEF VenueStep
    <2>5. QED
      BY <2>2, <2>4, Zenon
  <1>10. CASE VenueCorrects(o)
    <2>1. PICK f \in archive[o] : f.type = "Filled" /\ Emit(o, [f EXCEPT !.px = 2])
      BY <1>10, Zenon DEF VenueCorrects
    <2> DEFINE e == [f EXCEPT !.px = 2]
    <2>2. f \in Report
      BY <1>1, <2>1, Zenon DEF StreamTypeOK
    <2>3. e \in Report /\ e.trade = f.trade /\ e.qty = f.qty
      BY <2>2, Zenon DEF Report, Event
    <2>4. Emit(o, e) /\ ~Reliable /\ venue' = venue
      BY <1>10, <2>1, Zenon DEF VenueCorrects
    <2> HIDE DEF e
    <2>5. VenueStep(o, e)
      BY <2>1, <2>3, <2>4, Zenon DEF VenueStep
    <2>6. QED
      BY <2>3, <2>5, Zenon
  <1>11. QED
    BY <1>2, <1>3, <1>4, <1>5, <1>6, <1>7, <1>8, <1>9, <1>10, Zenon DEF VenueReports

(* A step of the engine's own: the venue executes nothing and sends nothing. *)
Quiet ==
    /\ \A p \in ClientOrderId : venue'[p].filled = venue[p].filled
    /\ \A p \in ClientOrderId : Coming(p)' \subseteq Coming(p)

(* The engine handles an event; a fill is one that was on its way. *)
Handles(o, e) ==
    /\ ~panicked /\ e.type # "PendingCancel" /\ handle_event(o, e)
    /\ e.type = "Filled" => e \in Coming(o)

(* The strategy marks an order pending. *)
Marks(o, e) ==
    /\ OrderTaken(o, e) /\ e.type # "Filled"
    /\ UNCHANGED <<position, refused, panicked>>

LedgerStep ==
    \/ UNCHANGED vars
    \/ UNCHANGED engineVars /\ \E o \in ClientOrderId, e \in Report : VenueStep(o, e)
    \/ Quiet /\ \E o \in ClientOrderId, e \in Event : Handles(o, e) \/ Marks(o, e)

(* A step with which nothing more is to come and the venue fills nothing. *)
LEMMA QuietWhen ==
    ASSUME UNCHANGED <<stream, archive>>,
           \A p \in ClientOrderId : venue'[p].filled = venue[p].filled
    PROVE  Quiet
  BY Zenon DEF Quiet, Coming

(* Every step is one of these. *)
LEMMA NextIsLedgerStep == TypeOK /\ [Next]_vars => LedgerStep
  <1> SUFFICES ASSUME TypeOK, [Next]_vars PROVE LedgerStep
    BY Zenon
  <1>1. CASE UNCHANGED vars
    BY <1>1, Zenon DEF LedgerStep
  <1>2. ASSUME NEW o \in ClientOrderId, SubmitOrder(o) PROVE LedgerStep
    <2>1. "Submitted" \in EventType
      BY Zenon DEF EventType, Status
    <2>2. Handles(o, Plain("Submitted"))
      BY <1>2, <2>1, PlainIsEvent, Zenon DEF SubmitOrder, Handles
    <2>3. \A p \in ClientOrderId : venue'[p].filled = venue[p].filled
      BY ONLY <1>2 DEF SubmitOrder, TypeOK
    <2>4. Quiet
      BY <1>2, <2>3, QuietWhen, Zenon DEF SubmitOrder, streamVars
    <2>5. QED
      BY <2>1, <2>2, <2>4, PlainIsEvent, Zenon DEF LedgerStep
  <1>3. ASSUME NEW o \in ClientOrderId, deny_order(o) PROVE LedgerStep
    <2>1. "Denied" \in EventType
      BY Zenon DEF EventType, Status, Closed
    <2>2. Handles(o, Plain("Denied"))
      BY <1>3, <2>1, PlainIsEvent, Zenon DEF deny_order, Handles
    <2>3. Quiet
      BY <1>3, QuietWhen, Zenon DEF deny_order, streamVars
    <2>4. QED
      BY <2>1, <2>2, <2>3, PlainIsEvent, Zenon DEF LedgerStep
  <1>4. ASSUME NEW o \in ClientOrderId, modify_order(o) PROVE LedgerStep
    <2>1. "PendingUpdate" \in EventType
      BY Zenon DEF EventType, Status, Open, Pending
    <2>2. Marks(o, Plain("PendingUpdate"))
      BY <1>4, <2>1, PlainIsEvent, Zenon DEF modify_order, update_order, OrderTaken, Marks
    <2>3. Quiet
      BY <1>4, QuietWhen, Zenon DEF modify_order, streamVars
    <2>4. QED
      BY <2>1, <2>2, <2>3, PlainIsEvent, Zenon DEF LedgerStep
  <1>5. ASSUME NEW o \in ClientOrderId, cancel_order(o) PROVE LedgerStep
    <2>1. "PendingCancel" \in EventType
      BY Zenon DEF EventType, Status, Open, Pending
    <2>2. Marks(o, Plain("PendingCancel"))
      BY <1>5, <2>1, PlainIsEvent, Zenon DEF cancel_order, OrderTaken, Marks
    <2>3. Quiet
      BY <1>5, QuietWhen, Zenon DEF cancel_order, streamVars
    <2>4. QED
      BY <2>1, <2>2, <2>3, PlainIsEvent, Zenon DEF LedgerStep
  <1>6. ASSUME NEW o \in ClientOrderId, reject_modify_order(o) PROVE LedgerStep
    <2>1. "ModifyRejected" \in EventType
      BY Zenon DEF EventType
    <2>2. Handles(o, Plain("ModifyRejected"))
      BY <1>6, <2>1, PlainIsEvent, Zenon DEF reject_modify_order, Handles
    <2>3. Quiet
      BY <1>6, QuietWhen, Zenon DEF reject_modify_order, streamVars
    <2>4. QED
      BY <2>1, <2>2, <2>3, PlainIsEvent, Zenon DEF LedgerStep
  <1>7. ASSUME NEW o \in ClientOrderId, VenueReports(o) PROVE LedgerStep
    BY <1>7, VenueLeavesEngine, VenueEmits, TypeOKParts, Zenon DEF LedgerStep
  <1>8. ASSUME NEW o \in ClientOrderId, DeliverNext(o) PROVE LedgerStep
    <2> DEFINE e == Head(stream[o])
    <2>1. stream[o] \in Seq(Report) /\ stream[o] # <<>>
      BY <1>8, Zenon DEF DeliverNext, TypeOK
    <2>2. e \in Report /\ e = stream[o][1] /\ 1 \in DOMAIN stream[o]
      BY ONLY <2>1
    <2>3. Handles(o, e)
      BY <1>8, <2>2, Zenon DEF DeliverNext, Handles, Coming, Report, ReportType
    <2>4. /\ stream'[o] = Tail(stream[o])
          /\ \A p \in ClientOrderId : p # o => stream'[p] = stream[p]
      BY <1>8, Zenon DEF DeliverNext, TypeOK
    <2>5. \A i \in DOMAIN Tail(stream[o]) :
             i + 1 \in DOMAIN stream[o] /\ Tail(stream[o])[i] = stream[o][i + 1]
      BY ONLY <2>1
    <2>6. UNCHANGED <<venue, archive>>
      BY <1>8, Zenon DEF DeliverNext
    <2>7. \A p \in ClientOrderId : Coming(p)' \subseteq Coming(p)
      <3>1. ASSUME NEW i \in DOMAIN stream'[o] PROVE stream'[o][i] \in Coming(o)
        BY ONLY <2>4, <2>5, <3>1 DEF Coming
      <3>2. Coming(o)' \subseteq Coming(o)
        BY <2>6, <3>1, Zenon DEF Coming
      <3>3. ASSUME NEW p \in ClientOrderId, p # o PROVE Coming(p)' = Coming(p)
        BY <2>4, <2>6, <3>3, Zenon DEF Coming
      <3>4. QED
        BY <3>2, <3>3, Zenon
    <2>8. Quiet
      BY <2>6, <2>7, Zenon DEF Quiet
    <2>9. QED
      BY <2>2, <2>3, <2>8, Zenon DEF LedgerStep, Report
  <1>9. ASSUME NEW o \in ClientOrderId, DeliverAny(o) PROVE LedgerStep
    <2>1. PICK e \in archive[o] : handle_event(o, e)
      BY <1>9, Zenon DEF DeliverAny
    <2>2. e \in Event /\ e.type # "PendingCancel"
      BY <2>1, Zenon DEF TypeOK, Report, ReportType
    <2>3. Handles(o, e)
      BY <1>9, <2>1, <2>2, Zenon DEF DeliverAny, Handles, Coming
    <2>4. Quiet
      BY <1>9, QuietWhen, Zenon DEF DeliverAny, streamVars
    <2>5. QED
      BY <2>2, <2>3, <2>4, Zenon DEF LedgerStep
  <1>10. QED
    BY <1>1, <1>2, <1>3, <1>4, <1>5, <1>6, <1>7, <1>8, <1>9, Zenon DEF Next

(* Only a fill that apply takes changes an order's ledger. *)
LEMMA LedgerApplied ==
    ASSUME NEW order \in Order, NEW e \in Event, NEW triggerable,
           apply_error(order, e, triggerable) = "none"
    PROVE  IF e.type = "Filled"
           THEN /\ applied(order, e).filled_qty = order.filled_qty + e.qty
                /\ applied(order, e).fills = order.fills \cup {e}
                /\ \A f \in order.fills : f.trade # e.trade
           ELSE /\ applied(order, e).filled_qty = order.filled_qty
                /\ applied(order, e).fills = order.fills
  <1>1. e.type \in Admits[order.status]
    BY Zenon DEF apply_error
  <1>2. e.type = "Filled" => ~has_trade_id(order, e)
    BY Zenon DEF apply_error
  <1>3. QED
    BY <1>1, <1>2, AppliedFields, Zenon DEF has_trade_id

(* So does every step. *)
LEMMA LedgerStepInv ==
    ASSUME TypeOK, TypeOK', LedgerInv, LedgerStep
    PROVE  LedgerInv'
  (* Fewer events lie apart too, and a venue that executed more covers them. *)
  <1>FillsApartShrink.
      ASSUME NEW S \in SUBSET Event, NEW T \in SUBSET S, NEW n \in Nat, NEW m \in Nat, n <= m,
             FillsApart(S, n)
      PROVE  FillsApart(T, m)
    <2> USE <1>FillsApartShrink
    <2>1. ASSUME NEW e \in T, e.type = "Filled" PROVE e.qty \in 1..e.trade /\ e.trade \in 1..m
      <3>1. e.qty \in 1..e.trade /\ e.trade \in 1..n
        BY <2>1, Zenon DEF FillsApart
      <3>2. QED
        BY <3>1
    <2>2. QED
      BY <2>1, Zenon DEF FillsApart

  (* A report of the venue keeps the fills apart: it is no fill, the next one, *)
  (* or one reported before.                                                   *)
  <1>FillsApartAdd.
      ASSUME NEW S \in SUBSET Event, NEW e \in Event, NEW n \in Nat, NEW m \in Nat,
             FillsApart(S, n),
             \/ e.type # "Filled" /\ m = n
             \/ \E q \in Nat \ {0} : e = Fill(n + q, q) /\ m = n + q
             \/ m = n /\ \E f \in S : f.type = "Filled" /\ e.trade = f.trade /\ e.qty = f.qty
      PROVE  FillsApart(S \cup {e}, m)
    <2> USE <1>FillsApartAdd
    <2>1. n <= m
      OBVIOUS
    <2>2. FillsApart(S, m)
      BY <2>1, <1>FillsApartShrink, Zenon
    <2>3. CASE e.type # "Filled"
      BY <2>2, <2>3, Zenon DEF FillsApart
    <2>4. CASE e.type = "Filled"
      <3>1. e.qty \in 1..e.trade /\ e.trade \in 1..m
        <4>1. ASSUME NEW q \in Nat \ {0}, e = Fill(n + q, q), m = n + q
              PROVE  e.qty \in 1..e.trade /\ e.trade \in 1..m
          <5>1. e.qty = q /\ e.trade = n + q
            BY <4>1, Zenon DEF Fill
          <5>2. QED
            BY ONLY <4>1, <5>1
        <4>2. ASSUME NEW f \in S, f.type = "Filled", e.trade = f.trade, e.qty = f.qty
              PROVE  e.qty \in 1..e.trade /\ e.trade \in 1..m
          BY <2>2, <4>2, Zenon DEF FillsApart
        <4>3. QED
          BY <2>4, <4>1, <4>2, Zenon
      <3>2. ASSUME NEW f \in S, f.type = "Filled"
            PROVE  /\ e.trade = f.trade => e.qty = f.qty
                   /\ e.trade < f.trade => e.trade + f.qty <= f.trade
                   /\ f.trade < e.trade => f.trade + e.qty <= e.trade
        <4>1. ASSUME NEW q \in Nat \ {0}, e = Fill(n + q, q), m = n + q
              PROVE  f.trade < e.trade /\ f.trade + e.qty <= e.trade
          <5>1. e.qty = q /\ e.trade = n + q
            BY <4>1, Zenon DEF Fill
          <5>2. f.trade \in 1..n
            BY <3>2, Zenon DEF FillsApart
          <5>3. QED
            BY ONLY <4>1, <5>1, <5>2
        <4>2. ASSUME NEW g \in S, g.type = "Filled", e.trade = g.trade, e.qty = g.qty
              PROVE  /\ e.trade = f.trade => e.qty = f.qty
                     /\ e.trade < f.trade => e.trade + f.qty <= f.trade
                     /\ f.trade < e.trade => f.trade + e.qty <= e.trade
          BY <3>2, <4>2, Zenon DEF FillsApart
        <4>3. e.trade \in Nat /\ f.trade \in Nat
          BY Zenon DEF Event
        <4>4. QED
          BY <2>4, <4>1, <4>2, <4>3
      <3>3. ~(e.trade < e.trade)
        BY SMTT(60) DEF Event
      <3>4. QED
        BY ONLY <2>2, <3>1, <3>2, <3>3 DEF FillsApart
    <2>5. QED
      BY <2>3, <2>4, Zenon

  (* What is to come are reports. *)
  <1>ComingType. ASSUME TypeOK, NEW o \in ClientOrderId
                 PROVE  /\ Coming(o) \in SUBSET Report
                        /\ Emitted(o) \in SUBSET Event
                        /\ venue[o].filled \in Nat
    <2> USE <1>ComingType
    <2>1. \A i \in DOMAIN stream[o] : stream[o][i] \in Report
      BY SMTT(60) DEF TypeOK
    <2>2. archive[o] \in SUBSET Report /\ orders[o].fills \in SUBSET Event
      BY Zenon DEF TypeOK, Order
    <2>3. QED
      BY <2>1, <2>2, SMTT(60) DEF Coming, Emitted, Report, TypeOK

  (* What an emission adds to what is to come. *)
  <1>EmitComing. ASSUME TypeOK, NEW o \in ClientOrderId, NEW e \in Report, Emit(o, e)
                 PROVE  /\ Coming(o)' \subseteq Coming(o) \cup {e}
                        /\ \A p \in ClientOrderId : p # o => Coming(p)' = Coming(p)
    <2> USE <1>EmitComing
    <2>1. stream \in [ClientOrderId -> Seq(Report)] /\ archive \in [ClientOrderId -> SUBSET Report]
      BY Zenon DEF TypeOK
    <2>2. Reliable = TRUE \/ Reliable = FALSE
      BY EngineAssumption, Zenon
    <2>3. CASE Reliable = TRUE
      <3>1. stream' = [stream EXCEPT ![o] = Append(@, e)] /\ archive' = archive
        BY <2>3, Zenon DEF Emit
      <3>2. stream'[o] = Append(stream[o], e) /\ stream[o] \in Seq(Report)
        BY <2>1, <3>1, Zenon
      <3>3. ASSUME NEW i \in DOMAIN stream'[o]
            PROVE  \/ stream'[o][i] = e
                   \/ i \in DOMAIN stream[o] /\ stream'[o][i] = stream[o][i]
        BY ONLY <3>2
      <3>4. Coming(o)' \subseteq Coming(o) \cup {e}
        BY <3>1, <3>3, Zenon DEF Coming
      <3>5. ASSUME NEW p \in ClientOrderId, p # o PROVE Coming(p)' = Coming(p)
        <4>1. stream'[p] = stream[p] /\ archive'[p] = archive[p]
          BY <2>1, <3>1, <3>5, Zenon
        <4>2. QED
          BY <4>1, Zenon DEF Coming
      <3>6. QED
        BY <3>4, <3>5, Zenon
    <2>4. CASE Reliable = FALSE
      <3>1. stream' = stream /\ archive' = [archive EXCEPT ![o] = @ \cup {e}]
        BY <2>4, Zenon DEF Emit
      <3>2. archive'[o] = archive[o] \cup {e}
        BY <2>1, <3>1, Zenon
      <3>3. \A p \in ClientOrderId : p # o => archive'[p] = archive[p]
        BY <2>1, <3>1, Zenon
      <3>4. QED
        BY <3>1, <3>2, <3>3, Zenon DEF Coming
    <2>5. QED
      BY <2>2, <2>3, <2>4, Zenon

  (* A step of the venue keeps the ledger. *)
  <1>LedgerVenue. ASSUME TypeOK, TypeOK', LedgerInv, UNCHANGED engineVars, NEW o \in ClientOrderId,
                         NEW e \in Report, VenueStep(o, e)
                  PROVE  LedgerInv'
    <2> USE <1>LedgerVenue
    <2> SUFFICES ASSUME NEW p \in ClientOrderId
                 PROVE  FillsApart(Emitted(p), venue[p].filled)'
      BY Zenon DEF LedgerInv, engineVars
    <2>1. FillsApart(Emitted(p), venue[p].filled)
      BY Zenon DEF LedgerInv
    <2>2. /\ Emitted(p) \in SUBSET Event /\ venue[p].filled \in Nat
          /\ venue'[p].filled \in Nat
      BY <1>ComingType, Zenon DEF TypeOK
    <2>3. e \in Event /\ Emit(o, e) /\ orders' = orders
      BY Zenon DEF Report, VenueStep, engineVars
    <2>4. CASE p # o
      <3>1. Emitted(p)' = Emitted(p) /\ venue'[p] = venue[p]
        BY <2>3, <2>4, <1>EmitComing, Zenon DEF Emitted, VenueStep
      <3>2. QED
        BY <2>1, <3>1, Zenon
    <2>5. CASE p = o
      <3>1. Emitted(p)' \subseteq Emitted(p) \cup {e}
        BY <2>3, <2>5, <1>EmitComing, Zenon DEF Emitted
      <3>2. archive[p] \subseteq Emitted(p)
        BY Zenon DEF Emitted, Coming
      <3>3. FillsApart(Emitted(p) \cup {e}, venue'[p].filled)
        <4>1. \/ e.type # "Filled" /\ venue'[p].filled = venue[p].filled
              \/ \E q \in Nat \ {0} : /\ e = Fill(venue[p].filled + q, q)
                                      /\ venue'[p].filled = venue[p].filled + q
              \/ /\ venue'[p].filled = venue[p].filled
                 /\ \E f \in Emitted(p) : /\ f.type = "Filled" /\ e.trade = f.trade
                                          /\ e.qty = f.qty
          BY <2>5, <3>2, Zenon DEF VenueStep
        <4>2. QED
          BY <2>1, <2>2, <2>3, <4>1, <1>FillsApartAdd, Zenon
      <3>4. Emitted(p) \cup {e} \in SUBSET Event /\ venue'[p].filled <= venue'[p].filled
        BY ONLY <2>2, <2>3
      <3>5. QED
        BY <2>2, <3>1, <3>3, <3>4, <1>FillsApartShrink, Zenon
    <2>6. QED
      BY <2>4, <2>5, Zenon

  (* The ledger of one order that takes a fill that is new to it. *)
  <1>LedgerFill. ASSUME NEW order \in Order, NEW e \in Event, IsFiniteSet(order.fills),
                        order.filled_qty = SumOf([f \in order.fills |-> f.qty]),
                        e \notin order.fills
                 PROVE  /\ IsFiniteSet(order.fills \cup {e})
                        /\ order.filled_qty + e.qty = SumOf([f \in order.fills \cup {e} |-> f.qty])
    <2> USE <1>LedgerFill
    <2> DEFINE S == order.fills
               T == S \cup {e}
               F == [f \in S |-> f.qty]
               G == [f \in T |-> f.qty]
    <2>1. S \in SUBSET Event /\ e.qty \in Nat
      BY Zenon DEF Order, Event
    <2>2. F \in [S -> Nat] /\ G \in [T -> Nat]
      BY <2>1, Zenon DEF Event
    <2>3. IsFiniteSet(T)
      BY FS_AddElement, Zenon
    <2>4. /\ 0 = IF e \in S THEN F[e] ELSE 0
          /\ G[e] = 0 + e.qty
          /\ \A y \in T : y # e => y \in S /\ G[y] = F[y]
      BY <2>1
    <2>5. S \subseteq T /\ e \in T
      BY Zenon
    <2> HIDE DEF S, T, F, G
    <2>6. IsFiniteSet(S)
      BY Zenon DEF S
    <2>7. SumOf(G) = SumOf(F) + e.qty
      BY ONLY <2>1, <2>2, <2>3, <2>4, <2>5, <2>6, SumGrows, SMTT(60)
    <2>8. QED
      BY <2>3, <2>7, Zenon DEF S, T, F, G

  (* So does an event the engine has taken. *)
  <1>LedgerTaken.
      ASSUME TypeOK, TypeOK', LedgerInv, Quiet, NEW o \in ClientOrderId, NEW e \in Event,
             \/ orders' = orders
             \/ OrderTaken(o, e) /\ (e.type = "Filled" => e \in Coming(o))
      PROVE  LedgerInv'
    <2> USE <1>LedgerTaken
    <2> SUFFICES ASSUME NEW p \in ClientOrderId
                 PROVE  /\ FillsApart(Emitted(p), venue[p].filled)'
                        /\ \A f \in orders'[p].fills : f.type = "Filled"
                        /\ IsFiniteSet(orders'[p].fills)
                        /\ orders'[p].filled_qty = SumOf([f \in orders'[p].fills |-> f.qty])
      BY Zenon DEF LedgerInv
    <2>1. /\ FillsApart(Emitted(p), venue[p].filled)
          /\ \A f \in orders[p].fills : f.type = "Filled"
          /\ IsFiniteSet(orders[p].fills)
          /\ orders[p].filled_qty = SumOf([f \in orders[p].fills |-> f.qty])
      BY Zenon DEF LedgerInv
    <2>2. orders[o] \in Order /\ orders[p] \in Order
      BY Zenon DEF TypeOK
    <2>3. \/ /\ orders'[p].fills = orders[p].fills
             /\ orders'[p].filled_qty = orders[p].filled_qty
          \/ /\ e.type = "Filled" /\ e \in Coming(p)
             /\ orders'[p].fills = orders[p].fills \cup {e}
             /\ orders'[p].filled_qty = orders[p].filled_qty + e.qty
             /\ e \notin orders[p].fills
      <3>1. CASE orders' = orders
        BY <3>1, Zenon
      <3>2. CASE OrderTaken(o, e) /\ (e.type = "Filled" => e \in Coming(o))
        <4>1. orders'[p] = IF p = o THEN applied(orders[o], e) ELSE orders[p]
          BY <3>2, Zenon DEF OrderTaken, TypeOK
        <4>2. apply_error(orders[o], e, o \in Triggerable) = "none"
          BY <3>2, Zenon DEF OrderTaken, error
        <4>3. CASE p # o
          BY <4>1, <4>3, Zenon
        <4>4. CASE p = o /\ e.type = "Filled"
          <5>1. /\ orders'[p].filled_qty = orders[p].filled_qty + e.qty
                /\ orders'[p].fills = orders[p].fills \cup {e}
                /\ e \notin orders[p].fills
            BY ONLY <2>2, <4>1, <4>2, <4>4, LedgerApplied
          <5>2. QED
            BY <3>2, <4>4, <5>1, Zenon
        <4>5. CASE p = o /\ e.type # "Filled"
          BY ONLY <2>2, <4>1, <4>2, <4>5, LedgerApplied
        <4>6. QED
          BY <4>3, <4>4, <4>5, Zenon
      <3>3. QED
        BY <3>1, <3>2, Zenon
    <2>4. FillsApart(Emitted(p), venue[p].filled)'
      <3>1. Emitted(p)' \subseteq Emitted(p) /\ venue'[p].filled = venue[p].filled
        BY <2>3, Zenon DEF Emitted, Quiet
      <3>2. Emitted(p) \in SUBSET Event /\ venue[p].filled \in Nat
        BY <1>ComingType, Zenon
      <3>3. venue[p].filled <= venue'[p].filled
        BY ONLY <3>1, <3>2
      <3>4. QED
        BY <2>1, <3>1, <3>2, <3>3, <1>FillsApartShrink, Zenon
    <2>5. IsFiniteSet(orders'[p].fills)
          /\ orders'[p].filled_qty = SumOf([f \in orders'[p].fills |-> f.qty])
      BY <2>1, <2>2, <2>3, <1>LedgerFill, Zenon
    <2>6. QED
      BY <2>1, <2>3, <2>4, <2>5, Zenon

  <1>1. CASE UNCHANGED vars
    BY <1>1, Zenon DEF vars, LedgerInv, Emitted, Coming
  <1>2. CASE UNCHANGED engineVars /\ \E o \in ClientOrderId, e \in Report : VenueStep(o, e)
    BY <1>2, <1>LedgerVenue, Zenon
  <1>3. ASSUME Quiet, NEW o \in ClientOrderId, NEW e \in Event, Handles(o, e) \/ Marks(o, e)
        PROVE  LedgerInv'
    <2>1. \/ orders' = orders
          \/ OrderTaken(o, e) /\ (e.type = "Filled" => e \in Coming(o))
      BY <1>3, Zenon DEF Handles, Marks, handle_event, EventSkipped, EventApplied, EventRefused,
                  EventDropped, engineVars, update_order, OrderTaken
    <2>2. QED
      BY <1>3, <2>1, <1>LedgerTaken, Zenon
  <1>4. QED
    BY <1>1, <1>2, <1>3, Zenon DEF LedgerStep

(* The ledger is empty at first. *)
LEMMA LedgerInit == Init => LedgerInv
  <1> SUFFICES ASSUME Init, NEW o \in ClientOrderId
               PROVE  /\ FillsApart(Emitted(o), venue[o].filled)
                      /\ \A e \in orders[o].fills : e.type = "Filled"
                      /\ IsFiniteSet(orders[o].fills)
                      /\ orders[o].filled_qty = SumOf([e \in orders[o].fills |-> e.qty])
    BY Zenon DEF LedgerInv
  <1>1. orders[o].fills = {} /\ orders[o].filled_qty = 0
    BY Zenon DEF Init, NewOrder
  <1>2. Emitted(o) = {}
    BY <1>1 DEF Init, Emitted, Coming
  <1>3. SumOf([e \in {} |-> e.qty]) = 0
    <2>1. [e \in {} |-> e.qty] \in [{} -> Nat]
      BY Zenon
    <2>2. QED
      BY <2>1, SumOfNothing, Zenon
  <1>4. QED
    BY <1>1, <1>2, <1>3, FS_EmptySet, Zenon DEF FillsApart

-----------------------------------------------------------------------------
(* The position.  As long as no fill was refused by its order, every fill  *)
(* the position has is on record with its order, so that none comes twice. *)
NoRefusedFill == \A o \in ClientOrderId : \A e \in refused[o] : e.type # "Filled"

PositionRecorded ==
    \A f \in position.events : \E g \in orders[f.order].fills : g.trade = f.trade

FilledQty == [o \in ClientOrderId |-> orders[o].filled_qty]

PositionInv ==
    NoRefusedFill =>
        /\ position.signed_qty = Net(FilledQty)
        /\ position.open <=> position.signed_qty # 0
        /\ ~panicked
        /\ PositionRecorded

(* Every step keeps the position with the fills. *)
LEMMA PositionStepInv ==
    ASSUME TypeOK, TypeOK', LedgerInv, PositionInv, LedgerStep
    PROVE  PositionInv'
  (* A fill of n moves the net quantity by n, to the side of its order. *)
  <1>NetGrows. ASSUME NEW f \in [ClientOrderId -> Nat], NEW g \in [ClientOrderId -> Nat],
                      NEW o \in ClientOrderId, NEW n \in Nat,
                      g[o] = f[o] + n, \A p \in ClientOrderId : p # o => g[p] = f[p]
               PROVE  Net(g) = Net(f) + signed(o, n) /\ Net(f) \in Int
    <2> USE <1>NetGrows
    <2> DEFINE FB == [p \in Buys |-> f[p]]
               FS == [p \in Sells |-> f[p]]
               GB == [p \in Buys |-> g[p]]
               GS == [p \in Sells |-> g[p]]
    <2>1. IsFiniteSet(Buys) /\ IsFiniteSet(Sells) /\ Buys \cap Sells = {}
      <3>1. IsFiniteSet(ClientOrderId) /\ Buys \cap Sells = {}
        BY EngineAssumption, Zenon
      <3>2. Buys \in SUBSET ClientOrderId /\ Sells \in SUBSET ClientOrderId
        BY Zenon DEF ClientOrderId
      <3>3. QED
        BY <3>1, <3>2, FS_Subset, Zenon
    <2>2. FB \in [Buys -> Nat] /\ GB \in [Buys -> Nat] /\ FS \in [Sells -> Nat]
          /\ GS \in [Sells -> Nat]
      BY Zenon DEF ClientOrderId
    <2>3. SumOf(FB) \in Nat /\ SumOf(FS) \in Nat /\ SumOf(GB) \in Nat /\ SumOf(GS) \in Nat
      BY <2>1, <2>2, UnitsFinite, Zenon
    <2>4. Net(f) = SumOf(FB) - SumOf(FS) /\ Net(g) = SumOf(GB) - SumOf(GS)
      BY Zenon DEF Net
    <2>5. CASE o \in Buys
      <3>1. GS = FS
        BY <2>1, <2>5, Zenon DEF ClientOrderId
      <3>2. f[o] = (IF o \in Buys THEN FB[o] ELSE 0) /\ GB[o] = f[o] + n /\ f[o] \in Nat
        BY <2>5, Zenon
      <3>3. \A y \in Buys : y # o => y \in Buys /\ GB[y] = FB[y]
        BY Zenon DEF ClientOrderId
      <3> HIDE DEF FB, GB
      <3>4. SumOf(GB) = SumOf(FB) + n
        BY <2>1, <2>2, <2>5, <3>2, <3>3, SumGrows, SMTT(60)
      <3> HIDE DEF FS, GS
      <3>5. signed(o, n) = n
        BY <2>5, Zenon DEF signed
      <3>6. QED
        BY ONLY <2>3, <2>4, <3>1, <3>4, <3>5
    <2>6. CASE o \notin Buys
      <3>1. o \in Sells
        BY <2>6, Zenon DEF ClientOrderId
      <3>2. GB = FB
        BY <2>6, Zenon DEF ClientOrderId
      <3>3. f[o] = (IF o \in Sells THEN FS[o] ELSE 0) /\ GS[o] = f[o] + n /\ f[o] \in Nat
        BY <3>1, Zenon
      <3>4. \A y \in Sells : y # o => y \in Sells /\ GS[y] = FS[y]
        BY Zenon DEF ClientOrderId
      <3> HIDE DEF FS, GS
      <3>5. SumOf(GS) = SumOf(FS) + n
        BY <2>1, <2>2, <3>1, <3>3, <3>4, SumGrows
      <3> HIDE DEF FB, GB
      <3>6. signed(o, n) = -n
        BY <2>6, Zenon DEF signed
      <3>7. QED
        BY ONLY <2>3, <2>4, <3>2, <3>5, <3>6
    <2>7. QED
      BY <2>5, <2>6, Zenon

  (* A fill the position does not have moves it by its signed quantity,      *)
  (* whether the position is closed, grows, shrinks, closes or flips.        *)
  <1>PositionTakes. ASSUME PositionTypeOK, NEW o \in ClientOrderId, NEW e \in Event, e.qty # 0,
                           position.open <=> position.signed_qty # 0,
                           ~position_has_trade_id(o, e), handle_position_update(o, e)
                    PROVE  /\ position'.signed_qty = position.signed_qty + signed(o, e.qty)
                           /\ position'.open <=> position'.signed_qty # 0
                           /\ UNCHANGED panicked
                           /\ \A f \in position'.events :
                                  f \in position.events \/ (f.order = o /\ f.trade = e.trade)
    <2> USE <1>PositionTakes
    <2>1. /\ position.signed_qty \in Int /\ e.qty \in Nat /\ e.qty > 0
      BY DEF PositionTypeOK, Event
    <2>2. ASSUME NEW q \in Nat, q > 0, position' = PositionOf(o, e, q)
          PROVE  /\ position'.signed_qty = signed(o, q) /\ position'.signed_qty # 0
                 /\ position'.open = TRUE
                 /\ \A f \in position'.events : f.order = o /\ f.trade = e.trade
      BY ONLY <2>2 DEF PositionOf, signed
    <2>3. CASE open_position(o, e)
      <3>1. ~is_duplicate_closed_fill(o, e)
        BY Zenon DEF is_duplicate_closed_fill, position_has_trade_id
      <3>2. position' = PositionOf(o, e, e.qty) /\ UNCHANGED panicked
        BY <2>3, <3>1, Zenon DEF open_position
      <3>3. position.signed_qty = 0 /\ signed(o, e.qty) \in Int
        BY <2>1, <2>3 DEF open_position, signed
      <3>4. /\ position'.signed_qty = signed(o, e.qty) /\ position'.signed_qty # 0
            /\ position'.open = TRUE
            /\ \A f \in position'.events : f.order = o /\ f.trade = e.trade
        BY <2>1, <2>2, <3>2, Zenon
      <3>5. position'.signed_qty = position.signed_qty + signed(o, e.qty)
        BY ONLY <3>3, <3>4
      <3>6. QED
        BY <3>2, <3>4, <3>5, Zenon
    <2>4. CASE position_apply_panics(o, e)
      BY <2>4, Zenon DEF position_apply_panics
    <2>5. CASE flip_position(o, e)
      <3> DEFINE q == e.qty - abs(position.signed_qty)
      <3>1. q \in Nat /\ q > 0
        BY ONLY <2>1, <2>5 DEF flip_position, will_flip_position, abs
      <3>2. position' = PositionOf(o, e, q) /\ UNCHANGED panicked
        BY <2>5, Zenon DEF flip_position
      <3>3. signed(o, q) = position.signed_qty + signed(o, e.qty)
        <4>1. position.signed_qty * signed(o, 1) < 0
          BY <2>5, Zenon DEF flip_position, will_flip_position
        <4>2. CASE o \in Buys
          <5>1. position.signed_qty < 0
            BY ONLY <2>1, <4>1, <4>2 DEF signed
          <5>2. QED
            BY ONLY <2>1, <4>2, <5>1 DEF signed, abs
        <4>3. CASE o \notin Buys
          <5>1. position.signed_qty > 0
            BY ONLY <2>1, <4>1, <4>3 DEF signed
          <5>2. QED
            BY ONLY <2>1, <4>3, <5>1 DEF signed, abs
        <4>4. QED
          BY <4>2, <4>3, Zenon
      <3> HIDE DEF q
      <3>4. QED
        BY <2>2, <3>1, <3>2, <3>3, Zenon
    <2>6. CASE update_position(o, e)
      <3> DEFINE n == position.signed_qty + signed(o, e.qty)
                 f == [order |-> o, trade |-> e.trade, qty |-> e.qty, px |-> e.px]
      <3>1. /\ position' = [signed_qty |-> n, open |-> n # 0, events |-> position.events \cup {f}]
            /\ UNCHANGED panicked
        BY <2>6, Zenon DEF update_position
      <3>2. f.order = o /\ f.trade = e.trade
        BY Zenon
      <3> HIDE DEF n, f
      <3>3. /\ position'.signed_qty = n /\ position'.open = (n # 0)
            /\ position'.events = position.events \cup {f}
        BY <3>1, Zenon
      <3>4. QED
        BY <3>1, <3>2, <3>3, Zenon DEF n
    <2>7. QED
      BY <2>3, <2>4, <2>5, <2>6, Zenon DEF handle_position_update

  (* Orders whose filled_qty and fills a step keeps or extends keep what the *)
  (* position has on record.                                                 *)
  <1>PositionKept. ASSUME PositionInv, UNCHANGED <<position, panicked>>,
                          \A o \in ClientOrderId : refused[o] \subseteq refused'[o],
                          \A o \in ClientOrderId : /\ orders'[o].filled_qty = orders[o].filled_qty
                                                   /\ orders'[o].fills = orders[o].fills,
                          TypeOK
                   PROVE  PositionInv'
    <2> USE <1>PositionKept
    <2> SUFFICES ASSUME NoRefusedFill'
                 PROVE  /\ position.signed_qty = Net(FilledQty')
                        /\ position.open <=> position.signed_qty # 0
                        /\ ~panicked
                        /\ PositionRecorded'
      BY Zenon DEF PositionInv
    <2>1. NoRefusedFill
      BY Zenon DEF NoRefusedFill
    <2>2. FilledQty' = FilledQty
      BY Zenon DEF FilledQty
    <2>3. \A f \in position.events : f.order \in ClientOrderId
      BY Zenon DEF TypeOK, Events
    <2>4. PositionRecorded'
      BY <2>1, <2>3, Zenon DEF PositionInv, PositionRecorded
    <2>5. QED
      BY <2>1, <2>2, <2>4, Zenon DEF PositionInv

  (* A fill that its order takes reaches the position for the first time. *)
  <1>PositionFill.
      ASSUME TypeOK, TypeOK', LedgerInv, PositionInv, NEW o \in ClientOrderId, NEW e \in Event,
             e.type = "Filled", e \in Coming(o), EventApplied(o, e)
      PROVE  PositionInv'
    <2> USE <1>PositionFill
    <2> SUFFICES ASSUME NoRefusedFill'
                 PROVE  /\ position'.signed_qty = Net(FilledQty')
                        /\ position'.open <=> position'.signed_qty # 0
                        /\ ~panicked'
                        /\ PositionRecorded'
      BY Zenon DEF PositionInv
    <2>1. /\ position.signed_qty = Net(FilledQty)
          /\ position.open <=> position.signed_qty # 0
          /\ ~panicked
          /\ PositionRecorded
      BY Zenon DEF EventApplied, NoRefusedFill, PositionInv
    <2>2. /\ orders[o] \in Order /\ orders' = [orders EXCEPT ![o] = applied(orders[o], e)]
          /\ apply_error(orders[o], e, o \in Triggerable) = "none"
          /\ handle_position_update(o, e)
      BY Zenon DEF EventApplied, update_order, error, handle_order_fill, TypeOK
    <2>3. /\ orders'[o].filled_qty = orders[o].filled_qty + e.qty
          /\ orders'[o].fills = orders[o].fills \cup {e}
          /\ \A f \in orders[o].fills : f.trade # e.trade
      BY <2>2, LedgerApplied, SMTT(60) DEF TypeOK
    <2>4. \A p \in ClientOrderId : p # o => orders'[p] = orders[p]
      BY <2>2, Zenon DEF TypeOK
    <2>5. ~position_has_trade_id(o, e)
      BY <2>1, <2>3, Zenon DEF PositionRecorded, position_has_trade_id
    <2>6. e.qty \in Nat /\ e.qty # 0
      <3>1. e.qty \in 1..e.trade
        BY Zenon DEF LedgerInv, FillsApart, Emitted
      <3>2. e.qty \in Nat /\ e.trade \in Nat
        BY Zenon DEF Event
      <3>3. QED
        BY ONLY <3>1, <3>2
    <2>7. /\ position'.signed_qty = position.signed_qty + signed(o, e.qty)
          /\ position'.open <=> position'.signed_qty # 0
          /\ UNCHANGED panicked
          /\ \A f \in position'.events :
                 f \in position.events \/ (f.order = o /\ f.trade = e.trade)
      BY <2>1, <2>2, <2>5, <2>6, <1>PositionTakes, TypeOKParts, Zenon
    <2>8. Net(FilledQty') = Net(FilledQty) + signed(o, e.qty)
      <3>1. FilledQty \in [ClientOrderId -> Nat] /\ FilledQty' \in [ClientOrderId -> Nat]
        BY Zenon DEF FilledQty, TypeOK, Order
      <3>2. FilledQty'[o] = FilledQty[o] + e.qty
        BY <2>3, Zenon DEF FilledQty
      <3>3. \A p \in ClientOrderId : p # o => FilledQty'[p] = FilledQty[p]
        BY <2>4, Zenon DEF FilledQty
      <3>4. QED
        BY <2>6, <3>1, <3>2, <3>3, <1>NetGrows, Zenon
    <2>9. PositionRecorded'
      <3> SUFFICES ASSUME NEW f \in position'.events
                   PROVE  \E g \in orders'[f.order].fills : g.trade = f.trade
        BY Zenon DEF PositionRecorded
      <3>1. f.order \in ClientOrderId
        BY Zenon DEF TypeOK, Events
      <3>2. CASE f \in position.events
        BY <2>1, <2>3, <2>4, <3>1, <3>2, Zenon DEF PositionRecorded
      <3>3. CASE f.order = o /\ f.trade = e.trade
        BY <2>3, <3>3, Zenon
      <3>4. QED
        BY <2>7, <3>2, <3>3, Zenon
    <2>10. position'.signed_qty = Net(FilledQty')
      BY <2>1, <2>7, <2>8, Zenon
    <2>11. QED
      BY <2>1, <2>7, <2>9, <2>10, Zenon

  <1>1. CASE UNCHANGED vars
    BY <1>1, <1>PositionKept, Zenon DEF vars
  <1>2. CASE UNCHANGED engineVars
    BY <1>2, <1>PositionKept, Zenon DEF engineVars
  <1>3. ASSUME NEW o \in ClientOrderId, NEW e \in Event, OrderTaken(o, e), e.type # "Filled",
               UNCHANGED <<position, refused, panicked>>
        PROVE  PositionInv'
    <2>1. \A p \in ClientOrderId :
             orders'[p] = IF p = o THEN applied(orders[o], e) ELSE orders[p]
      BY <1>3, Zenon DEF OrderTaken, TypeOK
    <2>2. /\ applied(orders[o], e).filled_qty = orders[o].filled_qty
          /\ applied(orders[o], e).fills = orders[o].fills
      BY <1>3, LedgerApplied DEF OrderTaken, error, TypeOK
    <2>3. QED
      BY <1>3, <2>1, <2>2, <1>PositionKept, Zenon
  <1>4. ASSUME NEW o \in ClientOrderId, NEW e \in Event, Handles(o, e)
        PROVE  PositionInv'
    <2>1. CASE EventSkipped(o, e) \/ EventDropped(o, e)
      BY <1>2, <2>1, Zenon DEF EventSkipped, EventDropped
    <2>2. CASE EventApplied(o, e) /\ e.type # "Filled"
      <3>1. OrderTaken(o, e) /\ UNCHANGED <<position, refused, panicked>>
        BY <1>4, <2>2, Zenon DEF Handles, EventApplied, update_order, OrderTaken, handle_order_fill
      <3>2. QED
        BY <1>3, <2>2, <3>1, Zenon
    <2>3. CASE EventApplied(o, e) /\ e.type = "Filled"
      BY <1>4, <2>3, <1>PositionFill, Zenon DEF Handles
    <2>4. CASE EventRefused(o, e) /\ e.type # "Filled"
      <3>1. \A p \in ClientOrderId : refused[p] \subseteq refused'[p]
        BY <2>4, Zenon DEF EventRefused, TypeOK
      <3>2. UNCHANGED <<position, panicked, orders>>
        BY <2>4, Zenon DEF EventRefused, handle_order_fill
      <3>3. QED
        BY <3>1, <3>2, <1>PositionKept, Zenon
    <2>5. CASE EventRefused(o, e) /\ e.type = "Filled"
      <3>1. e \in refused'[o]
        BY <2>5, Zenon DEF EventRefused, TypeOK
      <3>2. QED
        BY <2>5, <3>1, Zenon DEF PositionInv, NoRefusedFill
    <2>6. QED
      BY <1>4, <2>1, <2>2, <2>3, <2>4, <2>5, Zenon DEF Handles, handle_event
  <1>5. QED
    BY <1>1, <1>2, <1>3, <1>4, Zenon DEF LedgerStep, Marks

(* No position at first. *)
LEMMA PositionInit == Init => PositionInv
  <1> SUFFICES ASSUME Init PROVE PositionInv
    BY Zenon
  <1>1. FilledQty = [o \in ClientOrderId |-> 0]
    BY Zenon DEF Init, FilledQty, NewOrder
  <1>2. SumOf([o \in Buys |-> FilledQty[o]]) = 0 /\ SumOf([o \in Sells |-> FilledQty[o]]) = 0
    <2>1. /\ [o \in Buys |-> FilledQty[o]] \in [Buys -> Nat]
          /\ [o \in Sells |-> FilledQty[o]] \in [Sells -> Nat]
          /\ \A o \in Buys : [p \in Buys |-> FilledQty[p]][o] = 0
          /\ \A o \in Sells : [p \in Sells |-> FilledQty[p]][o] = 0
      BY <1>1, Zenon DEF ClientOrderId
    <2>2. QED
      BY <2>1, SumOfNothing, Zenon
  <1>3. Net(FilledQty) = 0
    BY ONLY <1>2 DEF Net
  <1>4. /\ position.signed_qty = 0 /\ position.open = FALSE /\ position.events = {}
        /\ panicked = FALSE
    BY Zenon DEF Init
  <1>5. QED
    BY <1>3, <1>4, Zenon DEF PositionInv, PositionRecorded

(* The order and position ledgers together. *)
Ledgers == EngineInv /\ LedgerInv /\ PositionInv

(* The types, the orders, the ledger and the position together. *)
LEMMA LedgersInvariant == Spec => []Ledgers
  <1>1. Init => Ledgers
    BY EngineInvInit, LedgerInit, PositionInit, Zenon DEF Ledgers
  <1>2. Ledgers /\ [Next]_vars => Ledgers'
    <2> SUFFICES ASSUME Ledgers, [Next]_vars PROVE Ledgers'
      BY Zenon
    <2>1. EngineInv' /\ TypeOK /\ TypeOK'
      BY EngineInvStep, Zenon DEF Ledgers, EngineInv
    <2>2. LedgerStep
      BY <2>1, NextIsLedgerStep, Zenon
    <2>3. QED
      BY <2>1, <2>2, LedgerStepInv, PositionStepInv, Zenon DEF Ledgers
  <1>3. QED
    BY <1>1, <1>2, PTL DEF Spec

(* However reports are delayed, repeated or corrected, the engine counts   *)
(* each fill of an order once: filled_qty is the sum of the fills on       *)
(* record, and the intervals they stand for fit into what the venue        *)
(* executed.                                                               *)
THEOREM EngineNeverOvercounts == Spec => []NeverOvercounts
  <1>1. Ledgers => NeverOvercounts
    <2> SUFFICES ASSUME Ledgers, NEW o \in ClientOrderId
                 PROVE  orders[o].filled_qty <= venue[o].filled
      BY Zenon DEF NeverOvercounts, Ledgers, LedgerInv
    <2> DEFINE S == orders[o].fills
               n == venue[o].filled
               F == [e \in S |-> e.qty]
               G == [e \in S |-> e.trade - e.qty]
    <2>1. FillsApart(S, n) /\ \A e \in S : e.type = "Filled"
      BY Zenon DEF Ledgers, LedgerInv, Emitted, FillsApart
    <2>2. /\ IsFiniteSet(S) /\ orders[o].filled_qty = SumOf(F)
          /\ \A e, f \in S : e.trade = f.trade => e = f
      BY Zenon DEF Ledgers, LedgerInv, EngineInv, OrdersSound, OrderSound, TradesSound
    <2>3. n \in Nat /\ S \in SUBSET Event
      BY Zenon DEF Ledgers, EngineInv, TypeOK, Order
    <2>4. \A e \in S : e.qty \in Nat /\ e.trade \in Nat
      BY <2>3, Zenon DEF Event
    <2>5. \A e \in S : e.qty \in 1..e.trade /\ e.trade \in 1..n
      BY <2>1, Zenon DEF FillsApart
    <2>6. F \in [S -> Nat] /\ G \in [S -> Nat]
      BY ONLY <2>4, <2>5
    <2>7. \A e \in S : G[e] + F[e] <= n
      BY ONLY <2>3, <2>4, <2>5
    <2>8. ASSUME NEW e \in S, NEW f \in S, e # f
          PROVE  G[e] + F[e] <= G[f] \/ G[f] + F[f] <= G[e]
      <3>1. e.trade # f.trade
        BY <2>2, <2>8, Zenon
      <3>2. /\ e.trade < f.trade => e.trade + f.qty <= f.trade
            /\ f.trade < e.trade => f.trade + e.qty <= e.trade
        BY <2>1, Zenon DEF FillsApart
      <3>3. QED
        BY <2>4, <3>1, <3>2
    <2> HIDE DEF S, n, F, G
    <2>9. SumOf(F) <= n
      BY <2>2, <2>3, <2>6, <2>7, <2>8, SumFits, Zenon
    <2>10. QED
      BY <2>2, <2>9, Zenon DEF n
  <1>2. QED
    BY <1>1, LedgersInvariant, PTL

(* The netting position is the sum of the orders' fills through closing,   *)
(* reopening and flipping, and Position::apply never panics, as long as no *)
(* fill was refused by its order.                                          *)
THEOREM EnginePositionIsSumOfFills == Spec => []PositionIsSumOfFills
  <1>1. Ledgers => PositionIsSumOfFills
    BY Zenon DEF Ledgers, PositionInv, PositionIsSumOfFills, NoRefusedFill, FilledQty
  <1>2. QED
    BY <1>1, LedgersInvariant, PTL

-----------------------------------------------------------------------------
(* Catching up.  With events in order and once, the stream of an order is  *)
(* a path from a venue order that the engine's order agrees with to the    *)
(* order as the venue has it now.  It may be lost only by a refused update.*)
Moves(v, e, w) ==
    /\ e.type = "Accepted" => v.state = "received"
    /\ e.type = "Rejected" => v.state = "received" /\ v.filled = 0
    /\ e.type \in {"Canceled", "Filled"} => v.state \in {"received", "working"}
    /\ e.type \in {"Expired", "Updated", "Triggered"} => v.state = "working"
    /\ e.type = "Filled" => e.qty > 0 /\ e.trade = v.filled + e.qty /\ e.trade <= v.qty
    /\ e.type = "Updated" => e.qty > v.filled
    /\ w.qty = IF e.type = "Updated" THEN e.qty ELSE v.qty
    /\ w.filled = IF e.type = "Filled" THEN e.trade ELSE v.filled
    /\ w.state = IF e.type = "Accepted" THEN "working"
                 ELSE IF e.type \in {"Rejected", "Canceled", "Expired"} THEN "done"
                 ELSE IF e.type = "Filled" /\ e.trade >= v.qty THEN "done"
                 ELSE v.state

Stage(order, S) ==
    order.status \in S \/ (order.status \in Pending /\ order.previous_status \in S)

(* Where the order is when the engine has handled what the venue reported  *)
(* of v.                                                                   *)
Placing(order, v) ==
    /\ v.state = "none" => order.status \in {"Initialized", "Denied"} /\ v.filled = 0
    /\ v.state = "received" =>
           Stage(order, {IF v.filled = 0 THEN "Submitted" ELSE "PartiallyFilled"})
    /\ v.state = "working" => Stage(order, {"Accepted", "Triggered", "PartiallyFilled"})
    /\ v.state = "done" => order.status \in Closed

Agrees(order, v) ==
    /\ order.filled_qty = v.filled
    /\ \A f \in order.fills : f.trade <= v.filled
    /\ Placing(order, v)
    /\ v.state # "done" => order.quantity = v.qty /\ v.filled < v.qty

(* The engine takes what moves the venue's order, but for an update.       *)
LEMMA MoveAdmitted ==
    ASSUME NEW order \in Order, NEW v \in VenueOrder, NEW e \in Report, NEW w,
           Agrees(order, v), Moves(v, e, w),
           e.type \in {"Accepted", "Rejected", "Canceled", "Expired", "Filled"}
    PROVE  e.type \in Admits[order.status]
  <1>1. v.state \in {"none", "received", "working", "done"}
    BY Zenon DEF VenueOrder
  <1>2. v.state \in {"received", "working"}
    BY Zenon DEF Moves
  <1>3. CASE v.state = "received"
    <2>1. order.status \in {"Submitted", "PartiallyFilled", "PendingUpdate", "PendingCancel"}
      BY <1>3, Zenon DEF Agrees, Placing, Stage, Pending
    <2>2. order.status = "PartiallyFilled" => v.filled # 0
      BY <1>3, Zenon DEF Agrees, Placing, Stage, Pending
    <2>3. e.type # "Expired" /\ (e.type = "Rejected" => v.filled = 0)
      BY <1>3, Zenon DEF Moves
    <2>4. QED
      BY <2>1, <2>2, <2>3 DEF Admits
  <1>4. CASE v.state = "working"
    <2>1. order.status \in {"Accepted", "Triggered", "PartiallyFilled", "PendingUpdate",
                            "PendingCancel"}
      BY <1>4, Zenon DEF Agrees, Placing, Stage, Pending
    <2>2. e.type \in {"Canceled", "Expired", "Filled"}
      BY <1>4, Zenon DEF Moves
    <2>3. QED
      BY ONLY <2>1, <2>2 DEF Admits
  <1>5. QED
    BY <1>2, <1>3, <1>4, Zenon

(* A fill of the stream is new and within the order's quantity. *)
LEMMA MoveValid ==
    ASSUME NEW order \in Order, NEW v \in VenueOrder, NEW e \in Report, NEW w,
           Agrees(order, v), Moves(v, e, w), e.type = "Filled"
    PROVE  /\ ~is_duplicate_fill(order, e) /\ ~has_trade_id(order, e)
           /\ calculate_overfill(order, e.qty) = 0
  <1>1. /\ v.filled \in Nat /\ v.qty \in Nat /\ e.qty \in Nat /\ e.trade \in Nat
        /\ order.fills \in SUBSET Event
    BY Zenon DEF VenueOrder, Report, Event, Order
  <1>2. e.qty > 0 /\ e.trade = v.filled + e.qty /\ e.trade <= v.qty
    BY Zenon DEF Moves
  <1>3. \A f \in order.fills : f.trade # e.trade
    <2> SUFFICES ASSUME NEW f \in order.fills PROVE f.trade # e.trade
      BY Zenon
    <2>1. f.trade \in Nat /\ f.trade <= v.filled
      BY <1>1, Zenon DEF Agrees, Event
    <2>2. QED
      BY ONLY <1>1, <1>2, <2>1
  <1>4. order.filled_qty = v.filled /\ order.quantity = v.qty
    BY Zenon DEF Agrees, Moves
  <1>5. calculate_overfill(order, e.qty) = 0
    BY ONLY <1>1, <1>2, <1>4 DEF calculate_overfill, saturating_sub
  <1>6. QED
    BY <1>3, <1>5, Zenon DEF is_duplicate_fill, has_trade_id

(* An event that leaves the venue's order as it was leaves the agreement.  *)
LEMMA MoveIdle ==
    ASSUME NEW order \in Order, NEW v \in VenueOrder, NEW w \in VenueOrder, NEW e \in Report,
           Agrees(order, v), Moves(v, e, w),
           e.type \in {"Triggered", "ModifyRejected", "CancelRejected"}
    PROVE  Agrees(order, w)
  <1>1. w.state = v.state /\ w.filled = v.filled /\ w.qty = v.qty
    BY Zenon DEF Moves
  <1>2. QED
    BY <1>1, Zenon DEF Agrees, Placing

(* A refused request returns the order to the stage it was at. *)
LEMMA StageRestored ==
    ASSUME NEW order \in Order, NEW e \in Event, NEW S, S \subseteq Workable,
           Stage(order, S), e.type \in Admits[order.status],
           e.type \in {"Updated", "ModifyRejected", "CancelRejected", "PendingUpdate",
                       "PendingCancel"}
    PROVE  Stage(applied(order, e), S)
  <1>1. order.status \in Status /\ order.previous_status \in Status
    BY Zenon DEF Order
  <1>2. /\ applied(order, e).status = NextStatus(order, e)
        /\ applied(order, e).previous_status = remembered(order, e.type)
    BY AppliedFields, Zenon
  <1>3. S \cap Pending = {}
    BY Zenon DEF Workable, Pending
  <1>4. CASE e.type \in {"ModifyRejected", "CancelRejected"}
    <2>1. order.status \in Pending
      BY <1>1, <1>4, RefusalFrom, Zenon
    <2>2. QED
      BY <1>2, <1>3, <1>4, <2>1, Zenon DEF NextStatus, Stage
  <1>5. CASE e.type = "Updated"
    <2>1. order.status # "PendingCancel"
      BY <1>1, <1>5, UpdateFrom, Zenon
    <2>2. QED
      BY <1>2, <1>3, <1>5, <2>1, Zenon DEF NextStatus, Stage, Pending
  <1>6. CASE e.type \in {"PendingUpdate", "PendingCancel"}
    <2>1. NextStatus(order, e) = e.type
      BY <1>6, Zenon DEF NextStatus
    <2>2. remembered(order, e.type) \in S
      BY <1>3, <1>6, Zenon DEF remembered, Stage
    <2>3. QED
      BY <1>2, <1>6, <2>1, <2>2, Zenon DEF Stage, Pending
  <1>7. QED
    BY <1>4, <1>5, <1>6, Zenon

(* A request marked pending, or refused, and an update keep the placing. *)
LEMMA PlacingKept ==
    ASSUME NEW order \in Order, NEW e \in Event, NEW v \in VenueOrder, Placing(order, v),
           e.type \in Admits[order.status],
           e.type \in {"Updated", "ModifyRejected", "CancelRejected", "PendingUpdate",
                       "PendingCancel"},
           v.state # "none" \/ e.type # "Updated"
    PROVE  Placing(applied(order, e), v)
  <1>1. v.state \in {"none", "received", "working", "done"}
    BY Zenon DEF VenueOrder
  <1>2. CASE v.state = "none"
    BY <1>2 DEF Placing, Admits
  <1>3. CASE v.state = "done"
    BY <1>3, ClosedAdmits, Zenon DEF Placing
  <1>4. CASE v.state = "received"
    <2> DEFINE S == {IF v.filled = 0 THEN "Submitted" ELSE "PartiallyFilled"}
    <2>1. S \subseteq Workable /\ Stage(order, S)
      BY <1>4, Zenon DEF Workable, Placing
    <2> HIDE DEF S
    <2>2. Stage(applied(order, e), S)
      BY <2>1, StageRestored, Zenon
    <2>3. QED
      BY <1>4, <2>2, Zenon DEF Placing, S
  <1>5. CASE v.state = "working"
    <2> DEFINE S == {"Accepted", "Triggered", "PartiallyFilled"}
    <2>1. S \subseteq Workable /\ Stage(order, S)
      BY <1>5, Zenon DEF Workable, Placing
    <2> HIDE DEF S
    <2>2. Stage(applied(order, e), S)
      BY <2>1, StageRestored, Zenon
    <2>3. QED
      BY <1>5, <2>2, Zenon DEF Placing, S
  <1>6. QED
    BY <1>1, <1>2, <1>3, <1>4, <1>5, Zenon

(* An order that takes a report agrees with the order the venue made of it. *)
LEMMA MoveTaken ==
    ASSUME NEW order \in Order, NEW v \in VenueOrder, NEW w \in VenueOrder, NEW e \in Report,
           Agrees(order, v), Moves(v, e, w), e.type \in Admits[order.status]
    PROVE  Agrees(applied(order, e), w)
  <1>1. /\ e \in Event /\ e.type \in ReportType /\ e.qty \in Nat /\ e.trade \in Nat
        /\ v.filled \in Nat /\ v.qty \in Nat /\ order.fills \in SUBSET Event
    BY Zenon DEF Report, Event, VenueOrder, Order
  <1> DEFINE after == applied(order, e)
  <1>2. /\ after.status = NextStatus(order, e)
        /\ after.quantity = IF e.type = "Updated" THEN e.qty ELSE order.quantity
        /\ after.filled_qty =
              IF e.type = "Filled" THEN order.filled_qty + e.qty ELSE order.filled_qty
        /\ after.fills = IF e.type = "Filled" THEN order.fills \cup {e} ELSE order.fills
    BY <1>1, AppliedFields, Zenon
  <1> HIDE DEF after
  <1>3. CASE e.type = "Filled"
    <2>1. /\ e.trade = v.filled + e.qty /\ e.qty > 0 /\ e.trade <= v.qty
          /\ v.state \in {"received", "working"}
          /\ w.filled = e.trade /\ w.qty = v.qty
          /\ w.state = IF e.trade >= v.qty THEN "done" ELSE v.state
      BY <1>3, Zenon DEF Moves
    <2>2. order.filled_qty = v.filled /\ order.quantity = v.qty
      BY <2>1, Zenon DEF Agrees
    <2>3. after.filled_qty = w.filled /\ after.quantity = w.qty
      BY <1>2, <1>3, <2>1, <2>2, Zenon
    <2>4. \A f \in after.fills : f.trade <= w.filled
      <3> SUFFICES ASSUME NEW f \in after.fills PROVE f.trade <= w.filled
        BY Zenon
      <3>1. f = e \/ f \in order.fills
        BY <1>2, <1>3, Zenon
      <3>2. CASE f \in order.fills
        <4>1. f.trade \in Nat /\ f.trade <= v.filled
          BY <1>1, <3>2, Zenon DEF Agrees, Event
        <4>2. QED
          BY ONLY <1>1, <2>1, <4>1
      <3>3. QED
        BY ONLY <1>1, <2>1, <3>1, <3>2
    <2>5. after.status = IF e.trade < v.qty THEN "PartiallyFilled" ELSE "Filled"
      BY <1>2, <1>3, <2>1, <2>2, Zenon DEF NextStatus
    <2>6. CASE e.trade < v.qty
      <3>1. w.state = v.state /\ after.status = "PartiallyFilled" /\ w.filled # 0
            /\ w.filled < w.qty
        BY ONLY <1>1, <2>1, <2>5, <2>6
      <3>2. Placing(after, w)
        BY <2>1, <3>1, Zenon DEF Placing, Stage
      <3>3. QED
        BY <2>3, <2>4, <3>1, <3>2, Zenon DEF Agrees, after
    <2>7. CASE ~(e.trade < v.qty)
      <3>1. w.state = "done" /\ after.status = "Filled"
        BY ONLY <1>1, <2>1, <2>5, <2>7
      <3>2. Placing(after, w)
        BY <3>1, Zenon DEF Placing, Closed
      <3>3. QED
        BY <2>3, <2>4, <3>1, <3>2, Zenon DEF Agrees, after
    <2>8. QED
      BY <2>6, <2>7, Zenon
  <1>4. CASE e.type # "Filled"
    <2>1. /\ after.filled_qty = w.filled /\ w.filled = v.filled /\ after.fills = order.fills
          /\ order.filled_qty = v.filled /\ \A f \in after.fills : f.trade <= w.filled
      BY <1>2, <1>4, Zenon DEF Moves, Agrees
    <2>2. CASE e.type \in {"Rejected", "Canceled", "Expired"}
      <3>1. w.state = "done" /\ after.status = e.type
        BY <1>2, <2>2, Zenon DEF Moves, NextStatus
      <3>2. QED
        BY <2>1, <2>2, <3>1, Zenon DEF Agrees, Placing, Closed, after
    <2>3. CASE e.type = "Accepted"
      <3>1. /\ w.state = "working" /\ after.status = "Accepted" /\ w.qty = v.qty
            /\ v.state = "received" /\ after.quantity = order.quantity
        BY <1>2, <2>3, Zenon DEF Moves, NextStatus
      <3>2. QED
        BY <2>1, <3>1, Zenon DEF Agrees, Placing, Stage, after
    <2>4. CASE e.type = "Triggered"
      <3>1. /\ w.state = "working" /\ after.status = "Triggered" /\ w.qty = v.qty
            /\ v.state = "working" /\ after.quantity = order.quantity
        BY <1>2, <2>4, Zenon DEF Moves, NextStatus
      <3>2. QED
        BY <2>1, <3>1, Zenon DEF Agrees, Placing, Stage, after
    <2>5. CASE e.type \in {"Updated", "ModifyRejected", "CancelRejected"}
      <3>1. Placing(after, v)
        BY <1>1, <2>5, PlacingKept, Zenon DEF Agrees, Moves, after
      <3>2. w.state = v.state
        BY <2>5, Zenon DEF Moves
      <3>3. Placing(after, w)
        BY <2>1, <3>1, <3>2, Zenon DEF Placing
      <3>4. v.state # "done" => after.quantity = w.qty /\ w.filled < w.qty
        BY <1>1, <1>2, <2>1, <2>5, Zenon DEF Moves, Agrees
      <3>5. QED
        BY <2>1, <3>2, <3>3, <3>4, Zenon DEF Agrees, after
    <2>6. QED
      BY <1>1, <1>4, <2>2, <2>3, <2>4, <2>5, Zenon DEF ReportType
  <1>5. QED
    BY <1>3, <1>4, Zenon

Replays(o, g) ==
    /\ g[Len(stream[o])] = venue[o]
    /\ \A i \in 1..Len(stream[o]) : Moves(g[i - 1], stream[o][i], g[i])
    /\ Agrees(orders[o], g[0])

Traceable(o) == \E g \in [0..Len(stream[o]) -> VenueOrder] : Replays(o, g)

CatchingUp(o) ==
    /\ archive[o] = {}
    /\ venue[o].state = "none" <=> orders[o].status \in {"Initialized", "Denied"}
    /\ venue[o].state = "none" => stream[o] = <<>> /\ requests[o] = {}
    /\ ~UpdateRefused(o) => /\ Traceable(o)
                            /\ \A e \in refused[o] : e.type # "Filled"

CatchUpInv == \A o \in ClientOrderId : CatchingUp(o)

OrderKept(o) ==
    /\ orders'[o] = orders[o] /\ refused'[o] = refused[o] /\ venue'[o] = venue[o]
    /\ requests'[o] = requests[o] /\ stream'[o] = stream[o] /\ archive'[o] = archive[o]

(* An order that a step leaves alone goes on catching up, *)
LEMMA CatchUpKept ==
    ASSUME NEW o \in ClientOrderId, CatchingUp(o), OrderKept(o)
    PROVE  CatchingUp(o)'
  BY Zenon DEF CatchingUp, OrderKept, UpdateRefused, Traceable, Replays

(* as the others do when the engine handles an event *)
LEMMA HandledKept ==
    ASSUME TypeOK, NEW o \in ClientOrderId, NEW e, handle_event(o, e),
           NEW p \in ClientOrderId, p # o
    PROVE  orders'[p] = orders[p] /\ refused'[p] = refused[p]
  BY Zenon DEF handle_event, EventSkipped, EventApplied, EventRefused, EventDropped, engineVars,
         update_order, TypeOK

(* and in every action about one order. *)
LEMMA OthersKept ==
    ASSUME TypeOK, NEW o \in ClientOrderId, NEW p \in ClientOrderId, p # o,
           \/ SubmitOrder(o) \/ deny_order(o) \/ modify_order(o) \/ cancel_order(o)
           \/ reject_modify_order(o) \/ VenueReports(o) \/ DeliverNext(o) \/ DeliverAny(o)
    PROVE  OrderKept(p)
  <1>1. CASE SubmitOrder(o)
    BY <1>1, HandledKept, Zenon DEF SubmitOrder, OrderKept, streamVars, TypeOK
  <1>2. CASE deny_order(o)
    BY <1>2, HandledKept, Zenon DEF deny_order, OrderKept, streamVars
  <1>3. CASE modify_order(o)
    BY <1>3, Zenon DEF modify_order, update_order, SendRequest, OrderKept, streamVars, TypeOK
  <1>4. CASE cancel_order(o)
    BY <1>4, Zenon DEF cancel_order, SendRequest, OrderKept, streamVars, TypeOK
  <1>5. CASE reject_modify_order(o)
    <2>1. PICK r \in requests[o] : requests' = [requests EXCEPT ![o] = @ \ {r}]
      BY <1>5, Zenon DEF reject_modify_order
    <2>2. requests'[p] = requests[p]
      BY <2>1, Zenon DEF TypeOK
    <2>3. orders'[p] = orders[p] /\ refused'[p] = refused[p]
      BY <1>5, HandledKept, Zenon DEF reject_modify_order
    <2> QED
      BY <1>5, <2>2, <2>3, Zenon DEF reject_modify_order, OrderKept, streamVars
  <1>6. CASE VenueReports(o)
    <2>1. UNCHANGED <<orders, refused>>
      BY <1>6, VenueLeavesEngine, Zenon DEF engineVars
    <2>2. venue'[p] = venue[p] /\ stream'[p] = stream[p] /\ archive'[p] = archive[p]
      <3>1. PICK e \in Report : VenueStep(o, e)
        BY <1>6, VenueEmits, TypeOKParts, Zenon
      <3>2. QED
        BY <3>1, Zenon DEF VenueStep, Emit, TypeOK
    <2>3. requests'[p] = requests[p]
      BY <1>6, Zenon DEF VenueReports, VenueAccepts, VenueRejects, VenueTriggers, VenueFills,
                  VenueCancels, VenueExpires, VenueUpdates, VenueRefuses, VenueCorrects, TypeOK
    <2>4. QED
      BY <2>1, <2>2, <2>3, Zenon DEF OrderKept
  <1>7. CASE DeliverNext(o)
    BY <1>7, HandledKept, Zenon DEF DeliverNext, OrderKept, TypeOK
  <1>8. CASE DeliverAny(o)
    <2>1. PICK e \in archive[o] : handle_event(o, e)
      BY <1>8, Zenon DEF DeliverAny
    <2>2. QED
      BY <1>8, <2>1, HandledKept, Zenon DEF DeliverAny, OrderKept, streamVars
  <1>9. QED
    BY <1>1, <1>2, <1>3, <1>4, <1>5, <1>6, <1>7, <1>8, Zenon

(* With events in order and once and no overfills, the venue's step is a   *)
(* move that the stream records.                                           *)
LEMMA VenueMoves ==
    ASSUME TypeOK, Reliable, ~Overfills, NEW o \in ClientOrderId, VenueReports(o)
    PROVE  \E e \in Report :
              /\ stream'[o] = Append(stream[o], e) /\ archive' = archive
              /\ Moves(venue[o], e, venue'[o])
              /\ venue'[o].state = "none" <=> venue[o].state = "none"
              /\ requests'[o] \subseteq requests[o]
              /\ venue[o].state = "none" => requests[o] # {}
  <1>1. /\ venue \in [ClientOrderId -> VenueOrder] /\ venue[o] \in VenueOrder
        /\ venue[o].filled \in Nat /\ venue[o].qty \in Nat
        /\ requests \in [ClientOrderId -> SUBSET Request]
        /\ stream \in [ClientOrderId -> Seq(Report)]
    BY Zenon DEF TypeOK, VenueOrder
  <1>2. ASSUME NEW e \in Report, Emit(o, e)
        PROVE  stream'[o] = Append(stream[o], e) /\ archive' = archive
    BY <1>1, <1>2, Zenon DEF Emit
  <1>3. CASE VenueAccepts(o)
    <2> DEFINE e == Plain("Accepted")
    <2>1. e \in Report /\ Emit(o, e)
      BY <1>3, PlainIsReport, Zenon DEF VenueAccepts, ReportType
    <2>2. Moves(venue[o], e, venue'[o])
      BY <1>1, <1>3, Zenon DEF VenueAccepts, Moves, Plain, VenueOrder
    <2>3. QED
      BY <1>1, <1>2, <1>3, <2>1, <2>2, Zenon DEF VenueAccepts, VenueOrder
  <1>4. CASE VenueRejects(o)
    <2> DEFINE e == Plain("Rejected")
    <2>1. e \in Report /\ Emit(o, e)
      BY <1>4, PlainIsReport, Zenon DEF VenueRejects, ReportType
    <2>2. Moves(venue[o], e, venue'[o])
      BY <1>1, <1>4, Zenon DEF VenueRejects, Moves, Plain, VenueOrder
    <2>3. QED
      BY <1>1, <1>2, <1>4, <2>1, <2>2, Zenon DEF VenueRejects, VenueOrder
  <1>5. CASE VenueTriggers(o)
    <2> DEFINE e == Plain("Triggered")
    <2>1. e \in Report /\ Emit(o, e)
      BY <1>5, PlainIsReport, Zenon DEF VenueTriggers, ReportType
    <2>2. Moves(venue[o], e, venue'[o])
      BY <1>1, <1>5, Zenon DEF VenueTriggers, Moves, Plain, VenueOrder
    <2>3. QED
      BY <1>1, <1>2, <1>5, <2>1, <2>2, Zenon DEF VenueTriggers, VenueOrder
  <1>6. CASE VenueFills(o)
    <2>1. PICK q \in 1..(venue[o].qty + 1) :
             /\ Live(o) /\ venue[o].filled + q <= venue[o].qty
             /\ venue' = [venue EXCEPT ![o].filled = @ + q,
                                       ![o].state = IF venue[o].filled + q >= venue[o].qty
                                                    THEN "done" ELSE @]
             /\ Emit(o, Fill(venue[o].filled + q, q))
      BY <1>6, Zenon DEF VenueFills
    <2> DEFINE e == Fill(venue[o].filled + q, q)
    <2>2. q \in Nat /\ q > 0 /\ venue[o].filled + q \in Nat
      BY ONLY <1>1, <2>1
    <2>3. e \in Report
      BY <2>2, FillIsReport, Zenon
    <2>4. /\ venue'[o].filled = venue[o].filled + q /\ venue'[o].qty = venue[o].qty
          /\ venue'[o].state = IF venue[o].filled + q >= venue[o].qty
                               THEN "done" ELSE venue[o].state
      BY <1>1, <2>1, Zenon DEF VenueOrder
    <2>5. e.type = "Filled" /\ e.qty = q /\ e.trade = venue[o].filled + q
      BY Zenon DEF Fill
    <2>6. venue[o].state \in {"received", "working"}
      BY <2>1, Zenon DEF Live
    <2>7. Emit(o, e)
      BY <2>1, Zenon
    <2> HIDE DEF e
    <2>8. Moves(venue[o], e, venue'[o])
      BY <2>1, <2>2, <2>4, <2>5, <2>6, Zenon DEF Moves
    <2>9. requests' = requests
      BY <1>6, Zenon DEF VenueFills
    <2>10. QED
      BY <1>2, <2>3, <2>4, <2>6, <2>7, <2>8, <2>9, Zenon
  <1>7. CASE VenueCancels(o)
    <2> DEFINE e == Plain("Canceled")
    <2>1. e \in Report /\ Emit(o, e)
      BY <1>7, PlainIsReport, Zenon DEF VenueCancels, ReportType
    <2>2. Moves(venue[o], e, venue'[o])
      BY <1>1, <1>7, Zenon DEF VenueCancels, Live, Moves, Plain, VenueOrder
    <2>3. QED
      BY <1>1, <1>2, <1>7, <2>1, <2>2, Zenon DEF VenueCancels, Live, VenueOrder
  <1>8. CASE VenueExpires(o)
    <2> DEFINE e == Plain("Expired")
    <2>1. e \in Report /\ Emit(o, e)
      BY <1>8, PlainIsReport, Zenon DEF VenueExpires, ReportType
    <2>2. Moves(venue[o], e, venue'[o])
      BY <1>1, <1>8, Zenon DEF VenueExpires, Moves, Plain, VenueOrder
    <2>3. QED
      BY <1>1, <1>2, <1>8, <2>1, <2>2, Zenon DEF VenueExpires, VenueOrder
  <1>9. CASE VenueUpdates(o)
    <2>1. PICK r \in requests[o] :
             /\ r.qty > venue[o].filled /\ requests' = [requests EXCEPT ![o] = @ \ {r}]
             /\ venue' = [venue EXCEPT ![o].qty = r.qty] /\ Emit(o, Update(r.qty))
      BY <1>9, Zenon DEF VenueUpdates
    <2> DEFINE e == Update(r.qty)
    <2>2. r.qty \in Nat
      BY ONLY <1>1, <2>1 DEF Request
    <2>3. e \in Report
      BY <2>2, FillIsReport, Zenon
    <2>4. Moves(venue[o], e, venue'[o])
      BY <1>1, <1>9, <2>1, <2>2, Zenon DEF VenueUpdates, Moves, Update, VenueOrder
    <2>5. QED
      BY <1>1, <1>2, <1>9, <2>1, <2>3, <2>4, Zenon DEF VenueUpdates, VenueOrder
  <1>10. CASE VenueRefuses(o)
    <2>1. PICK r \in requests[o] :
             /\ requests' = [requests EXCEPT ![o] = @ \ {r}]
             /\ Emit(o, Plain(IF r.kind = "modify" THEN "ModifyRejected"
                                                   ELSE "CancelRejected"))
      BY <1>10, Zenon DEF VenueRefuses
    <2> DEFINE e == Plain(IF r.kind = "modify" THEN "ModifyRejected" ELSE "CancelRejected")
    <2>2. e \in Report /\ e.type \in {"ModifyRejected", "CancelRejected"} /\ Emit(o, e)
      BY <2>1, PlainIsReport, Zenon DEF ReportType, Plain
    <2>3. venue' = venue
      BY <1>10, Zenon DEF VenueRefuses
    <2> HIDE DEF e
    <2>4. Moves(venue[o], e, venue'[o])
      BY <2>2, <2>3, Zenon DEF Moves
    <2>5. QED
      BY <1>1, <1>2, <2>1, <2>2, <2>3, <2>4, Zenon
  <1>11. CASE VenueCorrects(o)
    BY <1>11, Zenon DEF VenueCorrects
  <1>12. QED
    BY <1>3, <1>4, <1>5, <1>6, <1>7, <1>8, <1>9, <1>10, <1>11, Zenon DEF VenueReports

(* What makes an order traceable after a step: a history for what follows. *)
LEMMA TraceableNext ==
    ASSUME NEW o \in ClientOrderId, NEW n \in Nat, n = Len(stream'[o]),
           NEW h \in [0..n -> VenueOrder], h[n] = venue'[o],
           \A i \in 1..n : Moves(h[i - 1], stream'[o][i], h[i]), Agrees(orders'[o], h[0])
    PROVE  Traceable(o)'
  <1>1. Replays(o, h)'
    BY Zenon DEF Replays
  <1>2. QED
    BY <1>1, Zenon DEF Traceable

(* The venue's report extends the path. *)
LEMMA CatchUpVenue ==
    ASSUME TypeOK, TypeOK', Reliable, ~Overfills, NEW o \in ClientOrderId, CatchingUp(o),
           VenueReports(o)
    PROVE  CatchingUp(o)'
  <1>1. PICK e \in Report :
           /\ stream'[o] = Append(stream[o], e) /\ archive' = archive
           /\ Moves(venue[o], e, venue'[o])
           /\ venue'[o].state = "none" <=> venue[o].state = "none"
           /\ requests'[o] \subseteq requests[o]
           /\ venue[o].state = "none" => requests[o] # {}
    BY VenueMoves, Zenon
  <1>2. UNCHANGED <<orders, refused>>
    BY VenueLeavesEngine, Zenon DEF engineVars
  <1>3. venue[o].state # "none" /\ venue'[o].state # "none"
    BY <1>1, Zenon DEF CatchingUp
  <1>4. stream[o] \in Seq(Report) /\ venue'[o] \in VenueOrder
    BY Zenon DEF TypeOK, VenueOrder
  <1>5. ASSUME Traceable(o) PROVE Traceable(o)'
    <2> DEFINE n == Len(stream[o])
    <2>1. PICK g \in [0..n -> VenueOrder] : Replays(o, g)
      BY <1>5, Zenon DEF Traceable
    <2>2. /\ n \in Nat /\ Len(stream'[o]) = n + 1 /\ stream'[o][n + 1] = e
          /\ \A i \in 1..n : stream'[o][i] = stream[o][i]
      BY ONLY <1>1, <1>4
    <2>3. /\ g[n] = venue[o]
          /\ \A i \in 1..n : Moves(g[i - 1], stream[o][i], g[i])
          /\ Agrees(orders[o], g[0])
      BY <2>1, Zenon DEF Replays
    <2> HIDE DEF n
    <2> DEFINE h == [i \in 0..(n + 1) |-> IF i = n + 1 THEN venue'[o] ELSE g[i]]
    <2>4. h \in [0..(n + 1) -> VenueOrder]
      <3>1. \A i \in 0..(n + 1) : i # n + 1 => i \in 0..n
        BY ONLY <2>2
      <3>2. QED
        BY <1>4, <3>1, Zenon
    <2>5. h[n + 1] = venue'[o] /\ h[0] = g[0]
      BY ONLY <2>2
    <2>6. ASSUME NEW i \in 1..(n + 1) PROVE Moves(h[i - 1], stream'[o][i], h[i])
      <3>1. CASE i = n + 1
        <4>1. h[i - 1] = g[n] /\ h[i] = venue'[o]
          BY ONLY <2>2, <3>1, SMTT(60)
        <4>2. QED
          BY <1>1, <2>2, <2>3, <3>1, <4>1, Zenon
      <3>2. CASE i # n + 1
        <4>1. i \in 1..n /\ h[i - 1] = g[i - 1] /\ h[i] = g[i]
          BY ONLY <2>2, <3>2
        <4>2. QED
          BY <2>2, <2>3, <4>1, Zenon
      <3>3. QED
        BY <3>1, <3>2, Zenon
    <2> HIDE DEF h
    <2>7. Agrees(orders'[o], h[0]) /\ n + 1 \in Nat
      BY ONLY <1>2, <2>2, <2>3, <2>5
    <2>8. QED
      BY <2>2, <2>4, <2>5, <2>6, <2>7, TraceableNext, Zenon
  <1>6. QED
    BY <1>1, <1>2, <1>3, <1>5, Zenon DEF CatchingUp, UpdateRefused

(* What handle_event makes of the order and of what it refused. *)
LEMMA HandledOutcome ==
    ASSUME TypeOK, NEW o \in ClientOrderId, NEW e \in Event, handle_event(o, e)
    PROVE  \/ /\ error(o, e) = "none" /\ orders'[o] = applied(orders[o], e)
              /\ refused'[o] = refused[o]
           \/ /\ error(o, e) # "none" \/ (e.type = "Filled" /\ ~validate_fill_for_order(o, e))
              /\ orders'[o] = orders[o] /\ refused'[o] = refused[o]
           \/ /\ error(o, e) = "InvalidStateTransition"
              /\ orders'[o] = orders[o] /\ refused'[o] = refused[o] \cup {e}
  <1>1. CASE EventSkipped(o, e)
    BY <1>1, Zenon DEF EventSkipped, engineVars
  <1>2. CASE EventApplied(o, e)
    BY <1>2, Zenon DEF EventApplied, update_order, TypeOK
  <1>3. CASE EventRefused(o, e)
    BY <1>3, Zenon DEF EventRefused, TypeOK
  <1>4. CASE EventDropped(o, e)
    BY <1>4, Zenon DEF EventDropped, engineVars
  <1>5. QED
    BY <1>1, <1>2, <1>3, <1>4, Zenon DEF handle_event

(* A handled event never makes an order local or denied, unless it is one  *)
(* of the node's own.                                                      *)
LEMMA StaysSent ==
    ASSUME NEW order \in Order, NEW e \in Event, OrderSound(order),
           e.type \in Admits[order.status],
           e.type \in ReportType \cup {"PendingUpdate", "PendingCancel"},
           order.status \notin {"Initialized", "Denied"}
    PROVE  applied(order, e).status \notin {"Initialized", "Denied"}
  <1>1. applied(order, e).status = NextStatus(order, e)
    BY AppliedFields, Zenon
  <1>2. order.status \in Status
    BY Zenon DEF Order
  <1>3. CASE e.type \in {"ModifyRejected", "CancelRejected"}
    <2>1. order.status \in Pending
      BY <1>2, <1>3, RefusalFrom, Zenon
    <2>2. QED
      BY <1>1, <1>3, <2>1, Zenon DEF NextStatus, OrderSound, PendingSound, Workable
  <1>4. CASE e.type = "Updated"
    BY <1>1, <1>4, Zenon DEF NextStatus, OrderSound, PendingSound, Workable, Pending
  <1>5. CASE e.type \notin {"ModifyRejected", "CancelRejected", "Updated"}
    BY <1>1, <1>5, Zenon DEF NextStatus, ReportType
  <1>6. QED
    BY <1>3, <1>4, <1>5, Zenon

(* A delivery shortens the path by the move that it reports. *)
LEMMA CatchUpDeliver ==
    ASSUME TypeOK, TypeOK', OrdersSound, NEW o \in ClientOrderId, CatchingUp(o), DeliverNext(o)
    PROVE  CatchingUp(o)'
  <1> DEFINE e == Head(stream[o])
             n == Len(stream[o])
  <1>1. /\ stream[o] \in Seq(Report) /\ stream[o] # <<>>
        /\ stream'[o] = Tail(stream[o]) /\ handle_event(o, e)
        /\ UNCHANGED <<venue, requests, archive>>
    BY Zenon DEF DeliverNext, TypeOK
  <1>2. /\ n \in Nat /\ n >= 1 /\ Len(stream'[o]) = n - 1 /\ e = stream[o][1]
        /\ e \in Report /\ \A i \in 1..(n - 1) : stream'[o][i] = stream[o][i + 1]
    BY ONLY <1>1
  <1>3. e \in Event /\ e.type \in ReportType
    BY <1>2, Zenon DEF Report
  <1>4. orders[o] \in Order /\ OrderSound(orders[o]) /\ refused[o] \in SUBSET Event
    BY Zenon DEF TypeOK, OrdersSound
  <1>5. \/ /\ error(o, e) = "none" /\ orders'[o] = applied(orders[o], e)
           /\ refused'[o] = refused[o]
        \/ /\ error(o, e) # "none" \/ (e.type = "Filled" /\ ~validate_fill_for_order(o, e))
           /\ orders'[o] = orders[o] /\ refused'[o] = refused[o]
        \/ /\ error(o, e) = "InvalidStateTransition"
           /\ orders'[o] = orders[o] /\ refused'[o] = refused[o] \cup {e}
    BY <1>1, <1>3, HandledOutcome, Zenon
  <1>6. venue[o].state # "none" /\ orders[o].status \notin {"Initialized", "Denied"}
    BY <1>1, Zenon DEF CatchingUp
  <1> HIDE DEF e, n
  <1>7. orders'[o].status \notin {"Initialized", "Denied"}
    <2>1. error(o, e) = "none" => e.type \in Admits[orders[o].status]
      BY Zenon DEF error, apply_error
    <2>2. QED
      BY <1>3, <1>4, <1>5, <1>6, <2>1, StaysSent, Zenon
  <1>8. ASSUME ~UpdateRefused(o)'
        PROVE  Traceable(o)' /\ \A f \in refused'[o] : f.type # "Filled"
    <2>1. refused[o] \subseteq refused'[o]
      BY <1>5, Zenon
    <2>2. Traceable(o) /\ \A f \in refused[o] : f.type # "Filled"
      BY <1>8, <2>1, Zenon DEF CatchingUp, UpdateRefused
    <2>3. PICK g \in [0..n -> VenueOrder] : Replays(o, g)
      BY <2>2, Zenon DEF Traceable, n
    <2>4. /\ g[n] = venue[o]
          /\ \A i \in 1..n : Moves(g[i - 1], stream[o][i], g[i])
          /\ Agrees(orders[o], g[0])
      BY <2>3, Zenon DEF Replays, n
    <2>5. /\ g[0] \in VenueOrder /\ g[1] \in VenueOrder /\ Moves(g[0], e, g[1])
      <3>1. 0 \in 0..n /\ 1 \in 0..n /\ 1 \in 1..n /\ 1 - 1 = 0
        BY ONLY <1>2
      <3>2. QED
        BY <1>2, <2>4, <3>1, Zenon
    <2>6. /\ Agrees(orders'[o], g[1])
          /\ refused'[o] # refused[o] => e.type # "Filled"
      <3>1. CASE error(o, e) = "none" /\ orders'[o] = applied(orders[o], e)
                 /\ refused'[o] = refused[o]
        <4>1. e.type \in Admits[orders[o].status]
          BY <3>1, Zenon DEF error, apply_error
        <4>2. QED
          BY ONLY <1>2, <1>4, <2>4, <2>5, <3>1, <4>1, MoveTaken
      <3>2. CASE e.type \in {"Accepted", "Rejected", "Canceled", "Expired", "Filled"}
        <4>1. e.type \in Admits[orders[o].status]
          BY <1>2, <1>4, <2>4, <2>5, <3>2, MoveAdmitted, Zenon
        <4>2. e.type = "Filled" => /\ ~is_duplicate_fill(orders[o], e)
                                   /\ ~has_trade_id(orders[o], e)
                                   /\ calculate_overfill(orders[o], e.qty) = 0
          BY <1>2, <1>4, <2>4, <2>5, MoveValid, Zenon
        <4>3. error(o, e) = "none"
          BY <3>2, <4>1, <4>2, Zenon DEF error, apply_error
        <4>4. e.type = "Filled" => validate_fill_for_order(o, e)
          BY <4>2, Zenon DEF validate_fill_for_order
        <4>5. QED
          BY <1>5, <3>1, <4>3, <4>4, Zenon
      <3>3. CASE e.type \in {"Triggered", "ModifyRejected", "CancelRejected"}
        <4>1. Agrees(orders[o], g[1])
          BY <1>2, <1>4, <2>4, <2>5, <3>3, MoveIdle, Zenon
        <4>2. QED
          BY <1>5, <3>1, <3>3, <4>1, Zenon
      <3>4. CASE e.type = "Updated"
        <4>1. e.type \in Admits[orders[o].status] => error(o, e) = "none"
          BY <3>4, Zenon DEF error, apply_error
        <4>2. e.type \notin Admits[orders[o].status] => error(o, e) = "InvalidStateTransition"
          BY <3>4, Zenon DEF error, apply_error
        <4>3. e \notin refused'[o]
          BY <1>8, <3>4, Zenon DEF UpdateRefused
        <4>4. handle_event(o, e) => (error(o, e) = "InvalidStateTransition" => e \in refused'[o])
          BY <3>4 DEF handle_event, EventSkipped, EventApplied, EventRefused, EventDropped,
                      TypeOK
        <4>5. error(o, e) = "none"
          BY <1>1, <4>1, <4>2, <4>3, <4>4, Zenon DEF e
        <4>6. QED
          BY <1>5, <3>1, <3>4, <4>5, Zenon
      <3>5. QED
        BY <1>3, <3>2, <3>3, <3>4, Zenon DEF ReportType
    <2>7. \A f \in refused'[o] : f.type # "Filled"
      BY <1>5, <2>2, <2>6, Zenon
    <2> DEFINE h == [i \in 0..(n - 1) |-> g[i + 1]]
    <2>8. h \in [0..(n - 1) -> VenueOrder]
      <3>1. \A i \in 0..(n - 1) : i + 1 \in 0..n
        BY ONLY <1>2
      <3>2. QED
        BY <3>1, Zenon
    <2>9. h[n - 1] = venue[o] /\ h[0] = g[1]
      <3>1. n - 1 \in 0..(n - 1) /\ 0 \in 0..(n - 1) /\ (n - 1) + 1 = n /\ 0 + 1 = 1
        BY ONLY <1>2
      <3>2. QED
        BY <2>4, <3>1, Zenon
    <2>10. ASSUME NEW i \in 1..(n - 1) PROVE Moves(h[i - 1], stream'[o][i], h[i])
      <3>1. /\ i - 1 \in 0..(n - 1) /\ i \in 0..(n - 1) /\ (i - 1) + 1 = i
            /\ i + 1 \in 1..n /\ (i + 1) - 1 = i
        BY ONLY <1>2
      <3>2. h[i - 1] = g[i] /\ h[i] = g[i + 1]
        BY <3>1, Zenon
      <3>3. Moves(g[(i + 1) - 1], stream[o][i + 1], g[i + 1])
        BY <2>4, <3>1, Zenon
      <3>4. QED
        BY <1>2, <3>1, <3>2, <3>3, Zenon
    <2> HIDE DEF h
    <2>11. h[n - 1] = venue'[o] /\ Agrees(orders'[o], h[0]) /\ n - 1 \in Nat
      BY ONLY <1>1, <1>2, <2>6, <2>9
    <2>12. QED
      BY <1>2, <2>7, <2>8, <2>10, <2>11, TraceableNext, Zenon
  <1>9. QED
    BY <1>1, <1>6, <1>7, <1>8, Zenon DEF CatchingUp

(* A step of the engine that leaves the venue's order and the stream, and  *)
(* after which the order agrees with whatever it agreed with, keeps the    *)
(* path.                                                                   *)
LEMMA TraceableKept ==
    ASSUME TypeOK, NEW o \in ClientOrderId, Traceable(o),
           stream'[o] = stream[o], venue'[o] = venue[o],
           \A v \in VenueOrder : Agrees(orders[o], v) => Agrees(orders'[o], v)
    PROVE  Traceable(o)'
  <1> DEFINE n == Len(stream[o])
  <1>1. n \in Nat
    BY DEF TypeOK
  <1>2. PICK g \in [0..n -> VenueOrder] : Replays(o, g)
    BY Zenon DEF Traceable
  <1>3. g[0] \in VenueOrder
    BY ONLY <1>1
  <1>4. /\ g[n] = venue'[o] /\ Agrees(orders'[o], g[0]) /\ n = Len(stream'[o])
        /\ \A i \in 1..n : Moves(g[i - 1], stream'[o][i], g[i])
    BY <1>2, <1>3, Zenon DEF Replays
  <1> HIDE DEF n
  <1>5. QED
    BY <1>1, <1>4, TraceableNext, Zenon

(* Marking a request pending, and refusing it, keep the agreement. *)
LEMMA AgreesMarked ==
    ASSUME NEW order \in Order, NEW e \in Event, NEW v \in VenueOrder, Agrees(order, v),
           e.type \in Admits[order.status],
           e.type \in {"PendingUpdate", "PendingCancel", "ModifyRejected"}
    PROVE  Agrees(applied(order, e), v)
  <1>1. /\ applied(order, e).filled_qty = order.filled_qty
        /\ applied(order, e).quantity = order.quantity
        /\ applied(order, e).fills = order.fills
    BY AppliedFields, Zenon
  <1>2. Placing(applied(order, e), v)
    BY PlacingKept, Zenon DEF Agrees
  <1>3. QED
    BY <1>1, <1>2, Zenon DEF Agrees

(* An order that is marked pending is with the venue, and stays so. *)
LEMMA CatchUpMarked ==
    ASSUME TypeOK, OrdersSound, NEW o \in ClientOrderId, CatchingUp(o),
           NEW e \in Event, e.type \in {"PendingUpdate", "PendingCancel"},
           ~is_closed(orders[o]), ~is_active_local(orders[o]), error(o, e) = "none",
           orders'[o] = applied(orders[o], e),
           UNCHANGED <<refused, venue, stream, archive>>
    PROVE  CatchingUp(o)'
  <1>1. orders[o] \in Order /\ OrderSound(orders[o])
    BY Zenon DEF TypeOK, OrdersSound
  <1>2. e.type \in Admits[orders[o].status]
    BY Zenon DEF error, apply_error
  <1>3. orders[o].status \notin {"Initialized", "Denied"}
    BY Zenon DEF is_closed, is_active_local, Closed, ActiveLocal
  <1>4. orders'[o].status \notin {"Initialized", "Denied"}
    BY <1>1, <1>2, <1>3, StaysSent, Zenon
  <1>5. Traceable(o) => Traceable(o)'
    BY <1>1, <1>2, AgreesMarked, TraceableKept, Zenon
  <1>6. QED
    BY <1>3, <1>4, <1>5, Zenon DEF CatchingUp, UpdateRefused

(* A modification denied by the risk engine. *)
LEMMA CatchUpRejectModify ==
    ASSUME TypeOK, OrdersSound, NEW o \in ClientOrderId, CatchingUp(o), reject_modify_order(o)
    PROVE  CatchingUp(o)'
  <1> DEFINE e == Plain("ModifyRejected")
  <1>1. e \in Event /\ e.type = "ModifyRejected"
    BY PlainIsEvent, Zenon DEF EventType
  <1>2. /\ handle_event(o, e) /\ requests[o] # {}
        /\ UNCHANGED <<venue, stream, archive>>
    BY Zenon DEF reject_modify_order, streamVars
  <1> HIDE DEF e
  <1>3. orders[o] \in Order /\ OrderSound(orders[o])
    BY Zenon DEF TypeOK, OrdersSound
  <1>4. venue[o].state # "none" /\ orders[o].status \notin {"Initialized", "Denied"}
    BY <1>2, Zenon DEF CatchingUp
  <1>5. /\ \/ error(o, e) = "none" /\ orders'[o] = applied(orders[o], e)
           \/ orders'[o] = orders[o]
        /\ refused'[o] = refused[o] \/ refused'[o] = refused[o] \cup {e}
    BY <1>1, <1>2, HandledOutcome, Zenon
  <1>6. error(o, e) = "none" => e.type \in Admits[orders[o].status]
    BY Zenon DEF error, apply_error
  <1>7. \A v \in VenueOrder : Agrees(orders[o], v) => Agrees(orders'[o], v)
    BY <1>1, <1>3, <1>5, <1>6, AgreesMarked, Zenon
  <1>8. orders'[o].status \notin {"Initialized", "Denied"}
    BY <1>1, <1>3, <1>4, <1>5, <1>6, StaysSent, Zenon DEF ReportType
  <1>9. Traceable(o) => Traceable(o)'
    BY <1>2, <1>7, TraceableKept, Zenon
  <1>10. UpdateRefused(o)' <=> UpdateRefused(o)
    BY <1>1, <1>5, Zenon DEF UpdateRefused
  <1>11. QED
    BY <1>1, <1>2, <1>4, <1>5, <1>8, <1>9, <1>10, Zenon DEF CatchingUp

(* A local order is submitted or denied; its stream is empty. *)
LEMMA CatchUpLocal ==
    ASSUME TypeOK, TypeOK', NEW o \in ClientOrderId, CatchingUp(o),
           SubmitOrder(o) \/ deny_order(o)
    PROVE  CatchingUp(o)'
  <1> DEFINE s == IF SubmitOrder(o) THEN "Submitted" ELSE "Denied"
             e == Plain(s)
  <1>1. s \in {"Submitted", "Denied"} /\ s \in EventType
    BY Zenon DEF EventType, Status, Closed
  <1>2. e \in Event /\ e.type = s
    BY <1>1, PlainIsEvent, Zenon
  <1>3. /\ orders[o].status = "Initialized" /\ handle_event(o, e)
        /\ UNCHANGED <<requests, stream, archive>>
    BY Zenon DEF SubmitOrder, deny_order, streamVars
  <1>4. orders[o] \in Order /\ venue[o] \in VenueOrder /\ venue'[o] \in VenueOrder
    BY Zenon DEF TypeOK, VenueOrder
  <1>5. /\ venue'[o].filled = venue[o].filled /\ venue'[o].qty = venue[o].qty
        /\ venue'[o].state = IF s = "Submitted" THEN "received" ELSE venue[o].state
    BY <1>4, SMTT(60) DEF SubmitOrder, deny_order, TypeOK, VenueOrder
  <1> HIDE DEF s, e
  <1>6. venue[o].state = "none" /\ stream[o] = <<>> /\ requests[o] = {}
    BY <1>3, Zenon DEF CatchingUp
  <1>7. e.type \in Admits[orders[o].status] /\ error(o, e) = "none"
    BY ONLY <1>1, <1>2, <1>3 DEF Admits, error, apply_error
  <1>8. orders'[o] = applied(orders[o], e) /\ refused'[o] = refused[o]
    BY <1>2, <1>3, <1>7, HandledOutcome, <1>1, Zenon
  <1>9. /\ orders'[o].status = s /\ orders'[o].quantity = orders[o].quantity
        /\ orders'[o].filled_qty = orders[o].filled_qty /\ orders'[o].fills = orders[o].fills
    <2>1. e.type \notin {"Filled", "Updated", "ModifyRejected", "CancelRejected"}
      BY <1>1, <1>2, Zenon
    <2>2. NextStatus(orders[o], e) = s
      BY <1>2, <2>1, Zenon DEF NextStatus
    <2>3. /\ applied(orders[o], e).status = s
          /\ applied(orders[o], e).quantity = orders[o].quantity
          /\ applied(orders[o], e).filled_qty = orders[o].filled_qty
          /\ applied(orders[o], e).fills = orders[o].fills
      BY <1>2, <1>4, <1>7, <2>1, <2>2, AppliedFields, Zenon
    <2>4. QED
      BY <1>8, <2>3, Zenon
  <1>10. ASSUME Traceable(o) PROVE Traceable(o)'
    <2>1. Agrees(orders[o], venue[o])
      <3>1. Len(stream[o]) = 0
        BY ONLY <1>6
      <3>2. QED
        BY <1>10, <3>1, Zenon DEF Traceable, Replays
    <2>2. /\ orders[o].filled_qty = venue[o].filled /\ venue[o].filled = 0
          /\ \A f \in orders[o].fills : f.trade <= venue[o].filled
          /\ orders[o].quantity = venue[o].qty /\ venue[o].filled < venue[o].qty
      BY <1>6, <2>1, Zenon DEF Agrees, Placing
    <2>3. Placing(orders'[o], venue'[o])
      <3>1. CASE s = "Submitted"
        BY <1>5, <1>9, <2>2, <3>1, Zenon DEF Placing, Stage
      <3>2. CASE s = "Denied"
        BY <1>5, <1>6, <1>9, <2>2, <3>2, Zenon DEF Placing
      <3>3. QED
        BY <1>1, <3>1, <3>2, Zenon
    <2>4. Agrees(orders'[o], venue'[o])
      BY <1>5, <1>9, <2>2, <2>3, Zenon DEF Agrees
    <2> DEFINE h == [i \in 0..0 |-> venue'[o]]
    <2>5. h \in [0..0 -> VenueOrder] /\ h[0] = venue'[o]
      BY ONLY <1>4
    <2> HIDE DEF h
    <2>6. 0 \in Nat /\ Len(stream'[o]) = 0 /\ 1..0 = {}
      BY ONLY <1>3, <1>6
    <2>7. QED
      BY <2>4, <2>5, <2>6, TraceableNext, Zenon
  <1>11. venue'[o].state = "none" <=> orders'[o].status \in {"Initialized", "Denied"}
    BY <1>1, <1>5, <1>6, <1>9, Zenon
  <1>12. QED
    BY <1>3, <1>6, <1>8, <1>10, <1>11, Zenon DEF CatchingUp, UpdateRefused

(* Every step keeps the engine catching up. *)
LEMMA CatchUpStep ==
    ASSUME TypeOK, TypeOK', OrdersSound, Reliable, ~Overfills, CatchUpInv, [Next]_vars
    PROVE  CatchUpInv'
  <1> SUFFICES ASSUME NEW p \in ClientOrderId PROVE CatchingUp(p)'
    BY Zenon DEF CatchUpInv
  <1>1. CatchingUp(p)
    BY Zenon DEF CatchUpInv
  <1>2. CASE UNCHANGED vars
    BY <1>1, <1>2, CatchUpKept, Zenon DEF vars, OrderKept
  <1>3. ASSUME NEW o \in ClientOrderId, p # o,
               \/ SubmitOrder(o) \/ deny_order(o) \/ modify_order(o) \/ cancel_order(o)
               \/ reject_modify_order(o) \/ VenueReports(o) \/ DeliverNext(o) \/ DeliverAny(o)
        PROVE  CatchingUp(p)'
    BY <1>1, <1>3, OthersKept, CatchUpKept, Zenon
  <1>4. CASE modify_order(p)
    <2>1. "PendingUpdate" \in EventType
      BY Zenon DEF EventType, Status, Open, Pending
    <2>2. orders'[p] = applied(orders[p], Plain("PendingUpdate"))
      BY <1>4, Zenon DEF modify_order, update_order, TypeOK
    <2>3. QED
      BY <1>1, <1>4, <2>1, <2>2, PlainIsEvent, CatchUpMarked, Zenon DEF modify_order, streamVars
  <1>5. CASE cancel_order(p)
    <2>1. "PendingCancel" \in EventType
      BY Zenon DEF EventType, Status, Open, Pending
    <2>2. orders'[p] = applied(orders[p], Plain("PendingCancel"))
      BY <1>5, Zenon DEF cancel_order, TypeOK
    <2>3. QED
      BY <1>1, <1>5, <2>1, <2>2, PlainIsEvent, CatchUpMarked, Zenon DEF cancel_order, streamVars
  <1>6. CASE DeliverAny(p)
    BY <1>1, <1>6, Zenon DEF DeliverAny, CatchingUp
  <1>7. CASE \/ SubmitOrder(p) \/ deny_order(p) \/ modify_order(p) \/ cancel_order(p)
             \/ reject_modify_order(p) \/ VenueReports(p) \/ DeliverNext(p) \/ DeliverAny(p)
    BY Zenon, <1>1, <1>4, <1>5, <1>6, <1>7, CatchUpLocal, CatchUpRejectModify, CatchUpVenue,
       CatchUpDeliver
  <1>8. QED
    BY <1>2, <1>3, <1>7, Zenon DEF Next

(* At first there is nothing to catch up with. *)
LEMMA CatchUpInit == Init => CatchUpInv
  <1> SUFFICES ASSUME Init, NEW o \in ClientOrderId PROVE CatchingUp(o)
    BY Zenon DEF CatchUpInv
  <1>1. /\ orders[o] = NewOrder(Quantity) /\ refused[o] = {} /\ requests[o] = {}
        /\ stream[o] = <<>> /\ archive[o] = {}
        /\ venue[o] = [state |-> "none", triggered |-> FALSE, qty |-> Quantity, filled |-> 0]
    BY Zenon DEF Init
  <1>2. Quantity \in Nat \ {0}
    BY EngineAssumption, Zenon
  <1>3. Agrees(orders[o], venue[o])
    BY ONLY <1>1, <1>2 DEF NewOrder, Agrees, Placing
  <1>4. venue[o] \in VenueOrder
    BY ONLY <1>1, <1>2 DEF VenueOrder
  <1> DEFINE g == [i \in 0..0 |-> venue[o]]
  <1>5. g \in [0..0 -> VenueOrder] /\ g[0] = venue[o]
    BY ONLY <1>4
  <1>6. Len(stream[o]) = 0
    BY ONLY <1>1
  <1> HIDE DEF g
  <1>7. Replays(o, g)
    BY ONLY <1>3, <1>5, <1>6 DEF Replays
  <1>8. Traceable(o)
    BY <1>5, <1>6, <1>7, Zenon DEF Traceable
  <1>9. venue[o].state = "none" /\ orders[o].status = "Initialized"
    BY ONLY <1>1 DEF NewOrder
  <1>10. QED
    BY <1>1, <1>8, <1>9, Zenon DEF CatchingUp

(* With events in order and once from a venue that fills no more than was  *)
(* ordered, an engine that has handled all of them agrees with the venue   *)
(* on fills, on which orders are closed, on the quantity of the others and *)
(* on the position; unless an update was refused.                          *)
THEOREM EngineCaughtUpAgrees ==
    ASSUME Reliable, ~Overfills
    PROVE  Spec => []CaughtUpAgrees
  <1>1. Init => CatchUpInv
    BY CatchUpInit, Zenon
  <1>2. Ledgers /\ Ledgers' /\ CatchUpInv /\ [Next]_vars => CatchUpInv'
    BY CatchUpStep, Zenon DEF Ledgers, EngineInv
  <1>3. Ledgers /\ CatchUpInv => CaughtUpAgrees
    <2> SUFFICES ASSUME Ledgers, CatchUpInv,
                        \A o \in ClientOrderId : stream[o] = <<>> /\ ~UpdateRefused(o)
                 PROVE  /\ \A o \in ClientOrderId :
                              /\ orders[o].filled_qty = venue[o].filled
                              /\ venue[o].state = "done" => is_closed(orders[o])
                              /\ Live(o) => /\ ~is_closed(orders[o])
                                            /\ orders[o].quantity = venue[o].qty
                        /\ position.signed_qty = Net([o \in ClientOrderId |-> venue[o].filled])
      BY Zenon DEF CaughtUpAgrees
    <2>1. ASSUME NEW o \in ClientOrderId PROVE Agrees(orders[o], venue[o])
      <3>1. Traceable(o) /\ Len(stream[o]) = 0
        BY DEF CatchUpInv, CatchingUp
      <3>2. QED
        BY <3>1, Zenon DEF Traceable, Replays
    <2>2. NoRefusedFill
      BY Zenon DEF CatchUpInv, CatchingUp, NoRefusedFill
    <2>3. FilledQty = [o \in ClientOrderId |-> venue[o].filled]
      BY <2>1, Zenon DEF FilledQty, Agrees
    <2>4. position.signed_qty = Net([o \in ClientOrderId |-> venue[o].filled])
      BY <2>2, <2>3, Zenon DEF Ledgers, PositionInv
    <2>5. ASSUME NEW o \in ClientOrderId
          PROVE  /\ orders[o].filled_qty = venue[o].filled
                 /\ venue[o].state = "done" => is_closed(orders[o])
                 /\ Live(o) => ~is_closed(orders[o]) /\ orders[o].quantity = venue[o].qty
      BY <2>1, Zenon DEF Agrees, Placing, Stage, Live, is_closed, Closed, Pending
    <2>6. QED
      BY <2>4, <2>5, Zenon
  <1>4. QED
    BY <1>1, <1>2, <1>3, LedgersInvariant, PTL DEF Spec
=============================================================================
