------------------------------ MODULE OrderCore ------------------------------
(***************************************************************************)
(* The order state machine of crates/model/src/orders: OrderStatus and its *)
(* transition table, and OrderCore::apply followed by the order type's own *)
(* update.  An order is one without an emulation trigger.  Its identifiers,*)
(* prices, timestamps, commissions and average price are left out: nothing *)
(* below decides on them.  Quantities are raw units.                       *)
(***************************************************************************)
EXTENDS Integers

ActiveLocal == {"Initialized", "Emulated", "Released"}
Pending     == {"PendingUpdate", "PendingCancel"}
Open        == {"Accepted", "Triggered", "PartiallyFilled"} \cup Pending
Closed      == {"Denied", "Rejected", "Canceled", "Expired", "Filled"}
Status      == ActiveLocal \cup {"Submitted"} \cup Open \cup Closed

(* Statuses a pending request can be made from, and so be refused back to. *)
Workable == {"Submitted", "Accepted", "Triggered", "PartiallyFilled"}

EventType == (Status \ {"Initialized", "PartiallyFilled"})
                 \cup {"Updated", "ModifyRejected", "CancelRejected"}

(* A fill carries its trade id, quantity and price, an update its quantity. *)
Event == [type : EventType, trade : Nat, qty : Nat, px : {1, 2}]

(* Events a venue reports; the others are made by the node itself. *)
ReportType == {"Rejected", "Accepted", "Triggered", "Canceled", "Expired", "Filled",
               "Updated", "ModifyRejected", "CancelRejected"}
Report == {e \in Event : e.type \in ReportType}

Plain(type)      == [type |-> type, trade |-> 0, qty |-> 0, px |-> 1]
Update(q)        == [type |-> "Updated", trade |-> 0, qty |-> q, px |-> 1]
Fill(trade, q)   == [type |-> "Filled", trade |-> trade, qty |-> q, px |-> 1]

Order == [status : Status, previous_status : Status, quantity : Nat, filled_qty : Nat,
          leaves_qty : Nat, overfill_qty : Nat, fills : SUBSET Event]

(* previous_status is None until the first event, which never reads it. *)
NewOrder(q) ==
    [status |-> "Initialized", previous_status |-> "Initialized", quantity |-> q,
     filled_qty |-> 0, leaves_qty |-> q, overfill_qty |-> 0, fills |-> {}]

is_active_local(order) == order.status \in ActiveLocal
is_open(order)         == order.status \in Open
is_closed(order)       == order.status \in Closed
is_inflight(order)     == order.status \in Pending \cup {"Submitted"}

saturating_sub(a, b) == IF a > b THEN a - b ELSE 0

calculate_overfill(order, q) == saturating_sub(order.filled_qty + q, order.quantity)

is_duplicate_fill(order, e) ==
    \E f \in order.fills : f.trade = e.trade /\ f.qty = e.qty /\ f.px = e.px

has_trade_id(order, e) == \E f \in order.fills : f.trade = e.trade

-----------------------------------------------------------------------------
(* The events each status admits; the match of OrderStatus::transition. *)
Admits ==
    [Initialized     |-> {"Denied", "Emulated", "Released", "Submitted", "Rejected",
                          "Accepted", "Canceled", "Expired", "Triggered", "Updated"},
     Emulated        |-> {"Canceled", "Expired", "Released"},
     Released        |-> {"Submitted", "Denied", "Canceled", "Updated"},
     Submitted       |-> {"PendingUpdate", "PendingCancel", "Rejected", "Canceled",
                          "Accepted", "Updated", "Filled"},
     Accepted        |-> {"Rejected", "PendingUpdate", "PendingCancel", "Canceled",
                          "Triggered", "Updated", "Expired", "Filled"},
     Canceled        |-> {"Filled"},
     PendingUpdate   |-> {"Rejected", "Accepted", "Canceled", "Expired", "Triggered",
                          "PendingUpdate", "PendingCancel", "ModifyRejected", "Updated",
                          "Filled"},
     PendingCancel   |-> {"Rejected", "PendingCancel", "CancelRejected", "Canceled",
                          "Expired", "Accepted", "Filled"},
     Triggered       |-> {"Rejected", "PendingUpdate", "PendingCancel", "Canceled",
                          "Expired", "Filled", "Updated"},
     PartiallyFilled |-> {"PendingUpdate", "PendingCancel", "Canceled", "Expired",
                          "Filled", "Accepted", "Updated"},
     Denied |-> {}, Rejected |-> {}, Expired |-> {}, Filled |-> {}]

(* Updates and refusals keep the status; every other event names the next. *)
transition(status, type) ==
    IF type \in {"Updated", "ModifyRejected", "CancelRejected"} THEN status ELSE type

(* Mutant: the status is saved on every event, pending or not. *)
remembered_Always(order, type) == order.status

(* The status saved for a refused request to go back to. *)
remembered(order, type) ==
    IF type \in {"ModifyRejected", "CancelRejected"} \/ order.status \in Pending
    THEN order.previous_status
    ELSE order.status

filled(order, e) ==
    LET new_filled_qty == order.filled_qty + e.qty
    IN  [order EXCEPT !.status = IF new_filled_qty < order.quantity
                                 THEN "PartiallyFilled" ELSE "Filled",
                      !.overfill_qty = @ + saturating_sub(new_filled_qty, order.quantity),
                      !.filled_qty = new_filled_qty,
                      !.leaves_qty = saturating_sub(@, e.qty),
                      !.fills = @ \cup {e}]

(* Mutant: the new quantity is stored and the remainder is not recomputed. *)
updated_NoLeaves(order, e) ==
    [order EXCEPT !.status = IF order.status = "PendingUpdate"
                             THEN order.previous_status ELSE @,
                  !.quantity = e.qty]

updated(order, e) ==
    [order EXCEPT !.status = IF order.status = "PendingUpdate"
                             THEN order.previous_status ELSE @,
                  !.quantity = e.qty,
                  !.leaves_qty = saturating_sub(e.qty, order.filled_qty)]

(* Mutant: a refusal leaves the order pending. *)
applied_NoRestore(order, e) ==
    LET o == [order EXCEPT !.previous_status = remembered(order, e.type),
                           !.status = transition(order.status, e.type)]
    IN  CASE e.type = "Filled"  -> filled(o, e)
          [] e.type = "Updated" -> updated(o, e)
          [] OTHER -> o

(* The part of apply that follows a successful transition. *)
applied(order, e) ==
    LET o == [order EXCEPT !.previous_status = remembered(order, e.type),
                           !.status = transition(order.status, e.type)]
    IN  CASE e.type = "Filled"  -> filled(o, e)
          [] e.type = "Updated" -> updated(o, e)
          [] e.type \in {"ModifyRejected", "CancelRejected"} ->
                 [o EXCEPT !.status = o.previous_status]
          [] OTHER -> o

(* Mutant: trade ids are not checked. *)
apply_error_NoTradeCheck(order, e, triggerable) ==
    IF e.type = "Triggered" /\ ~triggerable THEN "InvalidOrderEvent"
    ELSE IF e.type \notin Admits[order.status] THEN "InvalidStateTransition"
    ELSE "none"

(* Mutant: an acknowledgement is taken in any status. *)
apply_error_LateAccept(order, e, triggerable) ==
    IF e.type = "Filled" /\ has_trade_id(order, e) THEN "DuplicateFill"
    ELSE IF e.type = "Triggered" /\ ~triggerable THEN "InvalidOrderEvent"
    ELSE IF e.type \notin Admits[order.status] \cup {"Accepted"} THEN "InvalidStateTransition"
    ELSE "none"

(* What OrderCore::apply returns. *)
apply_error(order, e, triggerable) ==
    IF e.type = "Filled" /\ has_trade_id(order, e) THEN "DuplicateFill"
    ELSE IF e.type = "Triggered" /\ ~triggerable THEN "InvalidOrderEvent"
    ELSE IF e.type \notin Admits[order.status] THEN "InvalidStateTransition"
    ELSE "none"
=============================================================================
