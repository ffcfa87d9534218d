--------------------------- MODULE ExecutionEngine ---------------------------
(***************************************************************************)
(* Order events through the execution engine: the strategy's submit,       *)
(* modify and cancel, ExecutionEngine::handle_event with the order, the    *)
(* cache's order indexes and the NETTING position it maintains, and the    *)
(* venue at the other end of an event stream.                              *)
(*                                                                         *)
(* The engine side follows crates/execution/src/engine/mod.rs,             *)
(* crates/common/src/cache/mod.rs and crates/model/src/position.rs.  The   *)
(* venue is external: what it may do is what the transition table and the  *)
(* execution guide expect of one.  All orders are of one strategy on one   *)
(* instrument, so they share one position.                                 *)
(***************************************************************************)
EXTENDS OrderCore, Sequences, FiniteSets

CONSTANTS
    Buys, Sells,      \* client order ids, by side
    Triggerable,      \* orders of a TRIGGERABLE_ORDER_TYPES type
    Quantity,         \* the quantity every order is created with
    ModifyTo,         \* quantities a strategy may modify an order to
    MaxRequests,      \* bound: modify and cancel requests per order
    allow_overfills,  \* ExecutionEngineConfig::allow_overfills
    Overfills,        \* whether the venue may execute more than was ordered
    Reliable          \* whether events arrive in order and once; if not, an event
                      \* may be lost, delayed, overtaken or delivered again

ClientOrderId == Buys \cup Sells

ASSUME EngineAssumption ==
    /\ Buys \cap Sells = {} /\ IsFiniteSet(ClientOrderId)
    /\ Triggerable \subseteq ClientOrderId
    /\ Quantity \in Nat \ {0}
    /\ ModifyTo \subseteq Nat \ {0}
    /\ MaxRequests \in Nat
    /\ {allow_overfills, Overfills, Reliable} \subseteq BOOLEAN

VARIABLES
    orders,     \* Cache::orders
    index,      \* the status buckets of Cache::index
    position,   \* the netting position; closed with no events before the first
    refused,    \* events reported "did not apply" and yet published
    panicked,   \* Position::apply failed its check
    venue,      \* each order as the venue has it
    requests,   \* modify and cancel commands the venue has not answered
    asked,      \* number of requests made for each order
    stream,     \* events emitted for each order and not yet delivered, in order
    archive     \* events emitted for each order that may arrive at any time

engineVars == <<orders, index, position, refused, panicked>>
streamVars == <<stream, archive>>
vars       == <<orders, index, position, refused, panicked, venue, requests, asked, stream,
                archive>>

Bucket  == {"active_local", "inflight", "open", "closed", "pending_cancel"}
Request == [kind : {"modify", "cancel"}, qty : Nat]
Events  == [order : ClientOrderId, trade : Nat, qty : Nat, px : {1, 2}]

TypeOK ==
    /\ orders \in [ClientOrderId -> Order]
    /\ index \in [Bucket -> SUBSET ClientOrderId]
    /\ position \in [signed_qty : Int, events : SUBSET Events, open : BOOLEAN]
    /\ refused \in [ClientOrderId -> SUBSET Event]
    /\ panicked \in BOOLEAN
    /\ venue \in [ClientOrderId -> [state : {"none", "received", "working", "done"},
                                    triggered : BOOLEAN, qty : Nat, filled : Nat]]
    /\ requests \in [ClientOrderId -> SUBSET Request]
    /\ asked \in [ClientOrderId -> 0..MaxRequests]
    /\ stream \in [ClientOrderId -> Seq(Report)]
    /\ archive \in [ClientOrderId -> SUBSET Report]

Init ==
    /\ orders = [o \in ClientOrderId |-> NewOrder(Quantity)]
    /\ index = [b \in Bucket |-> IF b = "active_local" THEN ClientOrderId ELSE {}]
    /\ position = [signed_qty |-> 0, events |-> {}, open |-> FALSE]
    /\ refused = [o \in ClientOrderId |-> {}]
    /\ panicked = FALSE
    /\ venue = [o \in ClientOrderId |->
                   [state |-> "none", triggered |-> FALSE, qty |-> Quantity, filled |-> 0]]
    /\ requests = [o \in ClientOrderId |-> {}]
    /\ asked = [o \in ClientOrderId |-> 0]
    /\ stream = [o \in ClientOrderId |-> <<>>]
    /\ archive = [o \in ClientOrderId |-> {}]

-----------------------------------------------------------------------------
(* Mutant: an order that reopens is not taken out of the closed bucket. *)
refresh_order_NoReopen(idx, o, order) ==
    [idx EXCEPT
        !["active_local"] = IF is_active_local(order) THEN @ \cup {o} ELSE @ \ {o},
        !["inflight"] = IF is_inflight(order) THEN @ \cup {o} ELSE @ \ {o},
        !["open"] = IF is_open(order) THEN @ \cup {o}
                    ELSE IF is_closed(order) THEN @ \ {o} ELSE @,
        !["closed"] = IF is_closed(order) THEN @ \cup {o} ELSE @,
        !["pending_cancel"] = IF is_closed(order) THEN @ \ {o} ELSE @]

(* Cache::refresh_order.  An order neither open nor closed keeps its place *)
(* in both of those buckets.                                               *)
refresh_order(idx, o, order) ==
    [idx EXCEPT
        !["active_local"] = IF is_active_local(order) THEN @ \cup {o} ELSE @ \ {o},
        !["inflight"] = IF is_inflight(order) THEN @ \cup {o} ELSE @ \ {o},
        !["open"] = IF is_open(order) THEN @ \cup {o}
                    ELSE IF is_closed(order) THEN @ \ {o} ELSE @,
        !["closed"] = IF is_open(order) THEN @ \ {o}
                      ELSE IF is_closed(order) THEN @ \cup {o} ELSE @,
        !["pending_cancel"] = IF is_closed(order) THEN @ \ {o} ELSE @]

error(o, e) == apply_error(orders[o], e, o \in Triggerable)

(* Cache::update_order when the order takes the event. *)
update_order(o, e) ==
    /\ orders' = [orders EXCEPT ![o] = applied(@, e)]
    /\ index' = refresh_order(index, o, applied(orders[o], e))

signed(o, q) == IF o \in Buys THEN q ELSE -q

abs(n) == IF n < 0 THEN -n ELSE n

PositionOf(o, e, q) ==
    [signed_qty |-> signed(o, q), open |-> TRUE,
     events |-> {[order |-> o, trade |-> e.trade, qty |-> q, px |-> e.px]}]

is_duplicate_closed_fill(o, e) ==
    [order |-> o, trade |-> e.trade, qty |-> e.qty, px |-> e.px] \in position.events

position_has_trade_id(o, e) ==
    \E f \in position.events : f.order = o /\ f.trade = e.trade

will_flip_position(o, e) ==
    /\ position.signed_qty * signed(o, 1) < 0
    /\ e.qty > abs(position.signed_qty)

(* open_position: a closed position is replaced by a new one of the same id. *)
open_position(o, e) ==
    /\ ~position.open
    /\ position' = IF is_duplicate_closed_fill(o, e) THEN position
                   ELSE PositionOf(o, e, e.qty)
    /\ UNCHANGED panicked

(* Position::apply checks the trade id of an open position's fill. *)
position_apply_panics(o, e) ==
    /\ position.open
    /\ position_has_trade_id(o, e)
    /\ panicked' = TRUE
    /\ UNCHANGED position

(* Mutant: the flipped position takes the whole fill. *)
flip_position_WholeFill(o, e) ==
    /\ position.open
    /\ ~position_has_trade_id(o, e)
    /\ will_flip_position(o, e)
    /\ position' = PositionOf(o, e, e.qty)
    /\ UNCHANGED panicked

(* flip_position: the first part of the split closes, the rest opens. *)
flip_position(o, e) ==
    /\ position.open
    /\ ~position_has_trade_id(o, e)
    /\ will_flip_position(o, e)
    /\ position' = PositionOf(o, e, e.qty - abs(position.signed_qty))
    /\ UNCHANGED panicked

update_position(o, e) ==
    /\ position.open
    /\ ~position_has_trade_id(o, e)
    /\ ~will_flip_position(o, e)
    /\ position' =
           [signed_qty |-> position.signed_qty + signed(o, e.qty),
            open |-> position.signed_qty + signed(o, e.qty) # 0,
            events |-> position.events \cup
                           {[order |-> o, trade |-> e.trade, qty |-> e.qty, px |-> e.px]}]
    /\ UNCHANGED panicked

handle_position_update(o, e) ==
    \/ open_position(o, e)
    \/ position_apply_panics(o, e)
    \/ flip_position(o, e)
    \/ update_position(o, e)

(* handle_order_fill; only a fill touches the position. *)
handle_order_fill(o, e) ==
    IF e.type = "Filled" THEN handle_position_update(o, e)
                         ELSE UNCHANGED <<position, panicked>>

(* Mutant: a fill that completes the order counts as an overfill. *)
validate_fill_for_order_Strict(o, e) ==
    /\ ~is_duplicate_fill(orders[o], e)
    /\ allow_overfills \/ orders[o].filled_qty + e.qty < orders[o].quantity

validate_fill_for_order(o, e) ==
    /\ ~is_duplicate_fill(orders[o], e)
    /\ allow_overfills \/ calculate_overfill(orders[o], e.qty) = 0

-----------------------------------------------------------------------------
(* ExecutionEngine::handle_event, by what becomes of the event. *)
EventSkipped(o, e) ==
    /\ e.type = "Filled" /\ ~validate_fill_for_order(o, e)
    /\ UNCHANGED engineVars

EventApplied(o, e) ==
    /\ e.type = "Filled" => validate_fill_for_order(o, e)
    /\ error(o, e) = "none"
    /\ update_order(o, e)
    /\ handle_order_fill(o, e)
    /\ UNCHANGED refused

(* update_cached_order answers an invalid transition with the order as it *)
(* is, so the fill goes on to the position and the event to subscribers.  *)
EventRefused(o, e) ==
    /\ e.type = "Filled" => validate_fill_for_order(o, e)
    /\ error(o, e) = "InvalidStateTransition"
    /\ handle_order_fill(o, e)
    /\ refused' = [refused EXCEPT ![o] = @ \cup {e}]
    /\ UNCHANGED <<orders, index>>

EventDropped(o, e) ==
    /\ e.type = "Filled" => validate_fill_for_order(o, e)
    /\ error(o, e) \in {"DuplicateFill", "InvalidOrderEvent"}
    /\ UNCHANGED engineVars

handle_event(o, e) ==
    \/ EventSkipped(o, e)
    \/ EventApplied(o, e)
    \/ EventRefused(o, e)
    \/ EventDropped(o, e)

(* The engine receives the next event of order o's stream. *)
DeliverNext(o) ==
    /\ ~panicked
    /\ stream[o] # <<>>
    /\ handle_event(o, Head(stream[o]))
    /\ stream' = [stream EXCEPT ![o] = Tail(@)]
    /\ UNCHANGED <<venue, requests, asked, archive>>

(* The engine receives an event late, early or again. *)
DeliverAny(o) ==
    /\ ~panicked
    /\ \E e \in archive[o] : handle_event(o, e)
    /\ UNCHANGED <<venue, requests, asked, streamVars>>

-----------------------------------------------------------------------------
(* The strategy and the risk engine. *)

(* A submitted order passes the risk engine; its execution client reports *)
(* OrderSubmitted and sends it.                                           *)
SubmitOrder(o) ==
    /\ ~panicked
    /\ orders[o].status = "Initialized"
    /\ handle_event(o, Plain("Submitted"))
    /\ venue' = [venue EXCEPT ![o].state = "received"]
    /\ UNCHANGED <<requests, asked, streamVars>>

(* RiskEngine::deny_order. *)
deny_order(o) ==
    /\ ~panicked
    /\ orders[o].status = "Initialized"
    /\ handle_event(o, Plain("Denied"))
    /\ UNCHANGED <<venue, requests, asked, streamVars>>

SendRequest(o, r) ==
    /\ asked[o] < MaxRequests
    /\ asked' = [asked EXCEPT ![o] = @ + 1]
    /\ requests' = [requests EXCEPT ![o] = @ \cup {r}]

(* Strategy::modify_order of an order already sent to the venue. *)
modify_order(o) ==
    /\ ~panicked
    /\ ~is_closed(orders[o]) /\ orders[o].status # "PendingCancel"
    /\ ~is_active_local(orders[o])
    /\ error(o, Plain("PendingUpdate")) = "none"
    /\ update_order(o, Plain("PendingUpdate"))
    /\ \E q \in ModifyTo \ {orders[o].quantity} :
           SendRequest(o, [kind |-> "modify", qty |-> q])
    /\ UNCHANGED <<position, refused, panicked, venue, streamVars>>

(* Strategy::cancel_order of an order already sent to the venue. *)
cancel_order(o) ==
    /\ ~panicked
    /\ ~is_closed(orders[o]) /\ orders[o].status # "PendingCancel"
    /\ ~is_active_local(orders[o])
    /\ error(o, Plain("PendingCancel")) = "none"
    /\ orders' = [orders EXCEPT ![o] = applied(@, Plain("PendingCancel"))]
    /\ index' = [refresh_order(index, o, applied(orders[o], Plain("PendingCancel")))
                    EXCEPT !["pending_cancel"] = @ \cup {o}]
    /\ SendRequest(o, [kind |-> "cancel", qty |-> 0])
    /\ UNCHANGED <<position, refused, panicked, venue, streamVars>>

(* RiskEngine::reject_modify_order, before the command leaves the node. *)
reject_modify_order(o) ==
    /\ ~panicked
    /\ \E r \in requests[o] :
          /\ r.kind = "modify"
          /\ requests' = [requests EXCEPT ![o] = @ \ {r}]
    /\ handle_event(o, Plain("ModifyRejected"))
    /\ UNCHANGED <<venue, asked, streamVars>>

-----------------------------------------------------------------------------
(* The venue (external). *)
Emit(o, e) ==
    /\ stream' = IF Reliable THEN [stream EXCEPT ![o] = Append(@, e)] ELSE stream
    /\ archive' = IF Reliable THEN archive ELSE [archive EXCEPT ![o] = @ \cup {e}]

Live(o) == venue[o].state \in {"received", "working"}

VenueAccepts(o) ==
    /\ venue[o].state = "received"
    /\ venue' = [venue EXCEPT ![o].state = "working"]
    /\ Emit(o, Plain("Accepted"))
    /\ UNCHANGED <<engineVars, requests, asked>>

VenueRejects(o) ==
    /\ venue[o].state = "received" /\ venue[o].filled = 0
    /\ venue' = [venue EXCEPT ![o].state = "done"]
    /\ Emit(o, Plain("Rejected"))
    /\ UNCHANGED <<engineVars, requests, asked>>

VenueTriggers(o) ==
    /\ venue[o].state = "working" /\ o \in Triggerable /\ ~venue[o].triggered
    /\ venue' = [venue EXCEPT ![o].triggered = TRUE]
    /\ Emit(o, Plain("Triggered"))
    /\ UNCHANGED <<engineVars, requests, asked>>

(* A fill of up to the remaining quantity, or, once, of one unit too many. *)
VenueFills(o) ==
    /\ o \in Triggerable => venue[o].triggered
    /\ \E q \in 1..(venue[o].qty + 1) :
          /\ \/ Live(o) /\ venue[o].filled + q <= venue[o].qty
             \/ Overfills /\ q = 1 /\ venue[o].filled = venue[o].qty
          /\ venue' = [venue EXCEPT ![o].filled = @ + q,
                                    ![o].state = IF venue[o].filled + q >= venue[o].qty
                                                 THEN "done" ELSE @]
          /\ Emit(o, Fill(venue[o].filled + q, q))
    /\ UNCHANGED <<engineVars, requests, asked>>

(* A cancellation, asked for or not; it answers every request. *)
VenueCancels(o) ==
    /\ Live(o)
    /\ venue' = [venue EXCEPT ![o].state = "done"]
    /\ requests' = [requests EXCEPT ![o] = {}]
    /\ Emit(o, Plain("Canceled"))
    /\ UNCHANGED <<engineVars, asked>>

VenueExpires(o) ==
    /\ venue[o].state = "working"
    /\ venue' = [venue EXCEPT ![o].state = "done"]
    /\ Emit(o, Plain("Expired"))
    /\ UNCHANGED <<engineVars, requests, asked>>

VenueUpdates(o) ==
    /\ venue[o].state = "working"
    /\ \E r \in requests[o] :
          /\ r.kind = "modify" /\ r.qty > venue[o].filled
          /\ requests' = [requests EXCEPT ![o] = @ \ {r}]
          /\ venue' = [venue EXCEPT ![o].qty = r.qty]
          /\ Emit(o, Update(r.qty))
    /\ UNCHANGED <<engineVars, asked>>

VenueRefuses(o) ==
    /\ \E r \in requests[o] :
          /\ requests' = [requests EXCEPT ![o] = @ \ {r}]
          /\ Emit(o, Plain(IF r.kind = "modify" THEN "ModifyRejected" ELSE "CancelRejected"))
    /\ UNCHANGED <<engineVars, venue, asked>>

(* The same trade reported again with another price. *)
VenueCorrects(o) ==
    /\ ~Reliable
    /\ \E e \in archive[o] : e.type = "Filled" /\ Emit(o, [e EXCEPT !.px = 2])
    /\ UNCHANGED <<engineVars, venue, requests, asked>>

VenueReports(o) ==
    \/ VenueAccepts(o) \/ VenueRejects(o) \/ VenueTriggers(o) \/ VenueFills(o)
    \/ VenueCancels(o) \/ VenueExpires(o) \/ VenueUpdates(o) \/ VenueRefuses(o)
    \/ VenueCorrects(o)

Next ==
    \E o \in ClientOrderId :
        \/ SubmitOrder(o)
        \/ deny_order(o)
        \/ modify_order(o)
        \/ cancel_order(o)
        \/ reject_modify_order(o)
        \/ VenueReports(o)
        \/ DeliverNext(o)
        \/ DeliverAny(o)

Spec == Init /\ [][Next]_vars

-----------------------------------------------------------------------------
(* Properties. *)

(* The sum of a function's values, each counted out in units. *)
SumOf(f) == Cardinality(UNION {{x} \X (1..f[x]) : x \in DOMAIN f})

(* The position that buys and sells of these quantities leave. *)
Net(qty) == SumOf([o \in Buys |-> qty[o]]) - SumOf([o \in Sells |-> qty[o]])

(* The order's own bookkeeping is exact whatever arrives in whatever order: *)
(* no trade id is recorded twice, leaves_qty is what is left of the current *)
(* quantity, and overfill_qty is the excess of a FILLED order and nothing   *)
(* otherwise, so that an excess is never added twice.                       *)
QuantitiesExact ==
    \A o \in ClientOrderId :
        LET order == orders[o]
        IN  /\ \A e, f \in order.fills : e.trade = f.trade => e = f
            /\ order.leaves_qty = saturating_sub(order.quantity, order.filled_qty)
            /\ order.overfill_qty = IF order.status = "Filled"
                                    THEN order.filled_qty - order.quantity ELSE 0

(* A refused modify or cancel always has a live status to go back to: while *)
(* an order is pending, previous_status is never closed, local or pending,  *)
(* however many requests, acknowledgements and fills came in between.       *)
PendingCanBeRestored ==
    \A o \in ClientOrderId :
        orders[o].status \in Pending => orders[o].previous_status \in Workable

(* Reports that are late, repeated or corrected are never counted twice:    *)
(* filled_qty is the sum of the fills on record, and never more than the    *)
(* venue executed.                                                          *)
NeverOvercounts ==
    \A o \in ClientOrderId :
        /\ orders[o].filled_qty = SumOf([e \in orders[o].fills |-> e.qty])
        /\ orders[o].filled_qty <= venue[o].filled

(* The cache's buckets after any sequence of events: in-flight, local and   *)
(* closed are exact, every open order is in the open bucket, and an entry   *)
(* of the open bucket that is not open is an order back in SUBMITTED.       *)
BucketsCoverOrders ==
    \A o \in ClientOrderId :
        /\ o \in index["active_local"] <=> is_active_local(orders[o])
        /\ o \in index["inflight"] <=> is_inflight(orders[o])
        /\ o \in index["closed"] <=> is_closed(orders[o])
        /\ is_open(orders[o]) => o \in index["open"]
        /\ o \in index["open"] => is_open(orders[o]) \/ orders[o].status = "Submitted"
        /\ orders[o].status = "PendingCancel" => o \in index["pending_cancel"]

(* As long as every fill that reached the position was also recorded on its *)
(* order, the position is the sum of the orders' fills, across closing,     *)
(* reopening and flipping, and Position::apply has not panicked.            *)
PositionIsSumOfFills ==
    (\A o \in ClientOrderId : \A e \in refused[o] : e.type # "Filled") =>
        /\ position.signed_qty = Net([o \in ClientOrderId |-> orders[o].filled_qty])
        /\ position.open <=> position.signed_qty # 0
        /\ ~panicked

(* A closed order stays closed, but for a canceled one that a late fill     *)
(* reaches; and its fills are never taken back.                             *)
ClosedReopensOnlyByFill ==
    [][\A o \in ClientOrderId :
          /\ is_closed(orders[o]) /\ ~is_closed(orders'[o]) =>
                 orders[o].status = "Canceled" /\ orders'[o].status = "PartiallyFilled"
          /\ orders[o].fills \subseteq orders'[o].fills]_vars

UpdateRefused(o) == \E e \in refused[o] : e.type = "Updated"

(* With events in order and once, an engine that has handled everything the *)
(* venue sent agrees with it on every order's fills, on which are closed,   *)
(* on the quantity of those that are not, and on the position; unless an    *)
(* update was refused.                                                      *)
CaughtUpAgrees ==
    (\A o \in ClientOrderId : stream[o] = <<>> /\ ~UpdateRefused(o)) =>
        /\ \A o \in ClientOrderId :
              /\ orders[o].filled_qty = venue[o].filled
              /\ venue[o].state = "done" => is_closed(orders[o])
              /\ Live(o) => ~is_closed(orders[o]) /\ orders[o].quantity = venue[o].qty
        /\ position.signed_qty = Net([o \in ClientOrderId |-> venue[o].filled])

(* The venue answers every order and request, and every event is handled. *)
VenueAnswers(o) == VenueAccepts(o) \/ VenueRejects(o) \/ VenueUpdates(o) \/ VenueRefuses(o)

FairSpec ==
    /\ Spec
    /\ \A o \in ClientOrderId : WF_vars(DeliverNext(o)) /\ WF_vars(VenueAnswers(o))

(* With events in order and once, no order is left pending: the answers to  *)
(* its requests, or the fills and terminal events that overtake them, take  *)
(* it out of PENDING_UPDATE and PENDING_CANCEL.                             *)
PendingResolves ==
    \A o \in ClientOrderId : orders[o].status \in Pending ~> orders[o].status \notin Pending

-----------------------------------------------------------------------------
(* Statements of the documentation that the code does not keep. *)

(* docs/concepts/execution.md: an exact replay is "skipped gracefully", and *)
(* a noisy one is dropped, the engine "does not crash".                     *)
ReplaysNeverCrash == ~panicked

(* docs/concepts/execution.md: with allow_overfills the engine "applies the *)
(* fill, and tracks the excess in overfill_qty".                            *)
OverfillsTracked ==
    \A o \in ClientOrderId : \A e \in refused[o] : e.type # "Filled"

(* Cache::is_order_open: "Returns whether an order ... is open".            *)
OpenBucketExact ==
    \A o \in ClientOrderId : o \in index["open"] => is_open(orders[o])
=============================================================================
