---------------------------- MODULE LiveExecution ----------------------------
(***************************************************************************)
(* Continuous reconciliation of the live node: the event loop of           *)
(* crates/live/src/node.rs, the ExecutionManager's in-flight and open      *)
(* order checks (manager.rs) and the reconciliation of order status        *)
(* reports (crates/execution/src/reconciliation/orders.rs), against a      *)
(* venue whose messages may be lost or arrive late.                        *)
(*                                                                         *)
(* Every map of the manager is keyed by client order id and no handler     *)
(* relates two orders, so there is one order, a limit order.  Thresholds   *)
(* are not counted: a timer is running or has run out, and runs out at any *)
(* time.  The venue is external.                                           *)
(***************************************************************************)
EXTENDS OrderCore, Sequences

CONSTANTS
    Quantity,                    \* quantity the order is created with
    ModifyTo,                    \* quantities it may be modified to
    MaxRequests,                 \* bound: modify and cancel requests
    MaxBacklog,                  \* bound: messages in the event channel
    inflight_max_retries,
    open_check_missing_retries,
    open_check_open_only,
    Lossy                        \* whether messages to and from the venue may be lost

ASSUME LiveAssumption ==
    /\ Quantity \in Nat \ {0} /\ ModifyTo \subseteq Nat \ {0}
    /\ {MaxRequests, MaxBacklog, inflight_max_retries, open_check_missing_retries} \subseteq Nat
    /\ {open_check_open_only, Lossy} \subseteq BOOLEAN

VARIABLES
    order,      \* the order in the cache
    commands,   \* exec_cmd channel
    events,     \* exec_evt channel: order events and status reports
    tracking,   \* its entry of inflight_checks
    retries,    \* recon_check_retries, 0 when absent
    recent,     \* local activity within open_check_threshold_ns
    awaiting,   \* answer to the open order query the loop is awaiting
    crashed,    \* a panic has ended the node
    asked,      \* number of modify and cancel requests made
    venue,      \* the order at the venue
    inbox,      \* requests on their way to the venue
    answers     \* reports that answer queries, on their way back

managerVars == <<tracking, retries, recent>>
venueVars   == <<venue, inbox, answers>>
vars == <<order, commands, events, tracking, retries, recent, awaiting, crashed, asked,
          venue, inbox, answers>>

Quantities == {Quantity} \cup ModifyTo
Request    == [kind : {"submit", "cancel", "modify", "query"}, qty : Quantities]
VenueState == {"None", "Accepted", "Filled", "Canceled", "Rejected", "Expired"}
Reports    == [status : (VenueState \ {"None"}) \cup {"PartiallyFilled"} \cup Pending,
               qty : Quantities, filled : Nat]

Idle       == [kind |-> "idle"]
Missing    == [kind |-> "missing"]
Reported(r) == [kind |-> "report", report |-> r]
Evented(e) == [kind |-> "event", event |-> e]

(* The fills a report implies have negative trade ids. *)
LiveEvent == [type : EventType, trade : Int, qty : Nat, px : {1}]
LiveOrder == [status : Status, previous_status : Status, quantity : Nat, filled_qty : Nat,
              leaves_qty : Nat, overfill_qty : Nat, fills : SUBSET LiveEvent]

Message == [kind : {"event"}, event : LiveEvent] \cup [kind : {"report"}, report : Reports]

TypeOK ==
    /\ order \in LiveOrder
    /\ commands \in Seq(Request)
    /\ events \in Seq(Message)
    /\ tracking \in [on : BOOLEAN, retry_count : 0 .. inflight_max_retries]
    /\ retries \in Nat
    /\ awaiting \in {Idle, Missing} \cup [kind : {"report"}, report : Reports]
    /\ {recent, crashed} \subseteq BOOLEAN
    /\ asked \in 0 .. MaxRequests
    /\ venue \in [state : VenueState, qty : Quantities, filled : Nat]
    /\ inbox \subseteq Request
    /\ answers \subseteq Reports

Untracked == [on |-> FALSE, retry_count |-> 0]

Init ==
    /\ order = NewOrder(Quantity)
    /\ commands = << [kind |-> "submit", qty |-> Quantity] >> /\ events = << >>
    /\ tracking = Untracked /\ retries = 0 /\ recent = FALSE
    /\ awaiting = Idle /\ crashed = FALSE /\ asked = 0
    /\ venue = [state |-> "None", qty |-> Quantity, filled |-> 0]
    /\ inbox = {} /\ answers = {}

-----------------------------------------------------------------------------
(* The execution engine, as far as the order goes (see ExecutionEngine). *)

handle_event(o, e) ==
    IF \/ apply_error(o, e, FALSE) # "none"
       \/ e.type = "Filled" /\ calculate_overfill(o, e.qty) > 0
    THEN o ELSE applied(o, e)

(* The events one after the other; no list below has more than three. *)
handle_events(o, es) ==
    LET o1 == IF Len(es) >= 1 THEN handle_event(o, es[1]) ELSE o
        o2 == IF Len(es) >= 2 THEN handle_event(o1, es[2]) ELSE o1
    IN  IF Len(es) >= 3 THEN handle_event(o2, es[3]) ELSE o2

(* Reconciliation of a status report: reconciliation/orders.rs. *)

should_reconciliation_update(o, r) == r.qty # o.quantity /\ r.qty >= o.filled_qty

(* Mutant: what is left of the order is filled, not the reported difference. *)
create_incremental_inferred_fill_Leaves(o, r) == Fill(-r.filled, o.leaves_qty)

(* Its trade id is a hash that no trade of the venue has. *)
create_incremental_inferred_fill(o, r) == Fill(-r.filled, r.filled - o.filled_qty)

reconcile_fill_quantity_mismatch(o, r) ==
    IF r.filled < o.filled_qty THEN << >>
    ELSE IF r.filled > o.filled_qty
         THEN IF is_closed(o) \/ o.status = "Initialized" THEN << >>
              ELSE << create_incremental_inferred_fill(o, r) >>
    ELSE IF o.status # r.status /\ should_reconciliation_update(o, r)
         THEN << Update(r.qty) >>
    ELSE << >>

(* Mutant: only a report of an open order is acted on. *)
reconcile_order_report_OpenOnly(o, r) ==
    IF r.status \in Pending THEN << >>
    ELSE IF o.status = r.status /\ o.filled_qty = r.filled
         THEN IF should_reconciliation_update(o, r) THEN << Update(r.qty) >> ELSE << >>
    ELSE IF r.status \in {"PartiallyFilled", "Filled"}
         THEN reconcile_fill_quantity_mismatch(o, r)
    ELSE IF r.status = "Accepted" THEN << Plain("Accepted") >>
    ELSE << >>

(* At most one event.  A rejection needs the account id a submission sets. *)
reconcile_order_report(o, r) ==
    IF r.status \in Pending THEN << >>
    ELSE IF o.status = r.status /\ o.filled_qty = r.filled
         THEN IF should_reconciliation_update(o, r) THEN << Update(r.qty) >> ELSE << >>
    ELSE IF r.status \in {"PartiallyFilled", "Filled"}
         THEN reconcile_fill_quantity_mismatch(o, r)
    ELSE IF r.status = "Accepted" /\ o.status = "Accepted" /\ should_reconciliation_update(o, r)
         THEN << Update(r.qty) >>
    ELSE IF r.status = "Rejected" /\ o.status = "Initialized" THEN << >>
    ELSE << Plain(r.status) >>

(* create_reconciliation_accepted expects an account id. *)
create_accepted_panics(o, r) == r.status = "Accepted" /\ o.status = "Initialized"

(* The report of a SUBMITTED order is preceded by an acceptance, and a      *)
(* quantity the venue confirmed comes before the fill that may reach it.    *)
generate_reconciliation_order_events(o, r) ==
    LET accept == IF o.status = "Submitted" /\ r.status # "Rejected"
                  THEN << Plain("Accepted") >> ELSE << >>
        o1     == handle_events(o, accept)
        amend  == IF /\ r.status \in {"Accepted", "PartiallyFilled", "Filled"}
                     /\ o1.status \in {"Accepted", "PartiallyFilled"}
                     /\ should_reconciliation_update(o1, r)
                  THEN << Update(r.qty) >> ELSE << >>
        o2     == handle_events(o1, amend)
    IN  accept \o amend \o reconcile_order_report(o2, r)

-----------------------------------------------------------------------------
(* The strategy, whose callbacks run on the loop's thread. *)

Running == ~crashed /\ awaiting = Idle

Requested(type, c) ==
    /\ Running /\ asked < MaxRequests
    /\ ~is_closed(order) /\ order.status # "PendingCancel" /\ ~is_active_local(order)
    /\ apply_error(order, Plain(type), FALSE) = "none"
    /\ order' = applied(order, Plain(type))
    /\ commands' = Append(commands, c)
    /\ asked' = asked + 1
    /\ UNCHANGED <<events, managerVars, awaiting, crashed, venueVars>>

modify_order ==
    \E q \in ModifyTo \ {order.quantity} : Requested("PendingUpdate", [kind |-> "modify", qty |-> q])

cancel_order == Requested("PendingCancel", [kind |-> "cancel", qty |-> Quantity])

-----------------------------------------------------------------------------
(* The event loop of LiveNode::run. *)

clear_recon_tracking == tracking' = Untracked /\ retries' = 0

register_inflight ==
    /\ tracking' = [on |-> TRUE, retry_count |-> 0]
    /\ retries' = 0
    /\ recent' = FALSE

(* exec_cmd branch: polled after the event branch.  The client reports the  *)
(* submission through the event channel.                                    *)
handle_exec_command ==
    /\ Running /\ events = << >> /\ commands # << >>
    /\ LET c == Head(commands)
       IN  /\ register_inflight
           /\ events' = IF c.kind = "submit" THEN << Evented(Plain("Submitted")) >> ELSE events
           /\ inbox' = inbox \cup {c}
    /\ commands' = Tail(commands)
    /\ UNCHANGED <<order, awaiting, crashed, asked, venue, answers>>

(* The events on which the loop stops tracking before it dispatches them. *)
Settling == {"Accepted", "Rejected", "Canceled", "Expired", "Denied"}

handle_order_event(e) ==
    /\ order' = handle_event(order, e)
    /\ IF e.type \in Settling \/ is_closed(order')
       THEN clear_recon_tracking /\ recent' = FALSE
       ELSE UNCHANGED <<tracking, retries>> /\ recent' = TRUE
    /\ UNCHANGED crashed

observe_execution_report(r) ==
    /\ IF r.status \in Pending THEN UNCHANGED <<tracking, retries>> ELSE clear_recon_tracking
    /\ recent' = TRUE

handle_report(r) ==
    /\ observe_execution_report(r)
    /\ crashed' = create_accepted_panics(order, r)
    /\ order' = IF crashed' THEN order
                ELSE handle_events(order, generate_reconciliation_order_events(order, r))

(* exec_evt branch. *)
handle_exec_event ==
    /\ Running /\ events # << >>
    /\ LET m == Head(events)
       IN  \/ m.kind = "event" /\ handle_order_event(m.event)
           \/ m.kind = "report" /\ handle_report(m.report)
    /\ events' = Tail(events)
    /\ UNCHANGED <<commands, awaiting, asked, venueVars>>

open_check_threshold_passes ==
    /\ recent
    /\ recent' = FALSE
    /\ UNCHANGED <<order, commands, events, tracking, retries, awaiting, crashed, asked, venueVars>>

process_reconciliation_events(es) == order' = handle_events(order, es) /\ recent' = (es # << >>)

-----------------------------------------------------------------------------
(* Maintenance: ExecutionManager::check_inflight_orders. *)

(* Mutant: a pending cancel is taken for resolved. *)
inflight_resolution_NoCancel(o) ==
    IF o.status = "Submitted" THEN << Plain("Rejected") >>
    ELSE IF o.status = "PendingUpdate" THEN << Plain("Canceled") >>
    ELSE << >>

inflight_resolution(o) ==
    IF o.status = "Submitted" THEN << Plain("Rejected") >>
    ELSE IF o.status \in Pending THEN << Plain("Canceled") >>
    ELSE << >>

(* Mutant: the retry is not counted. *)
check_inflight_orders_Uncounted ==
    /\ Running /\ events = << >> /\ tracking.on
    /\ UNCHANGED tracking
    /\ inbox' = inbox \cup {[kind |-> "query", qty |-> Quantity]}
    /\ UNCHANGED <<order, retries, recent, commands, events, awaiting, crashed, asked, venue, answers>>

(* Below the limit the venue is queried, at the limit the order resolved. *)
check_inflight_orders ==
    /\ Running /\ events = << >> /\ tracking.on
    /\ LET n == tracking.retry_count + 1
       IN  \/ /\ n < inflight_max_retries
              /\ tracking' = [tracking EXCEPT !.retry_count = n]
              /\ retries' = n
              /\ inbox' = inbox \cup {[kind |-> "query", qty |-> Quantity]}
              /\ UNCHANGED <<order, recent>>
           \/ /\ n >= inflight_max_retries
              /\ clear_recon_tracking
              /\ process_reconciliation_events(inflight_resolution(order))
              /\ UNCHANGED inbox
    /\ UNCHANGED <<commands, events, awaiting, crashed, asked, venue, answers>>

(* ExecutionManager::check_open_orders, up to and from the awaited query. *)

(* What the venue says of the order now (external). *)
VenueReports ==
    [status : {IF venue.state = "Accepted" /\ venue.filled > 0 THEN "PartiallyFilled" ELSE venue.state}
                \cup (IF venue.state = "Accepted" /\ \E c \in inbox : c.kind = "cancel"
                      THEN {"PendingCancel"} ELSE {}),
     qty : {venue.qty}, filled : {venue.filled}]

query_open_orders ==
    /\ Running
    /\ IF venue.state \in (IF open_check_open_only THEN {"Accepted"} ELSE VenueState \ {"None"})
       THEN \E r \in VenueReports : awaiting' = Reported(r)
       ELSE awaiting' = Missing
    /\ UNCHANGED <<order, commands, events, managerVars, crashed, asked, venueVars>>

(* A failed query is logged and leaves no reports. *)
query_open_orders_fails ==
    /\ Lossy /\ Running
    /\ awaiting' = Missing
    /\ UNCHANGED <<order, commands, events, managerVars, crashed, asked, venueVars>>

reconcile_open_order(r) ==
    /\ crashed' = (~recent /\ create_accepted_panics(order, r))
    /\ IF recent \/ crashed'
       THEN UNCHANGED <<order, recent>>
       ELSE process_reconciliation_events(reconcile_order_report(order, r))
    /\ UNCHANGED <<tracking, retries>>

handle_missing_order ==
    /\ retries + 1 >= open_check_missing_retries
    /\ clear_recon_tracking
    /\ process_reconciliation_events(<< Plain("Rejected") >>)

(* An order whose last event is recent is left alone, as is one with recent *)
(* local activity; event times are not modelled.                            *)
missing_check(tooRecent) ==
    IF open_check_open_only \/ tooRecent \/ recent \/ ~(is_open(order) \/ is_inflight(order))
    THEN UNCHANGED <<order, managerVars>>
    ELSE \/ handle_missing_order
         \/ /\ retries + 1 < open_check_missing_retries
            /\ retries' = retries + 1
            /\ UNCHANGED <<order, tracking, recent>>

finish_open_check ==
    /\ ~crashed /\ awaiting # Idle
    /\ \/ awaiting.kind = "report" /\ reconcile_open_order(awaiting.report)
       \/ /\ awaiting.kind = "missing"
          /\ \E tooRecent \in BOOLEAN : missing_check(tooRecent)
          /\ UNCHANGED crashed
    /\ awaiting' = Idle
    /\ UNCHANGED <<commands, events, asked, venueVars>>

-----------------------------------------------------------------------------
(* The venue (external). *)

(* Its events reach the event channel in order, or are lost. *)
Emit(e) ==
    \/ Len(events) < MaxBacklog /\ events' = Append(events, Evented(e))
    \/ Lossy /\ events' = events

nodeVars == <<order, commands, managerVars, awaiting, crashed, asked>>

VenueBecomes(v, e) ==
    /\ venue' = v
    /\ Emit(e)
    /\ UNCHANGED <<nodeVars, answers>>

Take(kind) == {c \in inbox : c.kind = kind}

VenueOpens(state) ==
    \E c \in Take("submit") :
        /\ venue.state = "None"
        /\ inbox' = inbox \ {c}
        /\ VenueBecomes([venue EXCEPT !.state = state], Plain(state))

VenueCancels ==
    \E c \in Take("cancel") :
        /\ inbox' = inbox \ {c}
        /\ \/ /\ venue.state = "Accepted"
              /\ VenueBecomes([venue EXCEPT !.state = "Canceled"], Plain("Canceled"))
           \/ venue.state # "Accepted" /\ VenueBecomes(venue, Plain("CancelRejected"))

(* A quantity reduced to what is filled completes the order. *)
VenueModifies ==
    \E c \in Take("modify") :
        /\ inbox' = inbox \ {c}
        /\ \/ /\ venue.state = "Accepted" /\ c.qty >= venue.filled
              /\ VenueBecomes([venue EXCEPT !.qty = c.qty,
                                            !.state = IF c.qty = venue.filled THEN "Filled" ELSE @],
                              Update(c.qty))
           \/ VenueBecomes(venue, Plain("ModifyRejected"))

VenueFills ==
    /\ venue.state = "Accepted"
    /\ VenueBecomes([venue EXCEPT !.filled = @ + 1,
                                  !.state = IF venue.filled + 1 = venue.qty THEN "Filled" ELSE @],
                    Fill(venue.filled + 1, 1))
    /\ UNCHANGED inbox

VenueExpires ==
    /\ venue.state = "Accepted"
    /\ VenueBecomes([venue EXCEPT !.state = "Expired"], Plain("Expired"))
    /\ UNCHANGED inbox

(* An order the venue does not know is not reported. *)
VenueAnswers ==
    \E c \in Take("query") :
        /\ inbox' = inbox \ {c}
        /\ \/ venue.state # "None" /\ \E r \in VenueReports : answers' = answers \cup {r}
           \/ venue.state = "None" /\ UNCHANGED answers
        /\ UNCHANGED <<nodeVars, events, venue>>

(* Answers travel apart from the venue's events and may be overtaken. *)
AnswerArrives ==
    \E r \in answers :
        /\ Len(events) < MaxBacklog
        /\ answers' = answers \ {r}
        /\ events' = Append(events, Reported(r))
        /\ UNCHANGED <<nodeVars, venue, inbox>>

Loop ==
    \/ handle_exec_command
    \/ handle_exec_event
    \/ check_inflight_orders
    \/ finish_open_check

Venue ==
    \/ VenueOpens("Accepted") \/ VenueOpens("Rejected")
    \/ VenueCancels \/ VenueModifies
    \/ VenueFills \/ VenueExpires
    \/ VenueAnswers \/ AnswerArrives

Next ==
    \/ modify_order \/ cancel_order
    \/ Loop
    \/ open_check_threshold_passes
    \/ query_open_orders \/ query_open_orders_fails
    \/ Venue

Spec == Init /\ [][Next]_vars

(* The loop handles what is queued, its timers expire and its checks run; an *)
(* open order query repeated for ever is answered again and again.           *)
FairSpec ==
    /\ Spec
    /\ SF_vars(handle_exec_command) /\ SF_vars(handle_exec_event)
    /\ WF_vars(open_check_threshold_passes)
    /\ SF_vars(check_inflight_orders)
    /\ SF_vars(query_open_orders /\ ~recent) /\ WF_vars(finish_open_check)
-----------------------------------------------------------------------------
(* Properties. *)

(* What maintenance does to an order at the retry limit takes it out of    *)
(* flight: check_inflight_orders forgets no order that is still SUBMITTED,  *)
(* PENDING_UPDATE or PENDING_CANCEL.                                        *)
MaintenanceNeverAbandons ==
    [][check_inflight_orders => (tracking'.on \/ ~is_inflight(order'))]_vars

(* Reconciling a report, late or fresh, from a query or from the open order *)
(* check, never takes the order's filled quantity past what the venue has   *)
(* filled, whatever fill events came before it.                             *)
Reconciles ==
    \/ finish_open_check
    \/ handle_exec_event /\ Head(events).kind = "report"

ReconciledFillsExist ==
    [][Reconciles /\ order'.filled_qty > order.filled_qty
         => order'.filled_qty <= venue.filled]_vars

(* Tracking an in-flight request ends, answered or not: each check counts a *)
(* retry, and the retries run out.                                          *)
TrackingEnds == tracking.on ~> ~tracking.on \/ crashed

(* An order the venue has filled, canceled or rejected is closed in the     *)
(* cache in the end, even when every event about it is lost.  An expiry is  *)
(* left out: the state machine refuses it for a SUBMITTED order.            *)
DoneBecomesClosed ==
    venue.state \in {"Filled", "Canceled", "Rejected"} ~> is_closed(order) \/ crashed

-----------------------------------------------------------------------------
(* Statements of the code and the documentation that the code does not keep. *)

(* create_reconciliation_accepted: "Order should have account_id for        *)
(* reconciliation".                                                         *)
AcceptedOrderHasAccount == ~crashed

(* docs/concepts/live.md: in-flight orders: "After `inflight_check_retries`, *)
(* resolves to `REJECTED`."                                                 *)
InflightResolves == is_inflight(order) ~> ~is_inflight(order) \/ crashed
=============================================================================
