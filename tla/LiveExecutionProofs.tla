------------------------- MODULE LiveExecutionProofs -------------------------
(***************************************************************************)
(* What continuous reconciliation does to the order, for every quantity,   *)
(* retry limit and number of requests.                                     *)
(*                                                                         *)
(* That maintenance gives up no order in flight needs only the types: the  *)
(* transition table admits the event it resolves each in-flight status     *)
(* with.  That a reconciled fill exists at the venue needs ReportsTrue: a  *)
(* report says of the venue's fills what was once true, wherever it is on  *)
(* its way, and the venue's filled quantity never goes down.  A report     *)
(* yields at most one fill, the last of its events, and that one brings    *)
(* the order to the reported quantity.                                     *)
(***************************************************************************)
EXTENDS LiveExecution, TLAPS

(* No report counts a fill the venue has not made. *)
ReportsTrue ==
    /\ \A i \in DOMAIN events :
           events[i].kind = "report" => events[i].report.filled <= venue.filled
    /\ awaiting.kind = "report" => awaiting.report.filled <= venue.filled
    /\ \A r \in answers : r.filled <= venue.filled

LiveInv == TypeOK /\ ReportsTrue

-----------------------------------------------------------------------------
(* One event.  An order the engine has handled an event for is an order. *)
LEMMA HandleType ==
    ASSUME NEW o \in LiveOrder, NEW e \in LiveEvent
    PROVE  handle_event(o, e) \in LiveOrder
<1>1. applied(o, e) \in LiveOrder
  <2> DEFINE p == [o EXCEPT !.previous_status = remembered(o, e.type),
                            !.status = transition(o.status, e.type)]
  <2>1. remembered(o, e.type) \in Status
    BY DEF remembered, LiveOrder
  <2>2. transition(o.status, e.type) \in Status
    BY DEF transition, LiveOrder, LiveEvent, EventType, Status
  <2>3. p \in LiveOrder
    BY <2>1, <2>2 DEF LiveOrder
  <2> HIDE DEF p
  <2>q. e.qty \in Nat
    BY DEF LiveEvent
  <2>n. \A a, b \in Nat : saturating_sub(a, b) \in Nat /\ a + b \in Nat
    BY DEF saturating_sub
  <2>p. /\ p.quantity \in Nat /\ p.filled_qty \in Nat /\ p.leaves_qty \in Nat
        /\ p.overfill_qty \in Nat /\ p.fills \cup {e} \in SUBSET LiveEvent
        /\ p.status \in Status /\ p.previous_status \in Status
    BY <2>3 DEF LiveOrder
  <2>s. {"PartiallyFilled", "Filled"} \subseteq Status
    BY DEF Status, Open, Closed
  <2>4. filled(p, e) \in LiveOrder
    <3>1. ASSUME NEW s \in Status, NEW ov \in Nat, NEW f \in Nat, NEW l \in Nat,
                 NEW fs \in SUBSET LiveEvent
          PROVE  [p EXCEPT !.status = s, !.overfill_qty = ov, !.filled_qty = f,
                           !.leaves_qty = l, !.fills = fs] \in LiveOrder
      BY <2>3 DEF LiveOrder
    <3> QED
      BY <3>1, <2>3, <2>q, <2>n, <2>p, <2>s DEF filled
  <2>5. updated(p, e) \in LiveOrder
    <3>1. ASSUME NEW s \in Status, NEW q \in Nat, NEW l \in Nat
          PROVE  [p EXCEPT !.status = s, !.quantity = q, !.leaves_qty = l] \in LiveOrder
      BY <2>3 DEF LiveOrder
    <3> QED
      BY <3>1, <2>3, <2>q, <2>n, <2>p DEF updated
  <2>6. [p EXCEPT !.status = p.previous_status] \in LiveOrder
    BY <2>3 DEF LiveOrder
  <2> QED
    BY <2>3, <2>4, <2>5, <2>6 DEF applied, p
<1> QED
  BY <1>1 DEF handle_event

(* Only a fill changes the filled quantity, and by its own quantity. *)
LEMMA HandleFilledQty ==
    ASSUME NEW o \in LiveOrder, NEW e \in LiveEvent
    PROVE  \/ handle_event(o, e).filled_qty = o.filled_qty
           \/ e.type = "Filled" /\ handle_event(o, e).filled_qty = o.filled_qty + e.qty
<1> DEFINE p == [o EXCEPT !.previous_status = remembered(o, e.type),
                          !.status = transition(o.status, e.type)]
<1>1. p.filled_qty = o.filled_qty /\ DOMAIN p = DOMAIN o
  BY DEF LiveOrder
<1>2. "filled_qty" \in DOMAIN p
  BY <1>1 DEF LiveOrder
<1> HIDE DEF p
<1>3. filled(p, e).filled_qty = p.filled_qty + e.qty
  BY <1>2 DEF filled
<1>4. updated(p, e).filled_qty = p.filled_qty
  BY <1>2 DEF updated
<1>5. [p EXCEPT !.status = p.previous_status].filled_qty = p.filled_qty
  BY <1>2
<1>6. \/ applied(o, e).filled_qty = o.filled_qty
      \/ e.type = "Filled" /\ applied(o, e).filled_qty = o.filled_qty + e.qty
  BY <1>1, <1>3, <1>4, <1>5 DEF applied, p
<1> QED
  BY <1>6 DEF handle_event

(* A list of events leaves an order. *)
LEMMA HandleAllType ==
    ASSUME NEW o \in LiveOrder, NEW es \in Seq(LiveEvent)
    PROVE  handle_events(o, es) \in LiveOrder
<1> DEFINE o1 == IF Len(es) >= 1 THEN handle_event(o, es[1]) ELSE o
           o2 == IF Len(es) >= 2 THEN handle_event(o1, es[2]) ELSE o1
<1>0. /\ Len(es) >= 1 => es[1] \in LiveEvent
      /\ Len(es) >= 2 => es[2] \in LiveEvent
      /\ Len(es) >= 3 => es[3] \in LiveEvent
  OBVIOUS
<1>1. o1 \in LiveOrder
  BY <1>0, HandleType
<1>2. o2 \in LiveOrder
  <2> HIDE DEF o1
  <2> QED
    BY <1>0, <1>1, HandleType DEF o2
<1>3. (IF Len(es) >= 3 THEN handle_event(o2, es[3]) ELSE o2) \in LiveOrder
  <2> HIDE DEF o1, o2
  <2> QED
    BY <1>0, <1>2, HandleType
<1> QED
  BY <1>3 DEF handle_events

(* Events none of which is a fill leave the filled quantity alone; a fill at *)
(* their end adds its own quantity or is refused.                            *)
LEMMA HandleAllFilledQty ==
    ASSUME NEW o \in LiveOrder, NEW es \in Seq(LiveEvent), Len(es) <= 3,
           NEW q \in Int,
           \A i \in 1 .. Len(es) : es[i].type = "Filled" => i = Len(es) /\ es[i].qty = q
    PROVE  /\ handle_events(o, es).filled_qty \in {o.filled_qty, o.filled_qty + q}
           /\ (\A i \in 1 .. Len(es) : es[i].type # "Filled")
                 => handle_events(o, es).filled_qty = o.filled_qty
<1> DEFINE o1 == IF Len(es) >= 1 THEN handle_event(o, es[1]) ELSE o
           o2 == IF Len(es) >= 2 THEN handle_event(o1, es[2]) ELSE o1
           o3 == IF Len(es) >= 3 THEN handle_event(o2, es[3]) ELSE o2
<1>0. /\ Len(es) >= 1 => es[1] \in LiveEvent
      /\ Len(es) >= 2 => es[2] \in LiveEvent
      /\ Len(es) >= 3 => es[3] \in LiveEvent
  OBVIOUS
<1>q. /\ Len(es) >= 1 /\ es[1].type = "Filled" => Len(es) = 1 /\ es[1].qty = q
      /\ Len(es) >= 2 /\ es[2].type = "Filled" => Len(es) = 2 /\ es[2].qty = q
      /\ Len(es) >= 3 /\ es[3].type = "Filled" => Len(es) = 3 /\ es[3].qty = q
  <2>0. Len(es) \in Nat
    OBVIOUS
  <2>1. /\ Len(es) >= 1 => 1 \in 1 .. Len(es)
        /\ Len(es) >= 2 => 2 \in 1 .. Len(es)
        /\ Len(es) >= 3 => 3 \in 1 .. Len(es)
    BY <2>0
  <2> QED
    BY <2>1
<1>1. o1 \in LiveOrder
  BY <1>0, HandleType
<1>2. \/ o1.filled_qty = o.filled_qty
      \/ Len(es) = 1 /\ es[1].type = "Filled" /\ o1.filled_qty = o.filled_qty + q
  BY <1>0, <1>q, HandleFilledQty
<1>3. o2 \in LiveOrder
  <2> HIDE DEF o1
  <2> QED
    BY <1>0, <1>1, HandleType DEF o2
<1>4. \/ o2.filled_qty = o1.filled_qty
      \/ Len(es) = 2 /\ es[2].type = "Filled" /\ o2.filled_qty = o1.filled_qty + q
  <2> HIDE DEF o1
  <2> QED
    BY <1>0, <1>q, <1>1, HandleFilledQty DEF o2
<1>5. \/ o3.filled_qty = o2.filled_qty
      \/ Len(es) = 3 /\ es[3].type = "Filled" /\ o3.filled_qty = o2.filled_qty + q
  <2> HIDE DEF o1, o2
  <2> QED
    BY <1>0, <1>q, <1>3, HandleFilledQty DEF o3
<1>6. handle_events(o, es) = o3
  BY DEF handle_events
<1>7. Len(es) = 1 => o2 = o1 /\ o3 = o1
  OBVIOUS
<1>8. Len(es) = 2 => o3 = o2
  OBVIOUS
<1> HIDE DEF o1, o2, o3
<1>9. o3.filled_qty \in {o.filled_qty, o.filled_qty + q}
  BY <1>2, <1>4, <1>5, <1>7, <1>8
<1>10. ASSUME \A i \in 1 .. Len(es) : es[i].type # "Filled"
       PROVE  o3.filled_qty = o.filled_qty
  <2>1. /\ Len(es) = 1 => es[1].type # "Filled"
        /\ Len(es) = 2 => es[2].type # "Filled"
        /\ Len(es) = 3 => es[3].type # "Filled"
    BY <1>10
  <2> QED
    BY <2>1, <1>2, <1>4, <1>5
<1> QED
  BY <1>6, <1>9, <1>10

(* Events without a fill leave the filled quantity as it is. *)
LEMMA NoFillKeeps ==
    ASSUME NEW o \in LiveOrder, NEW es \in Seq(LiveEvent), Len(es) <= 3,
           \A i \in 1 .. Len(es) : es[i].type # "Filled"
    PROVE  handle_events(o, es) \in LiveOrder /\ handle_events(o, es).filled_qty = o.filled_qty
<1>1. handle_events(o, es) \in LiveOrder
  BY HandleAllType
<1>2. 0 \in Int /\ \A i \in 1 .. Len(es) : es[i].type = "Filled" => i = Len(es) /\ es[i].qty = 0
  OBVIOUS
<1>3. handle_events(o, es).filled_qty = o.filled_qty
  BY <1>2, HandleAllFilledQty
<1> QED
  BY <1>1, <1>3

-----------------------------------------------------------------------------
(* The events a report is turned into. *)

(* Events without a trade are events. *)
LEMMA PlainEvents ==
    /\ \A t \in EventType : Plain(t) \in LiveEvent /\ Plain(t).type = t
    /\ \A q \in Nat : Update(q) \in LiveEvent /\ Update(q).type = "Updated"
    /\ \A t \in Int, q \in Nat :
           Fill(t, q) \in LiveEvent /\ Fill(t, q).type = "Filled" /\ Fill(t, q).qty = q
BY DEF Plain, Update, Fill, LiveEvent, EventType, Status, Closed

(* A list of at most one event, a fill of q if it is a fill. *)
AtMostOne(es, q) ==
    \/ es = << >>
    \/ \E e \in LiveEvent : es = << e >> /\ (e.type = "Filled" => e.qty = q)

(* reconcile_order_report yields at most one event; its fill is what the *)
(* report has over the order.                                            *)
LEMMA ReconcileYields ==
    ASSUME LiveAssumption, NEW o \in LiveOrder, NEW r \in Reports
    PROVE  AtMostOne(reconcile_order_report(o, r), r.filled - o.filled_qty)
<1> DEFINE q == r.filled - o.filled_qty
<1>1. r.qty \in Nat /\ r.filled \in Nat /\ o.filled_qty \in Nat
  BY DEF Reports, LiveOrder, Quantities, LiveAssumption
<1>2. AtMostOne(<< Update(r.qty) >>, q)
  BY <1>1, PlainEvents DEF AtMostOne
<1>3. ASSUME r.filled > o.filled_qty
      PROVE  AtMostOne(<< create_incremental_inferred_fill(o, r) >>, q)
  <2>1. q \in Nat /\ -r.filled \in Int
    BY <1>1, <1>3
  <2> QED
    BY <2>1, PlainEvents DEF AtMostOne, create_incremental_inferred_fill
<1>4. AtMostOne(<< >>, q)
  BY DEF AtMostOne
<1>5. AtMostOne(reconcile_fill_quantity_mismatch(o, r), q)
  <2> HIDE DEF q
  <2>1. CASE r.filled > o.filled_qty
    BY <2>1, <1>1, <1>3, <1>4 DEF reconcile_fill_quantity_mismatch
  <2>2. CASE ~(r.filled > o.filled_qty)
    BY <2>2, <1>1, <1>2, <1>4 DEF reconcile_fill_quantity_mismatch
  <2> QED
    BY <2>1, <2>2
<1>6. ASSUME r.status \notin Pending, r.status \notin {"PartiallyFilled", "Filled"}
      PROVE  AtMostOne(<< Plain(r.status) >>, q)
  <2>1. r.status \in EventType /\ r.status # "Filled"
    BY <1>6 DEF Reports, VenueState, EventType, Status, Open, Closed
  <2> QED
    BY <2>1, PlainEvents DEF AtMostOne
<1> HIDE DEF q
<1>7. AtMostOne(reconcile_order_report(o, r), q)
  BY <1>2, <1>4, <1>5, <1>6 DEF reconcile_order_report
<1> QED
  BY <1>7 DEF q

(* The events of a whole report: at most three, none before the last a fill, *)
(* and a fill of what the report has over the order.                         *)
LEMMA ReportYields ==
    ASSUME LiveAssumption, NEW o \in LiveOrder, NEW r \in Reports
    PROVE  LET es == generate_reconciliation_order_events(o, r)
           IN  /\ es \in Seq(LiveEvent) /\ Len(es) <= 3
               /\ \A i \in 1 .. Len(es) :
                      es[i].type = "Filled"
                          => i = Len(es) /\ es[i].qty = r.filled - o.filled_qty
<1> DEFINE accept == IF o.status = "Submitted" /\ r.status # "Rejected"
                     THEN << Plain("Accepted") >> ELSE << >>
           o1     == handle_events(o, accept)
           amend  == IF /\ r.status \in {"Accepted", "PartiallyFilled", "Filled"}
                        /\ o1.status \in {"Accepted", "PartiallyFilled"}
                        /\ should_reconciliation_update(o1, r)
                     THEN << Update(r.qty) >> ELSE << >>
           o2     == handle_events(o1, amend)
           rec    == reconcile_order_report(o2, r)
           q      == r.filled - o.filled_qty
<1>0. r.qty \in Nat /\ q \in Int
  <2>1. r.qty \in Nat
    BY DEF Reports, Quantities, LiveAssumption
  <2>2. r.filled \in Nat /\ o.filled_qty \in Nat
    BY DEF Reports, LiveOrder
  <2> QED
    BY <2>1, <2>2
<1>1. \/ accept = << >>
      \/ \E e \in LiveEvent : accept = << e >> /\ e.type # "Filled"
  BY PlainEvents DEF EventType, Status, Open
<1>2. /\ accept \in Seq(LiveEvent) /\ Len(accept) <= 1
      /\ \A i \in 1 .. Len(accept) : accept[i].type # "Filled"
  BY <1>1
<1> HIDE DEF accept
<1>3. o1 \in LiveOrder /\ o1.filled_qty = o.filled_qty
  BY <1>2, NoFillKeeps
<1> HIDE DEF o1
<1>4. \/ amend = << >>
      \/ \E e \in LiveEvent : amend = << e >> /\ e.type # "Filled"
  BY <1>0, PlainEvents
<1>5. /\ amend \in Seq(LiveEvent) /\ Len(amend) <= 1
      /\ \A i \in 1 .. Len(amend) : amend[i].type # "Filled"
  BY <1>4
<1> HIDE DEF amend
<1>6. o2 \in LiveOrder /\ o2.filled_qty = o.filled_qty
  BY <1>3, <1>5, NoFillKeeps
<1> HIDE DEF o2
<1>7. AtMostOne(rec, q)
  BY <1>6, ReconcileYields
<1> HIDE DEF rec, q
<1>8. /\ rec \in Seq(LiveEvent) /\ Len(rec) <= 1
      /\ \A i \in 1 .. Len(rec) : rec[i].type = "Filled" => rec[i].qty = q
  <2>1. CASE rec = << >>
    BY <2>1
  <2>2. ASSUME NEW e \in LiveEvent, rec = << e >>, e.type = "Filled" => e.qty = q
        PROVE  /\ rec \in Seq(LiveEvent) /\ Len(rec) <= 1
               /\ \A i \in 1 .. Len(rec) : rec[i].type = "Filled" => rec[i].qty = q
    BY <2>2
  <2> QED
    BY <2>1, <2>2, <1>7 DEF AtMostOne
<1> DEFINE es == accept \o amend \o rec
<1>9. es \in Seq(LiveEvent) /\ Len(es) = Len(accept) + Len(amend) + Len(rec) /\ Len(es) <= 3
  BY <1>2, <1>5, <1>8
<1>10. ASSUME NEW i \in 1 .. Len(es), es[i].type = "Filled"
       PROVE  i = Len(es) /\ es[i].qty = q
  <2>1. CASE i <= Len(accept)
    <3>1. i \in 1 .. Len(accept) /\ es[i] = accept[i]
      BY <2>1, <1>2, <1>5, <1>8
    <3> QED
      BY <3>1, <1>10, <1>2
  <2>2. CASE i > Len(accept) /\ i <= Len(accept) + Len(amend)
    <3>1. i - Len(accept) \in 1 .. Len(amend) /\ es[i] = amend[i - Len(accept)]
      BY <2>2, <1>2, <1>5, <1>8
    <3> QED
      BY <3>1, <1>10, <1>5
  <2>3. CASE i > Len(accept) + Len(amend)
    <3> DEFINE j == i - Len(accept) - Len(amend)
    <3>1. j \in 1 .. Len(rec) /\ es[i] = rec[j] /\ i = Len(es)
      BY <2>3, <1>2, <1>5, <1>8, <1>9
    <3> QED
      BY <3>1, <1>10, <1>8
  <2> QED
    BY <2>1, <2>2, <2>3, <1>2, <1>5, <1>9
<1>11. generate_reconciliation_order_events(o, r) = es
  BY DEF generate_reconciliation_order_events, accept, o1, amend, o2, rec
<1> HIDE DEF es
<1> QED
  BY <1>9, <1>10, <1>11 DEF q

-----------------------------------------------------------------------------
(* Messages under way. *)

(* The reports in a channel count at most f. *)
CountsAtMost(es, f) ==
    \A i \in DOMAIN es : es[i].kind = "report" => es[i].report.filled <= f

(* A message handled, or an event or an old enough report added, keeps it. *)
LEMMA ChannelKept ==
    ASSUME NEW es \in Seq(Message), NEW f \in Nat, NEW g \in Nat, f <= g,
           CountsAtMost(es, f)
    PROVE  /\ CountsAtMost(es, g)
           /\ es # << >> => Tail(es) \in Seq(Message) /\ CountsAtMost(Tail(es), g)
           /\ \A m \in Message : (m.kind = "report" => m.report.filled <= g)
                  => Append(es, m) \in Seq(Message) /\ CountsAtMost(Append(es, m), g)
<1>1. \A i \in DOMAIN es : es[i].kind = "report" => es[i].report.filled \in Nat
  <2> SUFFICES ASSUME NEW i \in DOMAIN es, es[i].kind = "report"
               PROVE  es[i].report.filled \in Nat
    OBVIOUS
  <2>1. es[i] \in Message
    OBVIOUS
  <2>2. es[i] \in [kind : {"report"}, report : Reports]
    BY <2>1 DEF Message
  <2>3. es[i].report \in Reports
    BY <2>2
  <2> QED
    BY <2>3 DEF Reports
<1>2. CountsAtMost(es, g)
  BY <1>1 DEF CountsAtMost
<1>3. ASSUME es # << >>
      PROVE  Tail(es) \in Seq(Message) /\ CountsAtMost(Tail(es), g)
  <2>1. Tail(es) \in Seq(Message)
    BY <1>3
  <2>2. \A i \in DOMAIN Tail(es) : i + 1 \in DOMAIN es /\ Tail(es)[i] = es[i + 1]
    BY <1>3
  <2> QED
    BY <2>1, <2>2, <1>2 DEF CountsAtMost
<1>4. ASSUME NEW m \in Message, m.kind = "report" => m.report.filled <= g
      PROVE  Append(es, m) \in Seq(Message) /\ CountsAtMost(Append(es, m), g)
  <2>1. Append(es, m) \in Seq(Message)
    OBVIOUS
  <2>2. \A i \in DOMAIN Append(es, m) :
            (i \in DOMAIN es /\ Append(es, m)[i] = es[i]) \/ Append(es, m)[i] = m
    OBVIOUS
  <2> QED
    BY <2>1, <2>2, <1>2, <1>4 DEF CountsAtMost
<1> QED
  BY <1>2, <1>3, <1>4

(* Events and reports are messages. *)
LEMMA Messages ==
    /\ \A e \in LiveEvent : Evented(e) \in Message /\ Evented(e).kind = "event"
    /\ \A r \in Reports : /\ Reported(r) \in Message /\ Reported(r).kind = "report"
                          /\ Reported(r).report = r
                          /\ Reported(r) \in [kind : {"report"}, report : Reports]
BY DEF Evented, Reported, Message

(* What the venue says of itself is a report that counts what it has filled. *)
LEMMA VenueReportsTrue ==
    ASSUME LiveAssumption, TypeOK, venue.state # "None", NEW r \in VenueReports
    PROVE  r \in Reports /\ r.filled = venue.filled
<1>1. venue.state \in VenueState \ {"None"} /\ venue.qty \in Quantities /\ venue.filled \in Nat
  BY DEF TypeOK
<1>2. r.qty = venue.qty /\ r.filled = venue.filled
  BY DEF VenueReports
<1>3. r.status \in (VenueState \ {"None"}) \cup {"PartiallyFilled"} \cup Pending
  BY <1>1 DEF VenueReports, Pending
<1>4. r = [status |-> r.status, qty |-> r.qty, filled |-> r.filled]
  BY DEF VenueReports
<1> QED
  BY <1>1, <1>2, <1>3, <1>4 DEF Reports

(* A report leaves an order, with its own filled quantity or the report's. *)
LEMMA ReportHandled ==
    ASSUME LiveAssumption, TypeOK, NEW r \in Reports,
           \/ handle_report(r)
           \/ reconcile_open_order(r)
    PROVE  /\ order' \in LiveOrder /\ crashed' \in BOOLEAN /\ recent' \in BOOLEAN
           /\ order'.filled_qty \in {order.filled_qty, r.filled}
           /\ \/ tracking' = tracking /\ retries' = retries
              \/ clear_recon_tracking
<1> DEFINE q  == r.filled - order.filled_qty
           es == generate_reconciliation_order_events(order, r)
           fs == reconcile_order_report(order, r)
<1>0. order \in LiveOrder /\ order.filled_qty \in Nat /\ r.filled \in Nat /\ recent \in BOOLEAN
  BY DEF TypeOK, LiveOrder, Reports
<1>1. q \in Int /\ order.filled_qty + q = r.filled
  BY <1>0
<1>2. /\ handle_events(order, es) \in LiveOrder
      /\ handle_events(order, es).filled_qty \in {order.filled_qty, r.filled}
  <2>1. /\ es \in Seq(LiveEvent) /\ Len(es) <= 3
        /\ \A i \in 1 .. Len(es) : es[i].type = "Filled" => i = Len(es) /\ es[i].qty = q
    BY <1>0, ReportYields
  <2> HIDE DEF es, q
  <2> QED
    BY <2>1, <1>0, <1>1, HandleAllType, HandleAllFilledQty
<1>3. /\ handle_events(order, fs) \in LiveOrder
      /\ handle_events(order, fs).filled_qty \in {order.filled_qty, r.filled}
  <2>1. AtMostOne(fs, q)
    BY <1>0, ReconcileYields
  <2> HIDE DEF fs, q
  <2>2. CASE fs = << >>
    <3>1. handle_events(order, fs) = order
      BY <2>2 DEF handle_events
    <3> QED
      BY <3>1, <1>0
  <2>3. ASSUME NEW e \in LiveEvent, fs = << e >>, e.type = "Filled" => e.qty = q
        PROVE  /\ handle_events(order, fs) \in LiveOrder
               /\ handle_events(order, fs).filled_qty \in {order.filled_qty, r.filled}
    <3>1. handle_events(order, fs) = handle_event(order, e)
      BY <2>3 DEF handle_events
    <3> QED
      BY <3>1, <2>3, <1>0, <1>1, HandleType, HandleFilledQty
  <2> QED
    BY <2>1, <2>2, <2>3 DEF AtMostOne
<1> HIDE DEF es, fs, q
<1>4. CASE handle_report(r)
  <2>1. order' \in {order, handle_events(order, es)}
    BY <1>4 DEF handle_report, es
  <2>2. crashed' \in BOOLEAN
    BY <1>4 DEF handle_report, create_accepted_panics
  <2> QED
    BY <2>1, <2>2, <1>0, <1>2, <1>4 DEF handle_report, observe_execution_report
<1>5. CASE reconcile_open_order(r)
  <2>1. order' \in {order, handle_events(order, fs)}
    BY <1>5 DEF reconcile_open_order, process_reconciliation_events, fs
  <2>2. crashed' \in BOOLEAN
    BY <1>5 DEF reconcile_open_order
  <2>3. recent' \in BOOLEAN
    BY <1>5, <1>0 DEF reconcile_open_order, process_reconciliation_events
  <2> QED
    BY <2>1, <2>2, <2>3, <1>0, <1>3, <1>5 DEF reconcile_open_order
<1> QED
  BY <1>4, <1>5

-----------------------------------------------------------------------------
(* The inductive invariant. *)

(* It holds of a node that has just been asked to submit the order. *)
LEMMA LiveInitInv ==
    ASSUME LiveAssumption, Init
    PROVE  LiveInv
<1>1. order \in LiveOrder
  <2>1. Quantity \in Nat /\ "Initialized" \in Status
    BY DEF LiveAssumption, Status, ActiveLocal
  <2> QED
    BY <2>1 DEF Init, NewOrder, LiveOrder
<1>2. TypeOK
  <2>1. Quantity \in Quantities /\ [kind |-> "submit", qty |-> Quantity] \in Request
    BY DEF Quantities, Request
  <2>2. tracking \in [on : BOOLEAN, retry_count : 0 .. inflight_max_retries]
    BY DEF Init, Untracked, LiveAssumption
  <2>3. asked \in 0 .. MaxRequests /\ retries \in Nat
    BY DEF Init, LiveAssumption
  <2>4. venue \in [state : VenueState, qty : Quantities, filled : Nat]
    BY <2>1 DEF Init, VenueState
  <2>5. commands \in Seq(Request) /\ events \in Seq(Message)
    BY <2>1 DEF Init
  <2>6. {recent, crashed} \subseteq BOOLEAN
    BY DEF Init
  <2> QED
    BY <1>1, <2>2, <2>3, <2>4, <2>5, <2>6 DEF Init, TypeOK
<1>3. ReportsTrue
  BY DEF Init, ReportsTrue, Idle
<1> QED
  BY <1>2, <1>3 DEF LiveInv

(* What the strategy and the node's own checks leave of the messages. *)
NodeKeeps == UNCHANGED <<venue, answers>> /\ (awaiting' = awaiting \/ awaiting' \in {Idle, Missing})

(* A node that takes no report in keeps the reports it has. *)
LEMMA NodeReports ==
    ASSUME LiveInv, NodeKeeps,
           \/ events' = events
           \/ events # << >> /\ events' = Tail(events)
           \/ \E e \in LiveEvent : events' = << Evented(e) >>
    PROVE  ReportsTrue' /\ events' \in Seq(Message)
<1>1. events \in Seq(Message) /\ venue.filled \in Nat
  BY DEF LiveInv, TypeOK
<1>2. CountsAtMost(events, venue.filled)
  BY DEF LiveInv, ReportsTrue, CountsAtMost
<1>3. CountsAtMost(events', venue.filled) /\ events' \in Seq(Message)
  <2>1. CASE events' = events
    BY <2>1, <1>1, <1>2
  <2>2. CASE events # << >> /\ events' = Tail(events)
    <3>1. venue.filled <= venue.filled
      BY <1>1
    <3> QED
      BY <2>2, <3>1, <1>1, <1>2, ChannelKept
  <2>3. CASE \E e \in LiveEvent : events' = << Evented(e) >>
    <3>1. PICK e \in LiveEvent : events' = << Evented(e) >>
      BY <2>3
    <3>2. Evented(e) \in Message /\ Evented(e).kind = "event"
      BY Messages
    <3> QED
      BY <3>1, <3>2 DEF CountsAtMost
  <2> QED
    BY <2>1, <2>2, <2>3
<1>4. venue' = venue /\ answers' = answers
  BY DEF NodeKeeps
<1>5. awaiting'.kind = "report" => awaiting' = awaiting
  BY DEF NodeKeeps, Idle, Missing
<1> QED
  BY <1>3, <1>4, <1>5 DEF LiveInv, ReportsTrue, CountsAtMost

(* Asking for a modification or a cancel. *)
LEMMA RequestInv ==
    ASSUME LiveAssumption, LiveInv, NEW t \in Pending, NEW c \in Request, Requested(t, c)
    PROVE  LiveInv'
<1>1. t \in EventType /\ Plain(t) \in LiveEvent /\ t # "Filled"
  BY PlainEvents DEF Pending, EventType, Status, Open
<1>2. order' = handle_event(order, Plain(t))
  BY <1>1, PlainEvents DEF Requested, handle_event
<1>3. order' \in LiveOrder
  BY <1>1, <1>2, HandleType DEF LiveInv, TypeOK
<1>4. ReportsTrue'
  BY NodeReports DEF Requested, NodeKeeps, venueVars
<1>5. asked' \in 0 .. MaxRequests
  BY DEF Requested, LiveInv, TypeOK, LiveAssumption
<1>6. commands' \in Seq(Request)
  BY DEF Requested, LiveInv, TypeOK
<1> QED
  BY <1>3, <1>4, <1>5, <1>6 DEF Requested, LiveInv, TypeOK, managerVars, venueVars

(* Sending a command to the venue. *)
LEMMA CommandInv ==
    ASSUME LiveAssumption, LiveInv, handle_exec_command
    PROVE  LiveInv'
<1>1. "Submitted" \in EventType
  BY DEF EventType, Status
<1>2. ReportsTrue' /\ events' \in Seq(Message)
  BY <1>1, PlainEvents, NodeReports DEF handle_exec_command, NodeKeeps
<1>3. Head(commands) \in Request /\ Tail(commands) \in Seq(Request)
  BY DEF handle_exec_command, LiveInv, TypeOK
<1>4. inbox' \subseteq Request /\ commands' \in Seq(Request)
  BY <1>3 DEF handle_exec_command, LiveInv, TypeOK
<1>5. tracking' \in [on : BOOLEAN, retry_count : 0 .. inflight_max_retries] /\ retries' \in Nat
  BY DEF handle_exec_command, register_inflight, LiveAssumption
<1>6. {recent', crashed'} \subseteq BOOLEAN
  BY DEF handle_exec_command, register_inflight, LiveInv, TypeOK
<1> QED
  BY <1>2, <1>4, <1>5, <1>6 DEF handle_exec_command, LiveInv, TypeOK

(* Stopping to track the order. *)
LEMMA Cleared ==
    ASSUME LiveAssumption, TypeOK,
           \/ tracking' = tracking /\ retries' = retries
           \/ clear_recon_tracking
    PROVE  /\ tracking' \in [on : BOOLEAN, retry_count : 0 .. inflight_max_retries]
           /\ retries' \in Nat
<1>1. CASE tracking' = tracking /\ retries' = retries
  BY <1>1 DEF TypeOK
<1>2. CASE clear_recon_tracking
  <2>1. 0 \in 0 .. inflight_max_retries
    BY DEF LiveAssumption
  <2> QED
    BY <1>2, <2>1 DEF clear_recon_tracking, Untracked
<1> QED
  BY <1>1, <1>2

(* Handling an event or a report from the channel. *)
LEMMA EventInv ==
    ASSUME LiveAssumption, LiveInv, handle_exec_event
    PROVE  LiveInv'
<1> DEFINE m == Head(events)
<1>1. m \in Message /\ events # << >> /\ events' = Tail(events)
  BY DEF handle_exec_event, LiveInv, TypeOK
<1>2. ReportsTrue' /\ events' \in Seq(Message)
  BY <1>1, NodeReports DEF handle_exec_event, NodeKeeps, venueVars
<1>3. /\ order' \in LiveOrder /\ crashed' \in BOOLEAN /\ recent' \in BOOLEAN
      /\ \/ tracking' = tracking /\ retries' = retries
         \/ clear_recon_tracking
  <2>1. CASE m.kind = "event" /\ handle_order_event(m.event)
    <3>1. m \in [kind : {"event"}, event : LiveEvent]
      BY <1>1, <2>1 DEF Message
    <3>2. m.event \in LiveEvent
      BY <3>1
    <3>3. order' \in LiveOrder
      BY <2>1, <3>2, HandleType DEF handle_order_event, LiveInv, TypeOK
    <3> QED
      BY <2>1, <3>3 DEF handle_order_event, LiveInv, TypeOK
  <2>2. CASE m.kind = "report" /\ handle_report(m.report)
    <3>1. m \in [kind : {"report"}, report : Reports]
      BY <1>1, <2>2 DEF Message
    <3>2. m.report \in Reports
      BY <3>1
    <3> QED
      BY <2>2, <3>2, ReportHandled DEF LiveInv
  <2> QED
    BY <2>1, <2>2 DEF handle_exec_event
<1>4. /\ tracking' \in [on : BOOLEAN, retry_count : 0 .. inflight_max_retries]
      /\ retries' \in Nat
  BY <1>3, Cleared DEF LiveInv
<1> QED
  BY <1>2, <1>3, <1>4 DEF handle_exec_event, LiveInv, TypeOK, venueVars

(* The in-flight check: what it resolves an order with is an event. *)
LEMMA ResolutionType ==
    \A o \in LiveOrder : inflight_resolution(o) \in Seq(LiveEvent)
<1>1. Plain("Rejected") \in LiveEvent /\ Plain("Canceled") \in LiveEvent
  BY PlainEvents DEF EventType, Status, Closed
<1> QED
  BY <1>1 DEF inflight_resolution

(* The in-flight check, below the limit and at it. *)
LEMMA InflightInv ==
    ASSUME LiveAssumption, LiveInv, check_inflight_orders
    PROVE  LiveInv'
<1>1. ReportsTrue' /\ events' \in Seq(Message)
  BY NodeReports DEF check_inflight_orders, NodeKeeps
<1>2. [kind |-> "query", qty |-> Quantity] \in Request
  BY DEF Request, Quantities
<1> DEFINE n == tracking.retry_count + 1
<1>3. n \in Nat /\ tracking.retry_count \in 0 .. inflight_max_retries /\ order \in LiveOrder
  BY DEF LiveInv, TypeOK, LiveAssumption
<1>4. /\ order' \in LiveOrder /\ recent' \in BOOLEAN /\ retries' \in Nat
      /\ inbox' \subseteq Request
      /\ tracking' \in [on : BOOLEAN, retry_count : 0 .. inflight_max_retries]
  <2>1. CASE /\ n < inflight_max_retries
             /\ tracking' = [tracking EXCEPT !.retry_count = n]
             /\ retries' = n
             /\ inbox' = inbox \cup {[kind |-> "query", qty |-> Quantity]}
             /\ UNCHANGED <<order, recent>>
    <3>1. n \in 0 .. inflight_max_retries
      BY <2>1, <1>3 DEF LiveAssumption
    <3> HIDE DEF n
    <3> QED
      BY <2>1, <3>1, <1>2, <1>3 DEF LiveInv, TypeOK
  <2>2. CASE /\ clear_recon_tracking
             /\ process_reconciliation_events(inflight_resolution(order))
             /\ UNCHANGED inbox
    <3>1. order' \in LiveOrder
      BY <2>2, <1>3, ResolutionType, HandleAllType DEF process_reconciliation_events
    <3>2. recent' \in BOOLEAN
      BY <2>2 DEF process_reconciliation_events
    <3> QED
      BY <2>2, <3>1, <3>2, Cleared DEF LiveInv, TypeOK
  <2> QED
    BY <2>1, <2>2 DEF check_inflight_orders
<1> QED
  BY <1>1, <1>4 DEF check_inflight_orders, LiveInv, TypeOK

(* Sending an open order query, and its answer. *)
LEMMA QueryInv ==
    ASSUME LiveAssumption, LiveInv, query_open_orders \/ query_open_orders_fails
    PROVE  LiveInv'
<1>1. \/ awaiting' = Missing
      \/ \E r \in Reports : awaiting' = Reported(r) /\ r.filled = venue.filled
  <2>1. CASE query_open_orders /\ awaiting' # Missing
    <3>1. venue.state # "None" /\ \E r \in VenueReports : awaiting' = Reported(r)
      BY <2>1 DEF query_open_orders
    <3> QED
      BY <3>1, VenueReportsTrue DEF LiveInv
  <2>2. CASE query_open_orders_fails
    BY <2>2 DEF query_open_orders_fails
  <2> QED
    BY <2>1, <2>2
<1>2. UNCHANGED <<order, commands, events, managerVars, crashed, asked, venueVars>>
  BY DEF query_open_orders, query_open_orders_fails
<1>3. awaiting' \in {Idle, Missing} \cup [kind : {"report"}, report : Reports]
  BY <1>1, Messages
<1>4. awaiting'.kind = "report" => awaiting'.report.filled <= venue.filled
  <2>1. CASE awaiting' = Missing
    BY <2>1 DEF Missing
  <2>2. CASE \E r \in Reports : awaiting' = Reported(r) /\ r.filled = venue.filled
    <3>1. awaiting'.report.filled = venue.filled /\ venue.filled \in Nat
      BY <2>2, Messages DEF LiveInv, TypeOK
    <3> QED
      BY <3>1
  <2> QED
    BY <1>1, <2>1, <2>2
<1>5. TypeOK'
  BY <1>2, <1>3 DEF LiveInv, TypeOK, managerVars, venueVars
<1>6. ReportsTrue'
  BY <1>2, <1>4 DEF LiveInv, ReportsTrue, venueVars
<1> QED
  BY <1>5, <1>6 DEF LiveInv

(* The order the venue did not report. *)
LEMMA MissingHandled ==
    ASSUME LiveAssumption, TypeOK, NEW tooRecent \in BOOLEAN, missing_check(tooRecent)
    PROVE  /\ order' \in LiveOrder /\ recent' \in BOOLEAN /\ retries' \in Nat
           /\ order'.filled_qty = order.filled_qty
           /\ tracking' \in [on : BOOLEAN, retry_count : 0 .. inflight_max_retries]
<1>0. order \in LiveOrder /\ recent \in BOOLEAN /\ retries \in Nat
  BY DEF TypeOK
<1>1. CASE UNCHANGED <<order, managerVars>>
  BY <1>1 DEF TypeOK, managerVars
<1>2. CASE handle_missing_order
  <2>1. Plain("Rejected") \in LiveEvent /\ Plain("Rejected").type # "Filled"
    BY PlainEvents DEF EventType, Status, Closed
  <2>2. order' = handle_event(order, Plain("Rejected"))
    BY <1>2 DEF handle_missing_order, process_reconciliation_events, handle_events
  <2>3. order' \in LiveOrder /\ order'.filled_qty = order.filled_qty
    BY <2>1, <2>2, <1>0, HandleType, HandleFilledQty
  <2>4. recent' \in BOOLEAN
    BY <1>2 DEF handle_missing_order, process_reconciliation_events
  <2> QED
    BY <2>3, <2>4, <1>2, Cleared DEF handle_missing_order
<1>3. CASE retries' = retries + 1 /\ UNCHANGED <<order, tracking, recent>>
  BY <1>3, <1>0 DEF TypeOK
<1> QED
  BY <1>1, <1>2, <1>3 DEF missing_check

(* Acting on the answer of the open order query. *)
LEMMA FinishInv ==
    ASSUME LiveAssumption, LiveInv, finish_open_check
    PROVE  LiveInv'
<1>1. ReportsTrue' /\ events' \in Seq(Message)
  BY NodeReports DEF finish_open_check, NodeKeeps, venueVars
<1>2. /\ order' \in LiveOrder /\ {recent', crashed'} \subseteq BOOLEAN /\ retries' \in Nat
      /\ tracking' \in [on : BOOLEAN, retry_count : 0 .. inflight_max_retries]
  <2>1. CASE awaiting.kind = "report" /\ reconcile_open_order(awaiting.report)
    <3>1. awaiting \in [kind : {"report"}, report : Reports]
      BY <2>1 DEF LiveInv, TypeOK, Idle, Missing
    <3>2. awaiting.report \in Reports
      BY <3>1
    <3>3. /\ order' \in LiveOrder /\ crashed' \in BOOLEAN /\ recent' \in BOOLEAN
          /\ \/ tracking' = tracking /\ retries' = retries
             \/ clear_recon_tracking
      BY <2>1, <3>2, ReportHandled DEF LiveInv
    <3> QED
      BY <3>3, Cleared DEF LiveInv
  <2>2. CASE (\E tooRecent \in BOOLEAN : missing_check(tooRecent)) /\ UNCHANGED crashed
    <3>1. PICK tooRecent \in BOOLEAN : missing_check(tooRecent)
      BY <2>2
    <3> QED
      BY <2>2, <3>1, MissingHandled DEF LiveInv, TypeOK
  <2> QED
    BY <2>1, <2>2 DEF finish_open_check
<1> QED
  BY <1>1, <1>2 DEF finish_open_check, LiveInv, TypeOK, venueVars

(* The venue: its filled quantity never goes down, and its events and      *)
(* answers join messages that were true before.                            *)
LEMMA VenueKeeps ==
    ASSUME LiveInv, UNCHANGED nodeVars, inbox' \subseteq Request,
           venue' \in [state : VenueState, qty : Quantities, filled : Nat],
           venue.filled <= venue'.filled,
           answers' \subseteq Reports,
           \A r \in answers' : r \in answers \/ r.filled <= venue'.filled,
           \/ events' = events
           \/ \E m \in Message : /\ m.kind = "report" => m.report.filled <= venue'.filled
                                 /\ events' = Append(events, m)
    PROVE  LiveInv'
<1>1. events \in Seq(Message) /\ venue.filled \in Nat /\ venue'.filled \in Nat
  BY DEF LiveInv, TypeOK
<1>2. CountsAtMost(events, venue.filled)
  BY DEF LiveInv, ReportsTrue, CountsAtMost
<1>3. CountsAtMost(events', venue'.filled) /\ events' \in Seq(Message)
  <2> DEFINE g == venue'.filled
  <2>1. g \in Nat /\ venue.filled <= g
    BY <1>1
  <2> HIDE DEF g
  <2>2. /\ CountsAtMost(events, g)
        /\ \A m \in Message : (m.kind = "report" => m.report.filled <= g)
               => Append(events, m) \in Seq(Message) /\ CountsAtMost(Append(events, m), g)
    BY <2>1, <1>1, <1>2, ChannelKept
  <2>3. CASE events' = events
    BY <2>2, <2>3, <1>1 DEF g
  <2>4. CASE \E m \in Message : /\ m.kind = "report" => m.report.filled <= g
                                /\ events' = Append(events, m)
    BY <2>2, <2>4 DEF g
  <2> QED
    BY <2>3, <2>4 DEF g
<1>4. \A r \in answers' : r.filled <= venue'.filled
  <2> SUFFICES ASSUME NEW r \in answers', r \in answers PROVE r.filled <= venue'.filled
    OBVIOUS
  <2>1. r.filled \in Nat /\ r.filled <= venue.filled
    BY DEF LiveInv, TypeOK, ReportsTrue, Reports
  <2> QED
    BY <2>1, <1>1
<1>5. awaiting'.kind = "report" => awaiting'.report.filled <= venue'.filled
  <2> SUFFICES ASSUME awaiting.kind = "report" PROVE awaiting.report.filled <= venue'.filled
    BY DEF nodeVars
  <2>1. awaiting \in [kind : {"report"}, report : Reports]
    BY DEF LiveInv, TypeOK, Idle, Missing
  <2>2. awaiting.report.filled \in Nat /\ awaiting.report.filled <= venue.filled
    BY <2>1 DEF LiveInv, ReportsTrue, Reports
  <2> QED
    BY <2>2, <1>1
<1>6. ReportsTrue'
  BY <1>3, <1>4, <1>5 DEF ReportsTrue, CountsAtMost
<1>7. TypeOK'
  BY <1>3 DEF LiveInv, TypeOK, nodeVars, managerVars
<1> QED
  BY <1>6, <1>7 DEF LiveInv

(* The venue changes the order and emits an event about it. *)
LEMMA VenueBecomesInv ==
    ASSUME LiveInv, inbox' \subseteq Request, NEW e \in LiveEvent,
           NEW v \in [state : VenueState, qty : Quantities, filled : Nat],
           venue.filled <= v.filled, VenueBecomes(v, e)
    PROVE  LiveInv'
<1>1. venue' = v /\ UNCHANGED <<nodeVars, answers>> /\ Emit(e)
  BY DEF VenueBecomes
<1>2. Evented(e) \in Message /\ Evented(e).kind = "event"
  BY Messages
<1>3. \/ events' = events
      \/ \E m \in Message : /\ m.kind = "report" => m.report.filled <= venue'.filled
                            /\ events' = Append(events, m)
  BY <1>1, <1>2 DEF Emit
<1>4. answers' \subseteq Reports
  BY <1>1 DEF LiveInv, TypeOK
<1> QED
  BY <1>1, <1>3, <1>4, VenueKeeps

(* Each step of the venue. *)
LEMMA VenueInv ==
    ASSUME LiveAssumption, LiveInv, Venue
    PROVE  LiveInv'
<1>0. /\ venue \in [state : VenueState, qty : Quantities, filled : Nat]
      /\ inbox \subseteq Request /\ answers \subseteq Reports
  BY DEF LiveInv, TypeOK
<1>1. venue.filled \in Nat /\ venue.filled <= venue.filled
  BY <1>0
<1>2. ASSUME NEW s \in {"Accepted", "Rejected", "Canceled", "Expired"}
      PROVE  /\ [venue EXCEPT !.state = s] \in [state : VenueState, qty : Quantities, filled : Nat]
             /\ [venue EXCEPT !.state = s].filled = venue.filled
             /\ Plain(s) \in LiveEvent
  <2>1. s \in VenueState /\ s \in EventType
    BY <1>2 DEF VenueState, EventType, Status, Open, Closed
  <2> QED
    BY <2>1, <1>0, PlainEvents
<1>3. ASSUME NEW s \in {"Accepted", "Rejected"}, VenueOpens(s)
      PROVE  LiveInv'
  <2>1. inbox' \subseteq Request /\ VenueBecomes([venue EXCEPT !.state = s], Plain(s))
    BY <1>0, <1>3 DEF VenueOpens
  <2> QED
    BY <2>1, <1>1, <1>2, VenueBecomesInv
<1>4. CASE VenueCancels
  <2>1. inbox' \subseteq Request
    BY <1>0, <1>4 DEF VenueCancels
  <2>2. CASE VenueBecomes([venue EXCEPT !.state = "Canceled"], Plain("Canceled"))
    BY <2>1, <2>2, <1>1, <1>2, VenueBecomesInv
  <2>3. CASE VenueBecomes(venue, Plain("CancelRejected"))
    <3>1. Plain("CancelRejected") \in LiveEvent
      BY PlainEvents DEF EventType
    <3> QED
      BY <2>1, <2>3, <3>1, <1>0, <1>1, VenueBecomesInv
  <2> QED
    BY <2>2, <2>3, <1>4 DEF VenueCancels
<1>5. CASE VenueModifies
  <2>1. PICK c \in Take("modify") :
            /\ inbox' = inbox \ {c}
            /\ \/ VenueBecomes([venue EXCEPT !.qty = c.qty,
                                   !.state = IF c.qty = venue.filled THEN "Filled" ELSE @],
                               Update(c.qty))
               \/ VenueBecomes(venue, Plain("ModifyRejected"))
    BY <1>5 DEF VenueModifies
  <2>2. inbox' \subseteq Request /\ c.qty \in Quantities /\ c.qty \in Nat
    BY <2>1, <1>0 DEF Take, Request, Quantities, LiveAssumption
  <2>3. CASE VenueBecomes([venue EXCEPT !.qty = c.qty,
                              !.state = IF c.qty = venue.filled THEN "Filled" ELSE @],
                          Update(c.qty))
    <3> DEFINE v == [venue EXCEPT !.qty = c.qty,
                         !.state = IF c.qty = venue.filled THEN "Filled" ELSE @]
    <3>1. /\ v \in [state : VenueState, qty : Quantities, filled : Nat]
          /\ v.filled = venue.filled
      BY <2>2, <1>0 DEF VenueState
    <3>2. Update(c.qty) \in LiveEvent
      BY <2>2, PlainEvents
    <3> HIDE DEF v
    <3> QED
      BY <2>2, <2>3, <3>1, <3>2, <1>1, VenueBecomesInv DEF v
  <2>4. CASE VenueBecomes(venue, Plain("ModifyRejected"))
    <3>1. Plain("ModifyRejected") \in LiveEvent
      BY PlainEvents DEF EventType
    <3> QED
      BY <2>2, <2>4, <3>1, <1>0, <1>1, VenueBecomesInv
  <2> QED
    BY <2>1, <2>3, <2>4
<1>6. CASE VenueFills
  <2> DEFINE v == [venue EXCEPT !.filled = @ + 1,
                       !.state = IF venue.filled + 1 = venue.qty THEN "Filled" ELSE @]
  <2>1. /\ v \in [state : VenueState, qty : Quantities, filled : Nat]
        /\ v.filled = venue.filled + 1
    <3>1. venue.filled + 1 \in Nat /\ "Filled" \in VenueState
      BY <1>1 DEF VenueState
    <3> QED
      BY <1>0, <3>1
  <2>2. Fill(venue.filled + 1, 1) \in LiveEvent /\ venue.filled <= venue.filled + 1
    BY <1>1, PlainEvents
  <2>3. VenueBecomes(v, Fill(venue.filled + 1, 1)) /\ inbox' \subseteq Request
    BY <1>6, <1>0 DEF VenueFills
  <2> HIDE DEF v
  <2> QED
    BY <2>1, <2>2, <2>3, VenueBecomesInv
<1>7. CASE VenueExpires
  <2>1. VenueBecomes([venue EXCEPT !.state = "Expired"], Plain("Expired"))
        /\ inbox' \subseteq Request
    BY <1>7, <1>0 DEF VenueExpires
  <2> QED
    BY <2>1, <1>1, <1>2, VenueBecomesInv
<1>8. CASE VenueAnswers
  <2>1. /\ inbox' \subseteq Request /\ UNCHANGED <<nodeVars, events, venue>>
        /\ \/ venue.state # "None" /\ \E r \in VenueReports : answers' = answers \cup {r}
           \/ answers' = answers
    BY <1>8, <1>0 DEF VenueAnswers
  <2>2. /\ answers' \subseteq Reports
        /\ \A r \in answers' : r \in answers \/ r.filled = venue.filled
    BY <2>1, <1>0, VenueReportsTrue DEF LiveInv
  <2> QED
    BY <2>1, <2>2, <1>0, <1>1, VenueKeeps
<1>9. CASE AnswerArrives
  <2>1. PICK r \in answers : /\ answers' = answers \ {r}
                             /\ events' = Append(events, Reported(r))
                             /\ UNCHANGED <<nodeVars, venue, inbox>>
    BY <1>9 DEF AnswerArrives
  <2>2. r \in Reports /\ r.filled <= venue.filled
    BY <1>0 DEF LiveInv, ReportsTrue
  <2>3. Reported(r) \in Message /\ Reported(r).report = r
    BY <2>2, Messages
  <2>4. answers' \subseteq Reports /\ answers' \subseteq answers
    BY <2>1, <1>0
  <2> QED
    BY <2>1, <2>2, <2>3, <2>4, <1>0, <1>1, VenueKeeps
<1> QED
  BY <1>3, <1>4, <1>5, <1>6, <1>7, <1>8, <1>9 DEF Venue

(* Every step keeps the invariant. *)
LEMMA LiveStepInv ==
    ASSUME LiveAssumption, LiveInv, [Next]_vars
    PROVE  LiveInv'
<1>1. CASE modify_order
  <2>1. PICK q \in ModifyTo : Requested("PendingUpdate", [kind |-> "modify", qty |-> q])
    BY <1>1 DEF modify_order
  <2>2. [kind |-> "modify", qty |-> q] \in Request
    BY DEF Request, Quantities
  <2> QED
    BY <2>1, <2>2, RequestInv DEF Pending
<1>2. CASE cancel_order
  <2>1. [kind |-> "cancel", qty |-> Quantity] \in Request
    BY DEF Request, Quantities
  <2> QED
    BY <1>2, <2>1, RequestInv DEF cancel_order, Pending
<1>3. CASE Loop
  BY <1>3, CommandInv, EventInv, InflightInv, FinishInv DEF Loop
<1>4. CASE open_check_threshold_passes
  <2>1. ReportsTrue'
    BY <1>4, NodeReports DEF open_check_threshold_passes, NodeKeeps, venueVars
  <2> QED
    BY <1>4, <2>1 DEF open_check_threshold_passes, LiveInv, TypeOK, venueVars
<1>5. CASE query_open_orders \/ query_open_orders_fails
  BY <1>5, QueryInv
<1>6. CASE Venue
  BY <1>6, VenueInv
<1>7. CASE UNCHANGED vars
  BY <1>7 DEF vars, LiveInv, TypeOK, ReportsTrue
<1> QED
  BY <1>1, <1>2, <1>3, <1>4, <1>5, <1>6, <1>7 DEF Next

-----------------------------------------------------------------------------
(* Theorems. *)

(* The variables keep their types and no report on its way to the node      *)
(* counts a fill the venue has not made.                                     *)
THEOREM LiveInvariant == Spec => []LiveInv
<1>1. Init => LiveInv
  BY LiveAssumption, LiveInitInv
<1>2. LiveInv /\ [Next]_vars => LiveInv'
  BY LiveAssumption, LiveStepInv
<1> QED
  BY <1>1, <1>2, PTL DEF Spec

(* The events maintenance resolves an in-flight order with are admitted and  *)
(* end its flight.                                                           *)
LEMMA ResolutionSettles ==
    ASSUME NEW o \in LiveOrder
    PROVE  ~is_inflight(handle_events(o, inflight_resolution(o)))
<1>1. ASSUME NEW t \in {"Rejected", "Canceled"}, t \in Admits[o.status]
      PROVE  ~is_inflight(handle_event(o, Plain(t)))
  <2>1. Plain(t).type = t
    BY DEF Plain
  <2>2. handle_event(o, Plain(t)) = applied(o, Plain(t))
    BY <1>1, <2>1 DEF handle_event, apply_error
  <2>3. applied(o, Plain(t)).status = t
    BY <1>1, <2>1 DEF applied, transition, LiveOrder
  <2> QED
    BY <2>2, <2>3 DEF is_inflight, Pending
<1>2. CASE o.status = "Submitted"
  <2>1. "Rejected" \in Admits[o.status]
    BY <1>2 DEF Admits
  <2>2. inflight_resolution(o) = << Plain("Rejected") >>
    BY <1>2 DEF inflight_resolution
  <2>3. handle_events(o, << Plain("Rejected") >>) = handle_event(o, Plain("Rejected"))
    BY DEF handle_events
  <2> QED
    BY <1>1, <2>1, <2>2, <2>3
<1>3. CASE o.status \in Pending
  <2>1. "Canceled" \in Admits[o.status]
    <3>1. "Canceled" \in Admits["PendingUpdate"] /\ "Canceled" \in Admits["PendingCancel"]
      BY DEF Admits
    <3> QED
      BY <1>3, <3>1 DEF Pending
  <2>2. inflight_resolution(o) = << Plain("Canceled") >>
    BY <1>3 DEF inflight_resolution, Pending
  <2>3. handle_events(o, << Plain("Canceled") >>) = handle_event(o, Plain("Canceled"))
    BY DEF handle_events
  <2> QED
    BY <1>1, <2>1, <2>2, <2>3
<1>4. CASE o.status \notin Pending \cup {"Submitted"}
  <2>1. handle_events(o, inflight_resolution(o)) = o
    BY <1>4 DEF handle_events, inflight_resolution
  <2> QED
    BY <2>1, <1>4 DEF is_inflight
<1> QED
  BY <1>2, <1>3, <1>4

(* check_inflight_orders goes on tracking an order or takes it out of flight, *)
(* whatever the limit and whatever events came or were lost.                  *)
THEOREM LiveMaintenanceNeverAbandons == Spec => MaintenanceNeverAbandons
<1>1. ASSUME LiveInv, check_inflight_orders
      PROVE  tracking'.on \/ ~is_inflight(order')
  <2>1. CASE tracking' = [tracking EXCEPT !.retry_count = tracking.retry_count + 1]
    <3>1. tracking \in [on : BOOLEAN, retry_count : 0 .. inflight_max_retries] /\ tracking.on
      BY <1>1 DEF LiveInv, TypeOK, check_inflight_orders
    <3>2. tracking'.on = tracking.on
      BY <2>1, <3>1
    <3> QED
      BY <3>1, <3>2
  <2>2. CASE order' = handle_events(order, inflight_resolution(order))
    <3>1. order \in LiveOrder
      BY <1>1 DEF LiveInv, TypeOK
    <3> QED
      BY <2>2, <3>1, ResolutionSettles
  <2> QED
    BY <1>1, <2>1, <2>2 DEF check_inflight_orders, process_reconciliation_events
<1>2. LiveInv /\ [Next]_vars
          => [check_inflight_orders => (tracking'.on \/ ~is_inflight(order'))]_vars
  BY <1>1
<1> QED
  BY <1>2, LiveInvariant, PTL DEF Spec, MaintenanceNeverAbandons

(* Reconciling a report never books a fill beyond what the venue has filled, *)
(* though the report may have been overtaken by any number of fill events.   *)
THEOREM LiveReconciledFillsExist == Spec => ReconciledFillsExist
<1>1. ASSUME LiveInv, Reconciles, order'.filled_qty > order.filled_qty
      PROVE  order'.filled_qty <= venue.filled
  <2>0. order.filled_qty \in Nat
    BY <1>1 DEF LiveInv, TypeOK, LiveOrder
  <2>1. ASSUME NEW r \in Reports, r.filled <= venue.filled,
               handle_report(r) \/ reconcile_open_order(r)
        PROVE  order'.filled_qty <= venue.filled
    <3>1. order'.filled_qty \in {order.filled_qty, r.filled}
      BY <1>1, <2>1, LiveAssumption, ReportHandled DEF LiveInv
    <3> QED
      BY <3>1, <1>1, <2>0, <2>1
  <2>2. CASE handle_exec_event /\ Head(events).kind = "report"
    <3>1. events # << >> /\ events \in Seq(Message) /\ 1 \in DOMAIN events /\ Head(events) = events[1]
      BY <1>1, <2>2 DEF handle_exec_event, LiveInv, TypeOK
    <3>2. Head(events) \in [kind : {"report"}, report : Reports]
      BY <2>2, <3>1 DEF Message
    <3>3. Head(events).report \in Reports
      BY <3>2
    <3>4. Head(events).report.filled <= venue.filled
      BY <1>1, <2>2, <3>1 DEF LiveInv, ReportsTrue
    <3>5. handle_report(Head(events).report)
      BY <2>2 DEF handle_exec_event
    <3> QED
      BY <2>1, <3>3, <3>4, <3>5
  <2>3. CASE finish_open_check
    <3>1. CASE awaiting.kind = "report" /\ reconcile_open_order(awaiting.report)
      <4>1. awaiting \in [kind : {"report"}, report : Reports]
        BY <1>1, <3>1 DEF LiveInv, TypeOK, Idle, Missing
      <4>2. awaiting.report \in Reports /\ awaiting.report.filled <= venue.filled
        BY <1>1, <3>1, <4>1 DEF LiveInv, ReportsTrue
      <4> QED
        BY <2>1, <3>1, <4>2
    <3>2. CASE \E tooRecent \in BOOLEAN : missing_check(tooRecent)
      <4>1. order'.filled_qty = order.filled_qty
        BY <1>1, <3>2, LiveAssumption, MissingHandled DEF LiveInv
      <4> QED
        BY <4>1, <1>1, <2>0
    <3> QED
      BY <2>3, <3>1, <3>2 DEF finish_open_check
  <2> QED
    BY <1>1, <2>2, <2>3 DEF Reconciles
<1>2. LiveInv /\ [Next]_vars
          => [Reconciles /\ order'.filled_qty > order.filled_qty
                => order'.filled_qty <= venue.filled]_vars
  BY <1>1
<1> QED
  BY <1>2, LiveInvariant, PTL DEF Spec, ReconciledFillsExist
=============================================================================
