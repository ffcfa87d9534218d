------------------------- MODULE EmaProtectedProofs -------------------------
(***************************************************************************)
(* Proof that once everything has arrived a position of the strategy has   *)
(* the one stop it should have, for any prices, any stop distance and any  *)
(* number of orders.  FlowInv of EmaCrossRRProofs is kept by what the      *)
(* engine delivers to the strategy (handle_event) and by what the venue    *)
(* does (process_command, match_stop), and Protected follows from it.      *)
(***************************************************************************)
EXTENDS EmaCrossRRProofs

\* What the engine does with an event before the strategy is told.
Tells(h, a, e) ==
    /\ a.s = h.s /\ a.c = h.c /\ Sound(a) /\ Len(a.o) = Len(h.o)
    /\ \A i \in 1 .. Len(h.o) :
          /\ a.o[i].tag = h.o[i].tag /\ a.o[i].side = h.o[i].side
          /\ a.o[i].quantity = h.o[i].quantity
          /\ i # e.id => a.o[i].status = h.o[i].status
    /\ a.o[e.id].status # "PENDING_CANCEL"
    /\ e.is = "Accepted" => a.o[e.id].status = "ACCEPTED"
    /\ e.is = "Filled" => a.n = h.n + h.o[e.id].side * e.quantity
    /\ e.is # "Filled" => a.n = h.n

\* The event at the head and those that follow.
Follows(n, ev, e, t) ==
    /\ e.id \in 1 .. n /\ t \in Seq(VenueEvent(n)) /\ e.id \in Told(ev, e.is)
    /\ e.is \in {"Accepted", "Rejected", "Canceled", "Filled"} /\ e.px \in Int
    /\ \A is : Told(t, is) = IF e.is = is THEN Told(ev, is) \ {e.id} ELSE Told(ev, is)
    /\ Apart(t)

\* What holds when the engine has applied the event at the head and the strategy
\* has not been told.
Halfway(h, ev, w, p, r, e, t, a) ==
    /\ Sound(h) /\ Venue(h, ev, w) /\ Flow(h, ev, w, p, r) /\ Tells(h, a, e)
    /\ Sound(a) /\ Follows(Len(h.o), ev, e, t) /\ Len(a.o) = Len(h.o) /\ Len(h.o) \in Nat
    /\ a.s = h.s /\ a.c = h.c
    /\ \A i \in 1 .. Len(h.o) : a.o[i].tag = h.o[i].tag /\ a.o[i].side = h.o[i].side
    /\ Lanes(a, t, w, p) /\ Venue(a, t, w) /\ Accounted(a, t, p)
    /\ \A x \in {"ENTRY", "SL", "CLOSE"} : Tagged(a, x) = Tagged(h, x)
    /\ \A is : Told(t, is) \subseteq Told(ev, is)
    /\ \A is : \A i \in Told(ev, is) : i \in 1 .. Len(h.o)

\* _place_sl.
Places(h, g, side) ==
    LET N == Len(h.o) + 1
    IN  /\ g.s.sl_order_id = N /\ g.s.entry_side = h.s.entry_side
        /\ g.s.entry_order_id = h.s.entry_order_id
        /\ g.n = h.n /\ Sound(g) /\ Keeps(h, g)
        /\ g.o[N].tag = "SL" /\ g.o[N].side = -side /\ g.o[N].status = "SUBMITTED"
        /\ Asked(g.c, "submit") = Asked(h.c, "submit") \cup {N}
        /\ Asked(g.c, "cancel") = Asked(h.c, "cancel")
        /\ Asked(g.c, "cancel_all") = Asked(h.c, "cancel_all")
        /\ Tagged(g, "SL") = Tagged(h, "SL") \cup {N}
        /\ \A t \in {"ENTRY", "CLOSE"} : Tagged(g, t) = Tagged(h, t)
        /\ Ordered(h, 2) => Ordered(g, 3)

\* handle_event.
LEMMA handle_eventFlow ==
  ASSUME FlowInv, handle_event, ~overtaken'
  PROVE  Flow(Now, events, working, position, running)'

\* What is told once the event at the head is delivered.
<1>ToldTail.
     ASSUME NEW S, NEW ev \in Seq(S), ev # << >>, NEW is, Apart(ev)
     PROVE  Told(Tail(ev), is) = IF Head(ev).is = is THEN Told(ev, is) \ {Head(ev).id} ELSE Told(ev, is)
  <2> USE <1>ToldTail
  <2> DEFINE d == Tail(ev)
  <2>1. /\ Len(ev) \in Nat \ {0} /\ Head(ev) = ev[1] /\ Len(Tail(ev)) = Len(ev) - 1
        /\ \A k \in 1 .. Len(Tail(ev)) : Tail(ev)[k] = ev[k + 1]
    OBVIOUS
  <2> HIDE DEF d
  <2>2. /\ Len(ev) \in Nat \ {0} /\ Len(d) = Len(ev) - 1
        /\ \A k \in 1 .. Len(d) : d[k] = ev[k + 1]
    BY <2>1, Zenon DEF d
  <2>3. ASSUME NEW i \in Told(d, is)
        PROVE  i \in IF ev[1].is = is THEN Told(ev, is) \ {ev[1].id} ELSE Told(ev, is)
    <3>1. PICK k \in 1 .. Len(d) : d[k].is = is /\ d[k].id = i
      BY <2>3, Zenon DEF Told
    <3>2. k + 1 \in 1 .. Len(ev) /\ ev[k + 1].is = is /\ ev[k + 1].id = i /\ k + 1 # 1 /\ 1 \in 1 .. Len(ev)
      BY ONLY <2>2, <3>1
    <3>3. i \in Told(ev, is)
      BY <3>2, Zenon DEF Told
    <3>4. ev[1].is = is => ev[1].id # i
      BY <3>2, Zenon DEF Apart
    <3> QED
      BY <3>3, <3>4, Zenon
  <2>4. ASSUME NEW i \in Told(ev, is), ~(ev[1].is = is /\ ev[1].id = i)
        PROVE  i \in Told(d, is)
    <3>1. PICK k \in 1 .. Len(ev) : ev[k].is = is /\ ev[k].id = i
      BY <2>4, Zenon DEF Told
    <3>2. k # 1
      BY <2>4, <3>1, Zenon
    <3>3. k - 1 \in 1 .. Len(d) /\ (k - 1) + 1 = k
      BY ONLY <2>2, <3>2
    <3>4. d[k - 1] = ev[k]
      BY <2>2, <3>3, Zenon
    <3> QED
      BY <3>1, <3>3, <3>4, Zenon DEF Told
  <2>5. Told(d, is) = IF ev[1].is = is THEN Told(ev, is) \ {ev[1].id} ELSE Told(ev, is)
    BY <2>3, <2>4, Zenon
  <2> QED
    BY <2>1, <2>5, Zenon DEF d

\* Applied changes the order the event names and the cached position, no more.
<1>AppliedTells. ASSUME IInv, NEW e \in VenueEvent(Len(orders))
                 PROVE  Tells(Now, Applied(e), e)
  <2> USE <1>AppliedTells
  <2> DEFINE status == CASE e.is = "Accepted" -> "ACCEPTED"
                         [] e.is = "Rejected" -> "REJECTED"
                         [] e.is = "Canceled" -> "CANCELED"
                         [] e.is = "Filled" -> "FILLED"
             n == IF e.is = "Filled" THEN net + orders[e.id].side * e.quantity ELSE net
             order == [orders[e.id] EXCEPT !.status = status]
             o == [orders EXCEPT ![e.id] = order]
             h == Applied(e)
  <2>1. Sound(Now)
    BY Zenon DEF IInv
  <2>2. /\ strategy \in Fields /\ orders \in Seq(Order) /\ net \in Int
        /\ commands \in Seq(Command) /\ Len(orders) \in Nat
    BY <2>1, NowSound, Zenon
  <2>3. e.id \in 1 .. Len(orders) /\ orders[e.id] \in Order
    BY ONLY <2>2 DEF VenueEvent
  <2>4. status # "PENDING_CANCEL" /\ (e.is = "Accepted" => status = "ACCEPTED")
    BY Zenon DEF VenueEvent
  <2>5. /\ e.is = "Filled" => n = net + orders[e.id].side * e.quantity
        /\ e.is # "Filled" => n = net
    BY Zenon
  <2>6. h = [s |-> strategy, o |-> o, n |-> n, c |-> commands]
    <3> HIDE DEF status
    <3>1. h = [Now EXCEPT !.o[e.id].status = status,
                          !.n = IF e.is = "Filled" THEN Now.n + orders[e.id].side * e.quantity ELSE Now.n]
      BY Zenon DEF Applied, status
    <3>2. Now.o = orders /\ Now.n = net
      BY Zenon DEF Now
    <3> HIDE DEF h, n
    <3>3. h = [Now EXCEPT !.o = o, !.n = n]
      BY <3>1, <3>2, Zenon DEF n
    <3> HIDE DEF o
    <3> QED
      BY <3>3, Zenon DEF Now
  <2>7. Sound(h)
    BY AppliedSound, Zenon
  <2> HIDE DEF status, n, h
  <2>8. /\ order.tag = orders[e.id].tag /\ order.side = orders[e.id].side
        /\ order.quantity = orders[e.id].quantity /\ order.status = status
    BY <2>3, Zenon DEF Order
  <2> HIDE DEF order
  <2>9. /\ Len(o) = Len(orders) /\ o[e.id] = order
        /\ \A i \in 1 .. Len(orders) : i # e.id => o[i] = orders[i]
    BY ONLY <2>2, <2>3
  <2> HIDE DEF o
  <2>10. \A i \in 1 .. Len(orders) :
            /\ o[i].tag = orders[i].tag /\ o[i].side = orders[i].side
            /\ o[i].quantity = orders[i].quantity
            /\ i # e.id => o[i].status = orders[i].status
    BY <2>8, <2>9, Zenon
  <2>11. h.s = strategy /\ h.o = o /\ h.n = n /\ h.c = commands
    BY <2>6, Zenon
  <2>12. Now.s = strategy /\ Now.o = orders /\ Now.n = net /\ Now.c = commands
    BY Zenon DEF Now
  <2>13. Tells(Now, h, e)
    BY <2>4, <2>5, <2>7, <2>8, <2>9, <2>10, <2>11, <2>12, Zenon DEF Tells
  <2> QED
    BY <2>13, Zenon DEF h

\* An event is delivered once: it is not among those that follow.
<1>Following. ASSUME NEW n \in Nat, NEW ev \in Seq(VenueEvent(n)), ev # << >>, Apart(ev),
                     NEW e, e = Head(ev), NEW t, t = Tail(ev)
              PROVE  Follows(n, ev, e, t)
  <2> USE <1>Following
  <2>1. /\ e \in VenueEvent(n) /\ t \in Seq(VenueEvent(n)) /\ e = ev[1] /\ 1 \in 1 .. Len(ev)
        /\ Len(t) = Len(ev) - 1 /\ \A k \in 1 .. Len(t) : t[k] = ev[k + 1] /\ k + 1 \in 1 .. Len(ev)
    OBVIOUS
  <2>2. e.id \in 1 .. n /\ e.px \in Int /\ e.is \in {"Accepted", "Rejected", "Canceled", "Filled"}
    BY <2>1, Zenon DEF VenueEvent
  <2>3. e.id \in Told(ev, e.is)
    BY <2>1, Zenon DEF Told
  <2>4. \A is : Told(t, is) = IF e.is = is THEN Told(ev, is) \ {e.id} ELSE Told(ev, is)
    BY <1>ToldTail, Zenon
  <2>5. Apart(t)
    BY <2>1 DEF Apart
  <2> QED
    BY <2>1, <2>2, <2>3, <2>4, <2>5, Zenon DEF Follows

\* The lanes stay apart when the engine applies an event.
<1>EventLanes.
     ASSUME NEW h, Sound(h), NEW ev, ev # << >>, NEW w, NEW p, Venue(h, ev, w), Lanes(h, ev, w, p),
            NEW e, e = Head(ev), NEW t, t = Tail(ev), NEW a, Tells(h, a, e)
     PROVE  Lanes(a, t, w, p) /\ Venue(a, t, w)
  <2> USE <1>EventLanes
  <2>0. Len(h.o) \in Nat /\ ev \in Seq(VenueEvent(Len(h.o))) /\ Apart(ev) /\ w \subseteq 1 .. Len(h.o)
    BY SoundType, Zenon DEF Venue, Lanes
  <2>f. Follows(Len(h.o), ev, e, t)
    BY <2>0, <1>Following, Zenon
  <2>1. /\ e.id \in 1 .. Len(h.o) /\ t \in Seq(VenueEvent(Len(h.o)))
        /\ e.id \in Told(ev, e.is) /\ e.is \in {"Accepted", "Rejected", "Canceled", "Filled"}
        /\ \A is : Told(t, is) = IF e.is = is THEN Told(ev, is) \ {e.id} ELSE Told(ev, is)
        /\ Apart(t)
    BY <2>f, Zenon DEF Follows
  <2>2. \A is : Told(t, is) \subseteq Told(ev, is)
    BY <2>1, Zenon
  <2>3. /\ a.c = h.c /\ Len(a.o) = Len(h.o)
        /\ \A i \in 1 .. Len(h.o) :
              /\ a.o[i].tag = h.o[i].tag /\ a.o[i].side = h.o[i].side
              /\ i # e.id => a.o[i].status = h.o[i].status
        /\ e.is = "Accepted" => a.o[e.id].status = "ACCEPTED"
    BY Zenon DEF Tells
  <2>4. Ordered(a, 6)
    <3>1. \A k \in 1 .. Len(h.c) : Rank(a.o, h.c[k]) = Rank(h.o, h.c[k])
      BY <2>3, SameRanks, Zenon
    <3> QED
      BY <2>3, <3>1 DEF Lanes, Ordered
  <2>5. \A k \in 1 .. Len(t) : t[k].is = "Filled" => t[k].quantity = 1
    <3>1. Len(t) = Len(ev) - 1 /\ \A k \in 1 .. Len(t) : t[k] = ev[k + 1] /\ k + 1 \in 1 .. Len(ev)
      BY <2>0
    <3> QED
      BY <3>1 DEF Lanes
  <2>6. ASSUME NEW i \in w
        PROVE  /\ a.o[i].tag = "SL" /\ a.o[i].side = -p
               /\ a.o[i].status \in {"SUBMITTED", "ACCEPTED", "PENDING_CANCEL"}
               /\ i \notin Asked(a.c, "submit") /\ i \notin Told(t, "Rejected")
               /\ i \notin Told(t, "Canceled") /\ i \notin Told(t, "Filled")
    <3>1. /\ h.o[i].tag = "SL" /\ h.o[i].side = -p
          /\ h.o[i].status \in {"SUBMITTED", "ACCEPTED", "PENDING_CANCEL"}
          /\ i \notin Asked(h.c, "submit") /\ i \notin Told(ev, "Rejected")
          /\ i \notin Told(ev, "Canceled") /\ i \notin Told(ev, "Filled")
      BY Zenon DEF Lanes
    <3>2. i \in 1 .. Len(h.o)
      BY <2>0, Zenon
    <3>3. a.o[i].status \in {"SUBMITTED", "ACCEPTED", "PENDING_CANCEL"}
      BY <2>1, <2>3, <3>1, <3>2, Zenon
    <3> QED
      BY <2>2, <2>3, <3>1, <3>2, <3>3, Zenon
  <2>7. ASSUME NEW i \in Asked(a.c, "submit")
        PROVE  /\ a.o[i].status = "SUBMITTED"
               /\ i \notin Told(t, "Accepted") /\ i \notin Told(t, "Rejected")
               /\ i \notin Told(t, "Canceled") /\ i \notin Told(t, "Filled")
    <3>1. /\ h.o[i].status = "SUBMITTED"
          /\ i \notin Told(ev, "Accepted") /\ i \notin Told(ev, "Rejected")
          /\ i \notin Told(ev, "Canceled") /\ i \notin Told(ev, "Filled")
      BY <2>3, Zenon DEF Lanes
    <3>2. i \in 1 .. Len(h.o)
      BY <2>3, AskedExist, Zenon
    <3>3. i # e.id
      BY <2>1, <3>1, Zenon
    <3> QED
      BY <2>2, <2>3, <3>1, <3>2, <3>3, Zenon
  <2>8. ASSUME NEW i \in Told(t, "Rejected")
        PROVE  /\ a.o[i].status = "SUBMITTED"
               /\ i \notin Told(t, "Accepted")
               /\ i \notin Told(t, "Canceled") /\ i \notin Told(t, "Filled")
    <3>0. i \in Told(ev, "Rejected")
      BY <2>2, Zenon
    <3>1. /\ h.o[i].status = "SUBMITTED"
          /\ i \notin Told(ev, "Accepted")
          /\ i \notin Told(ev, "Canceled") /\ i \notin Told(ev, "Filled")
      BY <3>0, Zenon DEF Lanes
    <3>2. i \in 1 .. Len(h.o)
      BY <2>0, <3>0, ToldExist, Zenon
    <3>3. i # e.id
      BY ONLY <2>1, <3>1
    <3> QED
      BY <2>2, <2>3, <3>1, <3>2, <3>3, Zenon
  <2>9. p \in {-1, 0, 1} /\ \A i, j \in w : i = j
    BY Zenon DEF Lanes
  <2>10. Lanes(a, t, w, p)
    BY <2>1, <2>4, <2>5, <2>6, <2>7, <2>8, <2>9, Zenon DEF Lanes
  <2> QED
    BY <2>0, <2>1, <2>3, <2>10, Zenon DEF Venue

\* The positions go on adding up.
<1>EventAccounted.
     ASSUME NEW h, Sound(h), NEW ev, ev # << >>, NEW w, NEW p, Venue(h, ev, w), Lanes(h, ev, w, p),
            Accounted(h, ev, p), NEW e, e = Head(ev), NEW t, t = Tail(ev), NEW a, Tells(h, a, e)
     PROVE  Accounted(a, t, p)
  <2> USE <1>EventAccounted
  <2>0. /\ Len(h.o) \in Nat /\ ev \in Seq(VenueEvent(Len(h.o))) /\ Apart(ev) /\ h.n \in Int
        /\ h.o \in Seq(Order)
    BY SoundType, Zenon DEF Venue, Lanes
  <2>f. Follows(Len(h.o), ev, e, t)
    BY <2>0, <1>Following, Zenon
  <2>1. /\ e.id \in 1 .. Len(h.o) /\ e.id \in Told(ev, e.is)
        /\ \A is : Told(t, is) = IF e.is = is THEN Told(ev, is) \ {e.id} ELSE Told(ev, is)
    BY <2>f, Zenon DEF Follows
  <2>2. \A i \in Told(ev, "Filled") :
           i \in 1 .. Len(h.o) /\ a.o[i].side = h.o[i].side /\ h.o[i].side \in Int
    <3>1. ASSUME NEW i \in Told(ev, "Filled")
          PROVE  i \in 1 .. Len(h.o) /\ a.o[i].side = h.o[i].side /\ h.o[i].side \in Int
      <4>1. i \in 1 .. Len(h.o)
        BY <2>0, ToldExist, Zenon
      <4>2. h.o[i] \in Order
        BY <2>0, <4>1, SoundType, Zenon
      <4> QED
        BY <4>1, <4>2 DEF Tells, Order, Side
    <3> QED
      BY <3>1, Zenon
  <2>3. CASE e.is # "Filled"
    <3>1. Told(t, "Filled") = Told(ev, "Filled") /\ a.n = h.n
      BY <2>1, <2>3, Zenon DEF Tells
    <3> QED
      BY <2>2, <3>1, Zenon DEF Accounted
  <2>4. CASE e.is = "Filled"
    <3>1. e.quantity = 1
      <4>1. e = ev[1] /\ 1 \in 1 .. Len(ev)
        BY <2>0
      <4> QED
        BY <2>4, <4>1, Zenon DEF Lanes
    <3>2. /\ Told(t, "Filled") = Told(ev, "Filled") \ {e.id} /\ e.id \in Told(ev, "Filled")
          /\ a.n = h.n + h.o[e.id].side
      BY <2>1, <2>2, <2>4, <3>1 DEF Tells
    <3>3. CASE \E i \in Told(ev, "Filled") : Told(ev, "Filled") = {i} /\ p = h.n + h.o[i].side
      <4>1. Told(t, "Filled") = {} /\ p = a.n
        BY <3>2, <3>3, Zenon
      <4> QED
        BY <4>1, Zenon DEF Accounted
    <3>4. CASE \E i, j \in Told(ev, "Filled") :
                 /\ i # j /\ Told(ev, "Filled") = {i, j} /\ h.o[i].side = h.o[j].side
                 /\ p = h.n + h.o[i].side + h.o[i].side
      <4>1. PICK i \in Told(ev, "Filled"), j \in Told(ev, "Filled") :
                 /\ i # j /\ Told(ev, "Filled") = {i, j} /\ h.o[i].side = h.o[j].side
                 /\ p = h.n + h.o[i].side + h.o[i].side
        BY <3>4, Zenon
      <4>2. CASE e.id = i
        <5>1. Told(t, "Filled") = {j} /\ p = a.n + a.o[j].side
          BY <2>2, <3>2, <4>1, <4>2, Zenon
        <5> QED
          BY <5>1, Zenon DEF Accounted
      <4>3. CASE e.id = j
        <5>1. Told(t, "Filled") = {i} /\ p = a.n + a.o[i].side
          BY <2>2, <3>2, <4>1, <4>3, SoundType, Zenon
        <5> QED
          BY <5>1, Zenon DEF Accounted
      <4> QED
        BY <3>2, <4>1, <4>2, <4>3, Zenon
    <3> QED
      BY <3>2, <3>3, <3>4, Zenon DEF Accounted
  <2> QED
    BY <2>3, <2>4, Zenon

\* The lanes and the account of the position hold at that point.
<1>HalfwayThere.
     ASSUME NEW h, Sound(h), NEW ev, ev # << >>, NEW w, NEW p, NEW r, Venue(h, ev, w),
            Flow(h, ev, w, p, r), NEW e, e = Head(ev), NEW t, t = Tail(ev), NEW a, Tells(h, a, e)
     PROVE  Halfway(h, ev, w, p, r, e, t, a)
  <2> USE <1>HalfwayThere
  <2>1. Len(h.o) \in Nat /\ ev \in Seq(VenueEvent(Len(h.o))) /\ Apart(ev)
    BY SoundType, Zenon DEF Venue, Flow, Lanes
  <2>2. Follows(Len(h.o), ev, e, t)
    BY <2>1, <1>Following, Zenon
  <2>3. Lanes(a, t, w, p) /\ Venue(a, t, w)
    BY <1>EventLanes, Zenon DEF Flow
  <2>4. Accounted(a, t, p)
    BY <1>EventAccounted, Zenon DEF Flow, Trade
  <2>5. /\ Sound(a) /\ Len(a.o) = Len(h.o) /\ a.s = h.s /\ a.c = h.c
        /\ \A i \in 1 .. Len(h.o) : a.o[i].tag = h.o[i].tag /\ a.o[i].side = h.o[i].side
    BY Zenon DEF Tells
  <2>6. \A x \in {"ENTRY", "SL", "CLOSE"} : Tagged(a, x) = Tagged(h, x)
    BY <2>5, StatusAsks, Zenon
  <2>7. \A is : Told(t, is) \subseteq Told(ev, is)
    BY <2>2, Zenon DEF Follows
  <2>8. \A is : \A i \in Told(ev, is) : i \in 1 .. Len(h.o)
    BY <2>1, ToldExist, Zenon
  <2> QED
    BY <2>1, <2>2, <2>3, <2>4, <2>5, <2>6, <2>7, <2>8, Zenon DEF Halfway

\* An event of an order that the strategy does not wait for.
<1>OtherFlow.
     ASSUME NEW h, NEW ev, NEW w, NEW p, NEW r, NEW e, NEW t, NEW a, Halfway(h, ev, w, p, r, e, t, a),
            r => /\ e.is = "Rejected" => e.id # h.s.sl_order_id
                 /\ e.is = "Filled" => e.id # h.s.sl_order_id /\ e.id # h.s.entry_order_id
     PROVE  Flow(a, t, w, p, r)
  <2> USE <1>OtherFlow
  <2> DEFINE sl == h.s.sl_order_id
             en == h.s.entry_order_id
  <2>1. /\ Lanes(a, t, w, p) /\ Accounted(a, t, p) /\ a.s = h.s /\ a.c = h.c
        /\ Tagged(a, "ENTRY") = Tagged(h, "ENTRY") /\ Tagged(a, "SL") = Tagged(h, "SL")
        /\ Tagged(a, "CLOSE") = Tagged(h, "CLOSE")
        /\ \A i \in 1 .. Len(h.o) :
              /\ a.o[i].tag = h.o[i].tag /\ a.o[i].side = h.o[i].side
              /\ a.o[i].quantity = h.o[i].quantity
              /\ a.o[i].status = h.o[i].status \/ a.o[i].status # "PENDING_CANCEL"
        /\ Trade(h, ev, w, p, r)
    BY Zenon DEF Halfway, Tells, Flow
  <2>2. /\ Told(t, "Filled") \subseteq Told(ev, "Filled")
        /\ Told(t, "Rejected") \subseteq Told(ev, "Rejected")
        /\ \A i \in Told(ev, "Filled") : i \in 1 .. Len(h.o)
    BY Zenon DEF Halfway
  <2>3. r => /\ sl \in Told(ev, "Rejected") => sl \in Told(t, "Rejected")
             /\ sl \in Told(ev, "Filled") => sl \in Told(t, "Filled")
             /\ en \in Told(ev, "Filled") => en \in Told(t, "Filled")
    BY Zenon DEF Halfway, Follows
  <2>4. /\ sl # None => sl \in 1 .. Len(h.o)
        /\ en # None => en \in 1 .. Len(h.o)
    <3>1. h.s \in Fields /\ Len(h.o) \in Nat /\ sl <= Len(h.o) /\ en <= Len(h.o)
      BY Zenon DEF Halfway, Sound, Handler
    <3>2. sl \in Nat /\ en \in Nat
      BY <3>1, Zenon DEF Fields
    <3> QED
      BY ONLY <3>1, <3>2 DEF None
  <2>5. \A x \in {"ENTRY", "SL", "CLOSE"} : \A i \in Tagged(h, x) : i \in 1 .. Len(h.o)
    BY AskedExist, Zenon DEF Halfway, Tagged
  <2>6. Known(a, r)
    BY <2>1, <2>4, Zenon DEF Known, Trade
  <2>7. Covered(a, t, w, p, r)
    BY <2>1, <2>3, <2>4, <2>5, Zenon DEF Covered, Trade
  <2>8. Waits(a, t, w, r)
    <3>1. sl # None /\ h.o[sl].status # "PENDING_CANCEL" => a.o[sl].status # "PENDING_CANCEL"
      BY <2>1, <2>4, Zenon
    <3> QED
      BY <2>1, <2>3, <3>1, Zenon DEF Waits, Trade
  <2>9. Enters(a, t, r)
    BY <2>1, <2>2, <2>5, SMTT(30) DEF Enters, Trade
  <2>10. Ends(a, t, w, p, r)
    BY <2>1, <2>2, Zenon DEF Ends, Trade
  <2>11. Replaces(a, w, p, r)
    BY <2>1, <2>5, Zenon DEF Replaces, Trade
  <2> QED
    BY <2>1, <2>6, <2>7, <2>8, <2>9, <2>10, <2>11, Zenon DEF Flow, Trade

\* The stop has filled: the trade is over.
<1>StoppedFlow.
     ASSUME NEW h, NEW ev, NEW w, NEW p, NEW e, NEW t, NEW a, Halfway(h, ev, w, p, TRUE, e, t, a),
            e.is = "Filled", e.id = h.s.sl_order_id, NEW g, g = [a EXCEPT !.s = trade_over(@)]
     PROVE  Flow(g, t, w, p, TRUE)
  <2> USE <1>StoppedFlow
  <2> DEFINE sl == h.s.sl_order_id
             en == h.s.entry_order_id
  <2>1. sl # None /\ sl \in Told(ev, "Filled")
    BY DEF Halfway, Follows, None
  <2>2. sl \notin Asked(h.c, "submit") /\ Sound(h) /\ Flow(h, ev, w, p, TRUE)
    BY <2>1, Zenon DEF Halfway, Flow, Lanes
  <2>3. h.c = << >>
    BY <2>1, <2>2, StopAlone, Zenon
  <2>4. p = 0 /\ en \notin Told(ev, "Filled")
    BY <2>1, <2>2, Zenon DEF Flow, Trade, Ends
  <2>5. w = {}
    BY <2>4, StopMeansPosition, Zenon DEF Halfway, Flow
  <2>6. /\ Sound(g) /\ g.o = a.o /\ g.n = a.n /\ g.c = a.c
        /\ g.s.sl_order_id = None /\ g.s.entry_order_id = a.s.entry_order_id
    BY OverAsks, Zenon DEF Halfway
  <2>7. g.s.entry_order_id = en /\ g.c = << >>
    BY <2>3, <2>6, Zenon DEF Halfway
  <2>8. /\ \A do : Asked(g.c, do) = {} /\ \A x \in {"ENTRY", "SL", "CLOSE"} : Tagged(g, x) = {}
        /\ Ordered(g, 6)
    BY <2>7, Idle, Zenon
  <2>9. Lanes(g, t, w, p) /\ Accounted(g, t, p)
    BY <2>6, <2>8 DEF Halfway, Lanes, Accounted
  <2>10. Known(g, TRUE)
    <3>1. en # None => en \in 1 .. Len(h.o)
      <4>1. h.s \in Fields /\ Len(h.o) \in Nat /\ en <= Len(h.o)
        BY <2>2, SoundType, Zenon
      <4>2. en \in Nat
        BY <4>1, Zenon DEF Fields
      <4> QED
        BY ONLY <4>1, <4>2 DEF None
    <3>2. en # None => h.o[en].tag = "ENTRY"
      BY <2>2, Zenon DEF Flow, Trade, Known
    <3>3. en # None => a.o[en].tag = "ENTRY"
      BY <3>1, <3>2, Zenon DEF Halfway
    <3> QED
      BY <2>6, <2>7, <3>3, Zenon DEF Known
  <2>11. Covered(g, t, w, p, TRUE) /\ Waits(g, t, w, TRUE) /\ Enters(g, t, TRUE)
    BY <2>4, <2>6, <2>8, Zenon DEF Covered, Waits, Enters
  <2>12. Ends(g, t, w, p, TRUE)
    <3>1. en \notin Told(t, "Filled")
      BY <2>4, Zenon DEF Halfway
    <3> QED
      BY <2>4, <2>5, <2>7, <3>1, Zenon DEF Ends
  <2>13. Replaces(g, w, p, TRUE)
    BY <2>4, <2>8, Zenon DEF Replaces
  <2> QED
    BY <2>9, <2>10, <2>11, <2>12, <2>13, Zenon DEF Flow, Trade

\* The stop has been refused: what is open is swept and the position closed.
<1>RefusedFlow.
     ASSUME NEW h, NEW ev, NEW w, NEW p, NEW e, NEW t, NEW a, Halfway(h, ev, w, p, TRUE, e, t, a),
            e.is = "Rejected", e.id = h.s.sl_order_id,
            NEW x, Sound(x), x.o = a.o, x.n = a.n, x.c = a.c, x.s.entry_order_id = a.s.entry_order_id,
            NEW q, q = close_all_positions(cancel_all_orders(x)),
            NEW g, Sound(g), g.o = q.o, g.n = q.n, g.c = q.c,
            g.s.sl_order_id = None, g.s.entry_order_id = q.s.entry_order_id
     PROVE  Flow(g, t, w, p, TRUE)
  <2> USE <1>RefusedFlow
  <2> DEFINE sl == h.s.sl_order_id
             en == h.s.entry_order_id
             N  == Len(a.o) + 1
  <2>0. /\ Sound(h) /\ Sound(a) /\ Flow(h, ev, w, p, TRUE) /\ Lanes(a, t, w, p) /\ Venue(a, t, w)
        /\ Accounted(a, t, p) /\ a.s = h.s /\ a.c = h.c /\ Len(a.o) = Len(h.o) /\ Len(h.o) \in Nat
        /\ \A i \in 1 .. Len(h.o) : a.o[i].tag = h.o[i].tag
        /\ \A is : Told(t, is) \subseteq Told(ev, is)
        /\ \A is : \A i \in Told(ev, is) : i \in 1 .. Len(h.o)
    BY Zenon DEF Halfway
  <2>1. sl # None /\ sl \in Told(ev, "Rejected")
    BY DEF Halfway, Follows, None
  <2>2. sl \notin Asked(h.c, "submit") /\ sl \notin w
    BY <2>0, <2>1, SoundType, Zenon DEF Flow, Lanes
  <2>3. h.c = << >> /\ \A y \in {"ENTRY", "SL", "CLOSE"} : Tagged(h, y) = {}
    BY <2>0, <2>1, <2>2, StopAlone, Zenon
  <2>4. en \notin Told(ev, "Filled") /\ (p # 0 => Told(ev, "Filled") = {})
    BY <2>0, <2>1, Zenon DEF Flow, Trade, Ends
  <2>5. w = {}
    <3>1. p # 0 => w = {}
      BY <2>0, <2>2, <2>3, <2>4, Zenon DEF Flow, Trade, Covered
    <3> QED
      BY <2>0, <3>1, StopMeansPosition, Zenon
  <2>6. p # 0 => a.n = p /\ p \in {-1, 1}
    BY <2>0, <2>4, Zenon DEF Accounted, Lanes
  <2>7. x.n = a.n /\ x.o = a.o /\ x.c = << >> /\ x.s.entry_order_id = en
    BY <2>0, <2>3, Zenon
  <2>8. /\ \A do : Asked(x.c, do) = {} /\ \A y \in {"ENTRY", "SL", "CLOSE"} : Tagged(x, y) = {}
        /\ Ordered(x, 3)
    BY <2>7, Idle, Zenon
  <2>9. Quits(x, q)
    BY <2>7, QuitAsks, Zenon
  <2>10. /\ Sound(q) /\ q.n = a.n /\ Keeps(x, q) /\ Asked(q.c, "cancel") = {} /\ Ordered(q, 5)
         /\ Tagged(q, "ENTRY") = {} /\ Tagged(q, "SL") = {} /\ q.s.entry_order_id = en
    BY <2>7, <2>8, <2>9, Zenon DEF Quits
  <2>11. \A i \in Asked(q.c, "submit") : i > Len(a.o) /\ q.o[i].status = "SUBMITTED"
    BY <2>0, <2>7, <2>8, <2>9 DEF Quits
  <2>12. p # 0 => N \in Tagged(q, "CLOSE") /\ q.o[N].side = -p /\ q.o[N].quantity = 1
    BY ONLY <2>6, <2>7, <2>9 DEF Quits
  <2>13. /\ Sound(g) /\ g.o = q.o /\ g.n = q.n /\ g.c = q.c
         /\ g.s.sl_order_id = None /\ g.s.entry_order_id = en
    BY <2>10, Zenon
  <2>14. /\ Tagged(g, "ENTRY") = {} /\ Tagged(g, "SL") = {} /\ Tagged(g, "CLOSE") = Tagged(q, "CLOSE")
         /\ Ordered(q, 5) => Ordered(g, 5)
    <3>1. Sound(q) /\ g.o = q.o /\ g.c = q.c
      BY <2>10, <2>13, Zenon
    <3>2. /\ \A y \in {"ENTRY", "SL", "CLOSE"} : Tagged(g, y) = Tagged(q, y)
          /\ \A r : Ordered(q, r) => Ordered(g, r)
      BY ONLY <3>1, SameAsks
    <3> QED
      BY <2>10, <3>2, Zenon
  <2>15. Ordered(g, 6)
    BY ONLY <2>10, <2>14, OrderedMore
  <2>16. Keeps(a, g)
    BY ONLY <2>7, <2>10, <2>13 DEF Keeps
  <2>17. Lanes(g, t, w, p)
    BY ONLY <2>0, <2>11, <2>13, <2>15, <2>16, LanesKept, SMTT(30)
  <2>18. Accounted(g, t, p)
    BY <2>0, <2>10, <2>13, <2>16, AccountedKept, Zenon
  <2>19. Known(g, TRUE)
    <3>1. en # None => en \in 1 .. Len(h.o)
      <4>1. h.s \in Fields /\ en <= Len(h.o)
        BY <2>0, Zenon DEF Sound, Handler
      <4>2. en \in Nat
        BY <4>1, Zenon DEF Fields
      <4> QED
        BY ONLY <2>0, <4>1, <4>2 DEF None
    <3>2. en # None => a.o[en].tag = "ENTRY"
      BY <2>0, <3>1, Zenon DEF Flow, Trade, Known
    <3>3. en # None => g.o[en].tag = "ENTRY"
      BY <2>0, <2>16, <3>1, <3>2, Zenon DEF Keeps
    <3> QED
      BY <2>13, <3>3, Zenon DEF Known
  <2>20. Covered(g, t, w, p, TRUE)
    BY <2>5, <2>12, <2>13, <2>14, Zenon DEF Covered
  <2>21. Waits(g, t, w, TRUE) /\ Enters(g, t, TRUE)
    BY <2>13, <2>14, Zenon DEF Waits, Enters
  <2>22. Ends(g, t, w, p, TRUE)
    <3>1. en \notin Told(t, "Filled") /\ None \notin Told(t, "Filled") /\ None \notin Told(t, "Rejected")
      BY ONLY <2>0, <2>4 DEF None
    <3> QED
      BY <2>5, <2>13, <3>1, Zenon DEF Ends
  <2>23. Replaces(g, w, p, TRUE)
    BY <2>10, <2>13, <2>14, Zenon DEF Replaces
  <2> QED
    BY <2>17, <2>18, <2>19, <2>20, <2>21, <2>22, <2>23, Zenon DEF Flow, Trade

\* _place_sl gives one command and changes no order there is.
<1>PlaceAsks.
     ASSUME NEW h, Sound(h), NEW side \in Side, NEW px \in Int, NEW g, g = _place_sl(h, side, px)
     PROVE  Places(h, g, side)
  <2> USE <1>PlaceAsks
  <2> DEFINE exit_side == IF side = 1 THEN -1 ELSE 1
             sl_dist   == (px * stop_loss_pct) \div 100
             sl_price  == Price(px + exit_side * sl_dist)
             m         == submit_order(h, "SL", exit_side, 1, sl_price)
             N         == Len(h.o) + 1
  <2>0. exit_side \in Side /\ exit_side \in Int /\ sl_dist \in Int /\ exit_side = -side
    BY ONLY EmaAssumption DEF Side
  <2>1. g = [m EXCEPT !.s.peak_px = px, !.s.trail_px = sl_price, !.s.sl_distance = sl_dist,
                      !.s.trail_active = FALSE, !.s.sl_order_id = Len(m.o)]
    BY Zenon DEF _place_sl
  <2>2. Sound(g)
    BY PlaceSound, Zenon
  <2> HIDE DEF exit_side, sl_dist
  <2>3. sl_price \in Int
    <3>1. px + exit_side * sl_dist \in Int
      BY ONLY <2>0
    <3> QED
      BY <3>1, PriceInt, Zenon
  <2> HIDE DEF sl_price
  <2>4. Submits(h, m, "SL", -side, 1)
    BY <2>0, <2>3, SubmitAsks, Zenon
  <2> HIDE DEF m
  <2>5. Sound(m) /\ m \in Handler /\ m.s \in Fields /\ m.s = h.s /\ Len(m.o) = N
    BY <2>4, Zenon DEF Submits, Sound, Handler
  <2>6. /\ g.o = m.o /\ g.n = m.n /\ g.c = m.c
        /\ g.s = [m.s EXCEPT !.peak_px = px, !.trail_px = sl_price, !.sl_distance = sl_dist,
                             !.trail_active = FALSE, !.sl_order_id = Len(m.o)]
    BY ONLY <2>1, <2>5 DEF Handler
  <2>7. /\ g.s.sl_order_id = N /\ g.s.entry_side = h.s.entry_side
        /\ g.s.entry_order_id = h.s.entry_order_id
    BY ONLY <2>5, <2>6 DEF Fields
  <2>8. /\ \A t \in {"ENTRY", "SL", "CLOSE"} : Tagged(g, t) = Tagged(m, t)
        /\ Ordered(m, 3) => Ordered(g, 3)
    BY ONLY <2>5, <2>6, SameAsks
  <2>9. /\ m.n = h.n /\ Keeps(h, m) /\ m.o[N].tag = "SL" /\ m.o[N].side = -side
        /\ m.o[N].status = "SUBMITTED"
        /\ Asked(m.c, "submit") = Asked(h.c, "submit") \cup {N}
        /\ Asked(m.c, "cancel") = Asked(h.c, "cancel")
        /\ Asked(m.c, "cancel_all") = Asked(h.c, "cancel_all")
        /\ Tagged(m, "SL") = Tagged(h, "SL") \cup {N}
        /\ \A t \in {"ENTRY", "CLOSE"} : Tagged(m, t) = Tagged(h, t)
    BY <2>4, Zenon DEF Submits
  <2>10. Ordered(h, 2) => Ordered(g, 3)
    <3>1. TagRank("SL") = 2
      BY Zenon DEF TagRank
    <3>2. Ordered(h, TagRank("SL")) => Ordered(m, TagRank("SL") + 1)
      BY <2>4, Zenon DEF Submits
    <3>3. Ordered(h, 2) => Ordered(m, 3)
      BY ONLY <3>1, <3>2
    <3> QED
      BY <2>8, <3>3, Zenon
  <2>11. Keeps(h, g)
    BY ONLY <2>6, <2>9 DEF Keeps
  <2> QED
    BY ONLY <2>2, <2>6, <2>7, <2>8, <2>9, <2>10, <2>11 DEF Places

\* The entry has filled: the stop is asked for.
<1>FilledFlow.
     ASSUME NEW h, NEW ev, NEW w, NEW p, NEW e, NEW t, NEW a, Halfway(h, ev, w, p, TRUE, e, t, a),
            e.is = "Filled", e.id = h.s.entry_order_id,
            NEW x, Sound(x), x.o = a.o, x.n = a.n, x.c = a.c, x.s.entry_order_id = None,
            x.s.entry_side = a.s.entry_side,
            NEW g, g = _place_sl(x, a.s.entry_side, e.px)
     PROVE  Flow(g, t, w, p, TRUE)
  <2> USE <1>FilledFlow
  <2> DEFINE N == Len(a.o) + 1
  <2>0. /\ Sound(h) /\ Sound(a) /\ Flow(h, ev, w, p, TRUE) /\ Lanes(a, t, w, p) /\ Venue(a, t, w)
        /\ Accounted(a, t, p) /\ a.s = h.s /\ a.c = h.c /\ Len(a.o) = Len(h.o) /\ Len(h.o) \in Nat
        /\ \A is : Told(t, is) \subseteq Told(ev, is)
        /\ \A is : \A i \in Told(ev, is) : i \in 1 .. Len(h.o)
        /\ e.px \in Int /\ h.s.entry_order_id \in Told(ev, "Filled")
    BY Zenon DEF Halfway, Follows
  <2>1. p = h.s.entry_side /\ p # 0 /\ w = {} /\ h.c = << >> /\ h.s.sl_order_id = None
    BY <2>0, Zenon DEF Flow, Trade, Ends
  <2>2. p \in Side
    BY <2>0, <2>1, Zenon DEF Lanes, Side
  <2>3. x.c = << >> /\ x.s.entry_side = p
    BY <2>0, <2>1, Zenon
  <2>4. /\ \A do : Asked(x.c, do) = {} /\ \A y \in {"ENTRY", "SL", "CLOSE"} : Tagged(x, y) = {}
        /\ Ordered(x, 2)
    BY <2>3, Idle, Zenon
  <2>5. Places(x, g, p)
    BY <2>0, <2>1, <2>2, <2>3, <1>PlaceAsks, Zenon
  <2>6. /\ g.s.sl_order_id = N /\ g.s.entry_side = p /\ g.s.entry_order_id = None
        /\ g.n = a.n /\ Sound(g) /\ Keeps(x, g)
        /\ g.o[N].tag = "SL" /\ g.o[N].side = -p /\ g.o[N].status = "SUBMITTED"
        /\ Asked(g.c, "submit") = {N} /\ Asked(g.c, "cancel") = {} /\ Asked(g.c, "cancel_all") = {}
        /\ Tagged(g, "SL") = {N} /\ Tagged(g, "ENTRY") = {} /\ Tagged(g, "CLOSE") = {}
        /\ Ordered(g, 3)
    BY <2>3, <2>4, <2>5, SoundType, Zenon DEF Places
  <2>7. Keeps(a, g)
    <3>1. Keeps(x, g)
      BY <2>6, Zenon
    <3> QED
      BY <3>1, SMTT(30) DEF Keeps
  <2>8. Ordered(g, 6)
    BY ONLY <2>6, OrderedMore, SMTT(30)
  <2>k. /\ Sound(a) /\ Sound(g) /\ Lanes(a, t, w, p) /\ Venue(a, t, w) /\ Accounted(a, t, p)
        /\ g.n = a.n
        /\ \A i \in Asked(g.c, "submit") : i > Len(a.o) /\ g.o[i].status = "SUBMITTED"
    BY ONLY <2>0, <2>6
  <2>9. Lanes(g, t, w, p)
    BY <2>7, <2>8, <2>k, LanesKept, Zenon
  <2>10. Accounted(g, t, p)
    BY <2>7, <2>k, AccountedKept, Zenon
  <2>11. N # None /\ N \notin Told(t, "Filled") /\ N \notin Told(t, "Rejected") /\ None \notin Told(t, "Filled")
    BY ONLY <2>0, SMTT(30) DEF None
  <2>12. Known(g, TRUE) /\ Covered(g, t, w, p, TRUE) /\ Waits(g, t, w, TRUE)
    BY <2>6, <2>11, Zenon DEF Known, Covered, Waits
  <2>13. Enters(g, t, TRUE) /\ Ends(g, t, w, p, TRUE) /\ Replaces(g, w, p, TRUE)
    BY <2>1, <2>6, <2>11, Zenon DEF Enters, Ends, Replaces
  <2> QED
    BY <2>9, <2>10, <2>12, <2>13, Zenon DEF Flow, Trade

\* on_event.
<1>EventFlow.
     ASSUME NEW h, NEW ev, NEW w, NEW p, NEW e, NEW t, NEW a, Halfway(h, ev, w, p, TRUE, e, t, a)
     PROVE  Flow(on_event(a, e), t, w, p, TRUE)
  <2> USE <1>EventFlow
  <2>0. a.s = h.s
    BY Zenon DEF Halfway
  <2>s. a \in Handler /\ a.s \in Fields /\ Sound(a) /\ Len(a.o) \in Nat
    BY Zenon DEF Halfway, Sound, Handler
  <2>1. CASE e.is = "Rejected" /\ e.id = a.s.sl_order_id
    <3> DEFINE f == [a.s EXCEPT !.sl_order_id = None]
               x == [a EXCEPT !.s.sl_order_id = None]
               q == close_all_positions(cancel_all_orders(x))
               g == [q EXCEPT !.s = trade_over(@)]
    <3>1. on_event(a, e) = g
      BY <2>1, Zenon DEF on_event
    <3>2. f \in Fields /\ f.entry_order_id = a.s.entry_order_id /\ f.sl_order_id = 0
      BY <2>s, Zenon DEF Fields, None
    <3>3. x \in [s : {f}, o : {a.o}, n : {a.n}, c : {a.c}]
      BY <2>s, Zenon DEF Handler
    <3> HIDE DEF f, x
    <3>4. f.entry_order_id <= Len(a.o) /\ f.sl_order_id <= Len(a.o)
      BY ONLY <2>s, <3>2 DEF Sound
    <3>5. Sound(x) /\ x.s = f /\ x.o = a.o /\ x.n = a.n /\ x.c = a.c
      BY <2>s, <3>2, <3>3, <3>4, FieldsSound, Zenon
    <3>6. Quits(x, q)
      BY <3>5, QuitAsks, Zenon
    <3>7. Sound(q)
      BY <3>6, Zenon DEF Quits
    <3>8. q = close_all_positions(cancel_all_orders(x))
      BY Zenon
    <3> HIDE DEF q
    <3>9. /\ Sound(g) /\ g.o = q.o /\ g.n = q.n /\ g.c = q.c
          /\ g.s.sl_order_id = None /\ g.s.entry_order_id = q.s.entry_order_id
      BY <3>7, OverAsks, Zenon
    <3> HIDE DEF g
    <3>10. /\ e.is = "Rejected" /\ e.id = h.s.sl_order_id
           /\ x.s.entry_order_id = a.s.entry_order_id
      BY <2>0, <2>1, <3>2, <3>5, Zenon
    <3>11. Flow(g, t, w, p, TRUE)
      BY <3>5, <3>8, <3>9, <3>10, <1>RefusedFlow, Zenon
    <3> QED
      BY <3>1, <3>11, Zenon
  <2>2. CASE e.is = "Filled" /\ e.id = a.s.entry_order_id
    <3> DEFINE f == [a.s EXCEPT !.entry_px = e.px, !.entry_order_id = None]
               x == [a EXCEPT !.s.entry_px = e.px, !.s.entry_order_id = None]
               g == _place_sl(x, a.s.entry_side, e.px)
    <3>0. e.px \in Int
      BY Zenon DEF Halfway, Follows
    <3>1. on_event(a, e) = g
      BY <2>2, Zenon DEF on_event
    <3>2. /\ f \in Fields /\ f.entry_order_id = 0 /\ f.sl_order_id = a.s.sl_order_id
          /\ f.entry_side = a.s.entry_side /\ f.trail_px = a.s.trail_px
      BY <2>s, <3>0, Zenon DEF Fields, None
    <3>3. x \in [s : {f}, o : {a.o}, n : {a.n}, c : {a.c}]
      BY <2>s, Zenon DEF Handler
    <3> HIDE DEF f, x
    <3>4. /\ f.entry_order_id <= Len(a.o) /\ f.sl_order_id <= Len(a.o)
          /\ f.sl_order_id # 0 => a.o[f.sl_order_id].trigger = Price(f.trail_px)
      BY ONLY <2>s, <3>2 DEF Sound
    <3>5. Sound(x) /\ x.s = f /\ x.o = a.o /\ x.n = a.n /\ x.c = a.c
      BY <2>s, <3>2, <3>3, <3>4, FieldsSound, Zenon
    <3>6. g = _place_sl(x, a.s.entry_side, e.px)
      BY Zenon
    <3> HIDE DEF g
    <3>7. /\ e.is = "Filled" /\ e.id = h.s.entry_order_id
          /\ x.s.entry_order_id = None /\ x.s.entry_side = a.s.entry_side
      BY <2>0, <2>2, <3>2, <3>5, Zenon DEF None
    <3>8. Flow(g, t, w, p, TRUE)
      BY <3>5, <3>6, <3>7, <1>FilledFlow, Zenon
    <3> QED
      BY <3>1, <3>8, Zenon
  <2>3. CASE e.is = "Filled" /\ e.id # a.s.entry_order_id /\ e.id = a.s.sl_order_id
    <3>1. on_event(a, e) = [a EXCEPT !.s = trade_over(@)]
      BY <2>3, Zenon DEF on_event
    <3>2. e.is = "Filled" /\ e.id = h.s.sl_order_id
      BY <2>0, <2>3, Zenon
    <3> DEFINE g == on_event(a, e)
    <3>3. g = [a EXCEPT !.s = trade_over(@)]
      BY <3>1, Zenon
    <3> HIDE DEF g
    <3>4. Flow(g, t, w, p, TRUE)
      BY <3>2, <3>3, <1>StoppedFlow, Zenon
    <3> QED
      BY <3>4, Zenon DEF g
  <2>4. CASE /\ ~(e.is = "Rejected" /\ e.id = a.s.sl_order_id)
             /\ ~(e.is = "Filled" /\ e.id = a.s.entry_order_id)
             /\ ~(e.is = "Filled" /\ e.id # a.s.entry_order_id /\ e.id = a.s.sl_order_id)
    <3>1. on_event(a, e) = a
      BY <2>4, Zenon DEF on_event
    <3>2. Flow(a, t, w, p, TRUE)
      BY <2>0, <2>4, <1>OtherFlow, Zenon
    <3> QED
      BY <3>1, <3>2, Zenon
  <2> QED
    BY <2>1, <2>2, <2>3, <2>4, Zenon
<1> DEFINE e == Head(events)
           a == Applied(e)
           t == Tail(events)
           g == IF running THEN on_event(a, e) ELSE a
<1>1. ~overtaken /\ IInv /\ running \in BOOLEAN /\ running' = running /\ events # << >>
  BY Zenon DEF FlowInv, handle_event
<1>2. Sound(Now) /\ Venue(Now, events, working) /\ Flow(Now, events, working, position, running)
  <2>1. Sound(Now) /\ Now.o = orders
    BY <1>1, NowSound, Zenon DEF IInv
  <2> QED
    BY <1>1, <2>1, Zenon DEF FlowInv, IInv, Venue, OrderIds
<1>3. e \in VenueEvent(Len(orders))
  BY ONLY <1>1 DEF IInv
<1>4. Tells(Now, a, e)
  BY <1>1, <1>3, <1>AppliedTells, Zenon
<1>5. Becomes(g) /\ events' = t /\ VenueUnchanged
  BY Zenon DEF handle_event
<1>6. e = Head(events) /\ t = Tail(events)
  BY Zenon
<1> HIDE DEF e, a, t
<1>7. Halfway(Now, events, working, position, running, e, t, a)
  BY <1>1, <1>2, <1>4, <1>6, <1>HalfwayThere, Zenon
<1>8. Sound(a) /\ e.id \in Nat \ {0} /\ e.px \in Int
  <2>1. Len(orders) \in Nat
    BY <1>2, NowSound, Zenon
  <2> QED
    BY ONLY <1>3, <1>4, <2>1 DEF Tells, VenueEvent
<1>9. CASE running = TRUE
  <2>1. Flow(on_event(a, e), t, working, position, TRUE)
    BY <1>7, <1>9, <1>EventFlow, Zenon
  <2>2. Sound(on_event(a, e))
    BY <1>8, EventSound, Zenon
  <2>3. g = on_event(a, e)
    BY <1>9, Zenon
  <2> QED
    BY <1>1, <1>5, <1>9, <2>1, <2>2, <2>3, BecomesFlow, Zenon
<1>10. CASE running = FALSE
  <2>1. Flow(a, t, working, position, FALSE)
    BY <1>7, <1>10, <1>OtherFlow, Zenon
  <2>2. g = a
    BY <1>10, Zenon
  <2> QED
    BY <1>1, <1>5, <1>8, <1>10, <2>1, <2>2, BecomesFlow, Zenon
<1> QED
  BY <1>1, <1>9, <1>10, Zenon

\* Cancels when there is one stop at most: it stays, or is canceled.
CancelsIt(ids, ev, ev2, w, w2) ==
    \/ w \cap ids = {} /\ ev2 = ev /\ w2 = w
    \/ \E i \in ids : w = {i} /\ w2 = {} /\ ev2 = Append(ev, Event("Canceled", i, 0, 0))

\* What the venue leaves of the commands when it takes the one at the head.
Takes(h, g, x) ==
    /\ Sound(h) /\ Sound(g) /\ g.o = h.o /\ g.n = h.n /\ g.s = h.s /\ h.c # << >> /\ g.c \in Seq(Command)
    /\ x.do \in {"submit", "cancel", "cancel_all"}
    /\ x.id \in Asked(h.c, x.do)
    /\ \A do : Asked(g.c, do) = IF x.do = do THEN Asked(h.c, do) \ {x.id} ELSE Asked(h.c, do)
    /\ \A t \in {"ENTRY", "SL", "CLOSE"} :
          Tagged(g, t) = IF x.do = "submit" THEN Tagged(h, t) \ {x.id} ELSE Tagged(h, t)
    /\ Ordered(g, 6)
    /\ \A i : /\ i \in Asked(h.c, "cancel") => x.do = "cancel" /\ x.id = i
              /\ i \in Tagged(h, "SL") => x.do = "cancel" \/ (x.do = "submit" /\ x.id = i)
              /\ i \in Asked(h.c, "cancel_all")
                   => x.do \in {"cancel", "cancel_all"} \/ (x.do = "submit" /\ h.o[x.id].tag = "SL")
              /\ i \in Tagged(h, "CLOSE")
                   => \/ x.do \in {"cancel", "cancel_all"}
                      \/ x.do = "submit" /\ (h.o[x.id].tag = "SL" \/ x.id = i)
              /\ i \in Tagged(h, "ENTRY") /\ x.do = "submit"
                   => h.o[x.id].tag \in {"SL", "CLOSE"} \/ x.id = i

\* The venue tells one thing about an order that is asked for or open.
Says(h, g, e, w, w2, p2, n) ==
    /\ g.o = h.o /\ Ordered(g, 6) /\ Asked(g.c, "submit") \subseteq Asked(h.c, "submit")
    /\ e \in VenueEvent(n)
    /\ e.id \in w \cup Asked(h.c, "submit") /\ e.id \notin Asked(g.c, "submit")
    /\ e.is \in {"Accepted", "Rejected"} => e.id \in Asked(h.c, "submit")
    /\ e.is = "Filled" => e.quantity = 1
    /\ w2 \subseteq w \cup {e.id} /\ (e.is # "Accepted" => e.id \notin w2)
    /\ p2 \in {-1, 0, 1} /\ \A i, j \in w2 : i = j
    /\ \A i \in w2 : h.o[i].tag = "SL" /\ h.o[i].side = -p2

\* The lanes then.
LEMMA LanesMove ==
  ASSUME NEW h, NEW g, NEW ev, NEW w, NEW p, Lanes(h, ev, w, p), NEW w2, NEW p2,
         NEW n, ev \in Seq(VenueEvent(n)), NEW e, NEW ev2, ev2 = Append(ev, e),
         Says(h, g, e, w, w2, p2, n)
  PROVE  Lanes(g, ev2, w2, p2)
<1>0. /\ g.o = h.o /\ Ordered(g, 6) /\ Asked(g.c, "submit") \subseteq Asked(h.c, "submit")
      /\ e \in VenueEvent(n)
      /\ e.id \in w \cup Asked(h.c, "submit") /\ e.id \notin Asked(g.c, "submit")
      /\ e.is \in {"Accepted", "Rejected"} => e.id \in Asked(h.c, "submit")
      /\ e.is = "Filled" => e.quantity = 1
      /\ w2 \subseteq w \cup {e.id} /\ (e.is # "Accepted" => e.id \notin w2)
      /\ p2 \in {-1, 0, 1} /\ \A i, j \in w2 : i = j
      /\ \A i \in w2 : h.o[i].tag = "SL" /\ h.o[i].side = -p2
  BY Zenon DEF Says
<1> DEFINE id == e.id
<1>1. \A is : Told(ev2, is) = IF e.is = is THEN Told(ev, is) \cup {id} ELSE Told(ev, is)
  BY <1>0, ToldAppend
<1>2. id \notin Told(ev, "Rejected") /\ id \notin Told(ev, "Canceled") /\ id \notin Told(ev, "Filled")
  BY <1>0, Zenon DEF Lanes
<1>3. id \in Asked(h.c, "submit") => id \notin Told(ev, "Accepted") /\ h.o[id].status = "SUBMITTED"
  BY Zenon DEF Lanes
<1>4. e.is \in {"Accepted", "Rejected", "Canceled", "Filled"}
  BY <1>0, Zenon DEF VenueEvent
<1>5. id \notin Told(ev, e.is)
  BY <1>0, <1>2, <1>3, <1>4, Zenon
<1>6. /\ Len(ev2) = Len(ev) + 1 /\ ev2[Len(ev) + 1] = e /\ Len(ev) \in Nat
      /\ \A k \in 1 .. Len(ev) : ev2[k] = ev[k]
  BY <1>0
<1>7. Apart(ev2)
  <2>1. \A k \in 1 .. Len(ev) : ~(ev[k].is = e.is /\ ev[k].id = id)
    BY <1>5, Zenon DEF Told
  <2>2. \A k, l \in 1 .. Len(ev) : ev[k].is = ev[l].is /\ ev[k].id = ev[l].id => k = l
    BY Zenon DEF Lanes, Apart
  <2>3. \A k \in 1 .. Len(ev2) : k \in 1 .. Len(ev) \/ k = Len(ev) + 1
    BY ONLY <1>6
  <2>4. ASSUME NEW k \in 1 .. Len(ev2), NEW l \in 1 .. Len(ev2), ev2[k].is = ev2[l].is, ev2[k].id = ev2[l].id
        PROVE  k = l
    <3>1. CASE k \in 1 .. Len(ev) /\ l \in 1 .. Len(ev)
      BY <1>6, <2>2, <2>4, <3>1, Zenon
    <3>2. CASE k \in 1 .. Len(ev) /\ l = Len(ev) + 1
      BY <1>6, <2>1, <2>4, <3>2, Zenon
    <3>3. CASE k = Len(ev) + 1 /\ l \in 1 .. Len(ev)
      BY <1>6, <2>1, <2>4, <3>3, Zenon
    <3>4. CASE k = Len(ev) + 1 /\ l = Len(ev) + 1
      BY <3>4, Zenon
    <3> QED
      BY <2>3, <3>1, <3>2, <3>3, <3>4, Zenon
  <2> QED
    BY <2>4, Zenon DEF Apart
<1>8. \A k \in 1 .. Len(ev2) : ev2[k].is = "Filled" => ev2[k].quantity = 1
  <2>1. \A k \in 1 .. Len(ev2) : k \in 1 .. Len(ev) \/ k = Len(ev) + 1
    BY ONLY <1>6
  <2> QED
    BY <1>0, <1>6, <2>1 DEF Lanes
<1>9. ASSUME NEW i \in w2
      PROVE  /\ h.o[i].status \in {"SUBMITTED", "ACCEPTED", "PENDING_CANCEL"}
             /\ i \notin Asked(g.c, "submit") /\ i \notin Told(ev2, "Rejected")
             /\ i \notin Told(ev2, "Canceled") /\ i \notin Told(ev2, "Filled")
  <2>1. CASE i = id
    <3>1. e.is = "Accepted" /\ id \in Asked(h.c, "submit")
      BY <1>0, <2>1, Zenon
    <3> QED
      BY <1>0, <1>1, <1>2, <1>3, <2>1, <3>1, Zenon
  <2>2. CASE i # id
    <3>1. i \in w
      BY <1>0, <2>2, Zenon
    <3>2. /\ h.o[i].status \in {"SUBMITTED", "ACCEPTED", "PENDING_CANCEL"}
          /\ i \notin Asked(h.c, "submit") /\ i \notin Told(ev, "Rejected")
          /\ i \notin Told(ev, "Canceled") /\ i \notin Told(ev, "Filled")
      BY <3>1, Zenon DEF Lanes
    <3> QED
      BY ONLY <1>0, <1>1, <2>2, <3>2
  <2> QED
    BY <2>1, <2>2, Zenon
<1>10. ASSUME NEW i \in Asked(g.c, "submit")
       PROVE  /\ h.o[i].status = "SUBMITTED"
              /\ i \notin Told(ev2, "Accepted") /\ i \notin Told(ev2, "Rejected")
              /\ i \notin Told(ev2, "Canceled") /\ i \notin Told(ev2, "Filled")
  <2>1. i # id /\ i \in Asked(h.c, "submit")
    BY <1>0, Zenon
  <2>2. /\ h.o[i].status = "SUBMITTED"
        /\ i \notin Told(ev, "Accepted") /\ i \notin Told(ev, "Rejected")
        /\ i \notin Told(ev, "Canceled") /\ i \notin Told(ev, "Filled")
    BY <2>1, Zenon DEF Lanes
  <2> QED
    BY <1>1, <2>1, <2>2, Zenon
<1>11. ASSUME NEW i \in Told(ev2, "Rejected")
       PROVE  /\ h.o[i].status = "SUBMITTED"
              /\ i \notin Told(ev2, "Accepted")
              /\ i \notin Told(ev2, "Canceled") /\ i \notin Told(ev2, "Filled")
  <2>1. CASE i = id
    <3>1. e.is = "Rejected"
      BY <1>1, <1>2, <2>1, Zenon
    <3>2. id \in Asked(h.c, "submit")
      BY <1>0, <3>1, Zenon
    <3> QED
      BY <1>1, <1>2, <1>3, <2>1, <3>1, <3>2, Zenon
  <2>2. CASE i # id
    <3>1. i \in Told(ev, "Rejected")
      BY <1>1, <2>2, SoundType, Zenon
    <3>2. /\ h.o[i].status = "SUBMITTED" /\ i \notin Told(ev, "Accepted")
          /\ i \notin Told(ev, "Canceled") /\ i \notin Told(ev, "Filled")
      BY <3>1, Zenon DEF Lanes
    <3> QED
      BY <1>1, <2>2, <3>2, Zenon
  <2> QED
    BY <2>1, <2>2, Zenon
<1> QED
  BY ONLY <1>0, <1>7, <1>8, <1>9, <1>10, <1>11 DEF Lanes

\* What holds when the venue takes a command.
Taking(h, g, x, ev, w, p, r) ==
    /\ Takes(h, g, x) /\ Venue(h, ev, w) /\ Flow(h, ev, w, p, r) /\ Len(h.o) \in Nat

\* Without a fill on its way the cache and the venue agree on the position.
LEMMA NoFills ==
  ASSUME NEW h, Sound(h), NEW ev, NEW w, NEW p, Venue(h, ev, w), Accounted(h, ev, p)
  PROVE  Told(ev, "Filled") = {} <=> h.n = p
<1>1. h.n \in Int /\ h.o \in Seq(Order) /\ Len(h.o) \in Nat
  BY SoundType, Zenon
<1>2. ASSUME NEW i \in Told(ev, "Filled")
      PROVE  h.o[i].side \in {1, -1}
  <2>1. i \in 1 .. Len(h.o)
    BY <1>1, ToldExist, Zenon DEF Venue
  <2>2. h.o[i] \in Order
    BY <1>1, <2>1, SoundType, Zenon
  <2> QED
    BY <2>2, Zenon DEF Order, Side
<1>3. h.n = p => Told(ev, "Filled") = {}
  BY <1>1, <1>2, SMTT(30) DEF Accounted
<1>4. Told(ev, "Filled") = {} => h.n = p
  BY Zenon DEF Accounted
<1> QED
  BY <1>3, <1>4, Zenon

\* When the venue takes the submission of a stop, the one before is gone and no fill
\* is on its way.
StopReady(h, g, id, ev, w, r) ==
    /\ r /\ w = {} /\ Told(ev, "Filled") = {} /\ Tagged(h, "SL") = {id}
    /\ g.o = h.o /\ g.n = h.n /\ g.s = h.s /\ Ordered(g, 6)
    /\ id \in Asked(h.c, "submit") /\ Asked(g.c, "submit") = Asked(h.c, "submit") \ {id}
    /\ Asked(g.c, "cancel") = {} /\ Asked(g.c, "cancel_all") = Asked(h.c, "cancel_all")
    /\ Tagged(g, "ENTRY") = Tagged(h, "ENTRY") /\ Tagged(g, "SL") = {}
    /\ Tagged(g, "CLOSE") = Tagged(h, "CLOSE")
    /\ h.s.sl_order_id # None => h.s.sl_order_id = id

\* When the venue takes the order that closes a position, the stop is gone, no fill
\* is on its way, and no stop is waited for.
CloseReady(h, g, id, ev, w, p, r) ==
    /\ w = {} /\ Told(ev, "Filled") = {}
    /\ g.o = h.o /\ g.n = h.n /\ g.s = h.s /\ Ordered(g, 6)
    /\ id \in Asked(h.c, "submit") /\ Asked(g.c, "submit") = Asked(h.c, "submit") \ {id}
    /\ Asked(g.c, "cancel") = {}
    /\ Tagged(g, "ENTRY") = Tagged(h, "ENTRY") /\ Tagged(g, "SL") = {}
    /\ Tagged(h, "CLOSE") = {id} /\ Tagged(g, "CLOSE") = {}
    /\ r => h.s.sl_order_id = None /\ h.s.entry_order_id # id
    /\ p # 0 => h.o[id].side = -p /\ h.o[id].quantity = 1

\* When the venue takes an entry, it is the last command, there is no position and no
\* stop, and at most the fill that closed the last trade is on its way.
EntryReady(h, g, id, ev, w, p, r) ==
    /\ r /\ w = {} /\ p = 0 /\ g.c = << >> /\ Ordered(g, 6)
    /\ g.o = h.o /\ g.n = h.n /\ g.s = h.s
    /\ h.s.entry_order_id = id /\ h.s.entry_side = h.o[id].side /\ h.s.sl_order_id = None
    /\ id \in Asked(h.c, "submit") /\ id \notin Told(ev, "Filled")
    /\ \A f \in Told(ev, "Filled") : h.o[f].side = h.o[id].side
    /\ \A f, k \in Told(ev, "Filled") : f = k

\* match_stop_market_order.
LEMMA match_stopFlow ==
  ASSUME FlowInv, match_stop_market_order, ~overtaken'
  PROVE  Flow(Now, events, working, position, running)'

\* The stop at the venue triggers: it closes the position.
<1>MatchFlow.
     ASSUME NEW h, Sound(h), NEW ev, NEW w, NEW p, NEW r, Venue(h, ev, w), Flow(h, ev, w, p, r),
            NEW id \in w, NEW px \in Int, NEW ev2, ev2 = Append(ev, Event("Filled", id, 1, px)),
            NEW w2, w2 = w \ {id}, NEW p2, p2 = p + h.o[id].side * 1
     PROVE  h.n # 0 /\ Flow(h, ev2, w2, p2, r)
  <2> USE <1>MatchFlow
  <2> DEFINE e == Event("Filled", id, 1, px)
  <2>1. /\ Lanes(h, ev, w, p) /\ Accounted(h, ev, p) /\ Known(h, r) /\ Covered(h, ev, w, p, r)
        /\ Waits(h, ev, w, r) /\ Enters(h, ev, r) /\ Ends(h, ev, w, p, r) /\ Replaces(h, w, p, r)
    BY Zenon DEF Flow, Trade
  <2>2. /\ id \in 1 .. Len(h.o) /\ Len(h.o) \in Nat /\ ev \in Seq(VenueEvent(Len(h.o))) /\ h.n \in Int
    BY SoundType, Zenon DEF Venue
  <2>3. e \in VenueEvent(Len(h.o)) /\ e.is = "Filled" /\ e.id = id /\ e.quantity = 1
    BY <2>2, Zenon DEF Event, VenueEvent
  <2>4. ev2 = Append(ev, e)
    BY Zenon
  <2> HIDE DEF e
  <2>5. Told(ev, "Filled") = {}
    BY <2>1, Zenon DEF Ends
  <2>6. h.n = p
    BY <2>1, <2>5, NoFills, Zenon
  <2>7. p # 0
    BY <2>1, StopMeansPosition, Zenon
  <2>8. h.o[id].tag = "SL" /\ h.o[id].side = -p /\ p \in {-1, 0, 1} /\ w = {id} /\ w2 = {}
    BY <2>1 DEF Lanes
  <2>9. p2 = 0 /\ p2 = h.n + h.o[id].side
    BY <2>6, <2>8
  <2>10. Told(ev2, "Filled") = {id} /\ Told(ev2, "Rejected") = Told(ev, "Rejected")
    BY ONLY <2>2, <2>3, <2>4, <2>5, ToldAppend
  <2>11. id \notin Asked(h.c, "submit") /\ Ordered(h, 6)
    BY <2>1, Zenon DEF Lanes
  <2>12. Says(h, h, e, w, w2, p2, Len(h.o))
    BY <2>3, <2>8, <2>9, <2>11, Zenon DEF Says
  <2>13. Lanes(h, ev2, w2, p2)
    BY <2>1, <2>2, <2>4, <2>12, LanesMove, Zenon
  <2>14. Accounted(h, ev2, p2)
    BY <2>9, <2>10, Zenon DEF Accounted
  <2>15. Covered(h, ev2, w2, p2, r)
    BY <2>9, Zenon DEF Covered
  <2>16. Waits(h, ev2, w2, r)
    BY <2>1, <2>5, <2>8, <2>10, Zenon DEF Waits
  <2>17. Enters(h, ev2, r)
    <3>1. ASSUME NEW i \in Tagged(h, "ENTRY")
          PROVE  h.o[i].side = -p
      <4>1. PICK c \in Tagged(h, "CLOSE") : h.o[c].side = -p
        BY <2>1, <2>5, <2>7, Zenon DEF Covered, Enters
      <4> QED
        BY <2>1, <4>1, Zenon DEF Enters
    <3> QED
      BY <2>1, <2>8, <2>10, <3>1, Zenon DEF Enters
  <2>18. Ends(h, ev2, w2, p2, r)
    <3>1. id # None
      BY ONLY <2>2 DEF None
    <3>2. r => h.s.entry_order_id # id
      BY <2>1, <2>8, <3>1, Zenon DEF Known
    <3> QED
      BY <2>8, <2>9, <2>10, <3>2, Zenon DEF Ends
  <2>19. Replaces(h, w2, p2, r)
    BY <2>1, <2>8, <2>9, Zenon DEF Replaces
  <2>20. Flow(h, ev2, w2, p2, r)
    BY <2>1, <2>13, <2>14, <2>15, <2>16, <2>17, <2>18, <2>19, Zenon DEF Flow, Trade
  <2> QED
    BY <2>6, <2>7, <2>20, Zenon
<1>1. ~overtaken /\ IInv
  BY Zenon DEF FlowInv, match_stop_market_order
<1>2. /\ Sound(Now) /\ Venue(Now, events, working) /\ Flow(Now, events, working, position, running)
      /\ Now.o = orders /\ Now.n = net /\ orders \in Seq(Order) /\ working \subseteq OrderIds
  <2>1. Sound(Now) /\ Now.o = orders /\ Now.n = net /\ orders \in Seq(Order)
    BY <1>1, NowSound, Zenon DEF IInv
  <2> QED
    BY <1>1, <2>1, Zenon DEF FlowInv, IInv, Venue, OrderIds
<1>3. PICK id \in working :
         IF net = 0 THEN Cancels({id}) ELSE fill_order(id, 1, orders[id].trigger)
  BY Zenon DEF match_stop_market_order
<1> DEFINE px == orders[id].trigger
<1>4. px \in Int
  <2>1. orders[id] \in Order
    BY <1>2, SoundType, Zenon DEF OrderIds
  <2> QED
    BY <2>1, Zenon DEF Order
<1> HIDE DEF px
<1> DEFINE ev2 == Append(events, Event("Filled", id, 1, px))
           w2  == working \ {id}
           p2  == position + orders[id].side * 1
<1>5. net # 0 /\ Flow(Now, ev2, w2, p2, running)
  BY <1>2, <1>4, <1>MatchFlow, Zenon
<1>6. events' = ev2 /\ working' = w2 /\ position' = p2
  BY <1>3, <1>5, Zenon DEF fill_order, px
<1>7. Now' = Now /\ running' = running
  BY Zenon DEF match_stop_market_order, StrategyUnchanged, Now
<1> QED
  BY <1>5, <1>6, <1>7, Zenon

\* process_command keeps Flow unless it decides by a stale cache.
LEMMA process_commandFlow ==
  ASSUME FlowInv, process_command, ~overtaken'
  PROVE  Flow(Now, events, working, position, running)'

\* What is asked once the command at the head is taken.
<1>AskedTail.
     ASSUME NEW c \in Seq(Command), c # << >>, NEW do,
            \A k, l \in 1 .. Len(c) : c[k].do = c[l].do /\ c[k].id = c[l].id => k = l
     PROVE  Asked(Tail(c), do) = IF Head(c).do = do THEN Asked(c, do) \ {Head(c).id} ELSE Asked(c, do)
  <2> USE <1>AskedTail
  <2> DEFINE d == Tail(c)
  <2>1. /\ Len(c) \in Nat \ {0} /\ Head(c) = c[1] /\ Len(Tail(c)) = Len(c) - 1
        /\ \A k \in 1 .. Len(Tail(c)) : Tail(c)[k] = c[k + 1]
    OBVIOUS
  <2> HIDE DEF d
  <2>2. /\ Len(c) \in Nat \ {0} /\ Len(d) = Len(c) - 1
        /\ \A k \in 1 .. Len(d) : d[k] = c[k + 1]
    BY <2>1, Zenon DEF d
  <2>3. ASSUME NEW i \in Asked(d, do)
        PROVE  i \in IF c[1].do = do THEN Asked(c, do) \ {c[1].id} ELSE Asked(c, do)
    <3>1. PICK k \in 1 .. Len(d) : d[k].do = do /\ d[k].id = i
      BY <2>3, Zenon DEF Asked
    <3>2. k + 1 \in 1 .. Len(c) /\ c[k + 1].do = do /\ c[k + 1].id = i /\ k + 1 # 1 /\ 1 \in 1 .. Len(c)
      BY ONLY <2>2, <3>1
    <3>3. i \in Asked(c, do)
      BY <3>2, Zenon DEF Asked
    <3>4. c[1].do = do => c[1].id # i
      BY <3>2, Zenon
    <3> QED
      BY <3>3, <3>4, Zenon
  <2>4. ASSUME NEW i \in Asked(c, do), ~(c[1].do = do /\ c[1].id = i)
        PROVE  i \in Asked(d, do)
    <3>1. PICK k \in 1 .. Len(c) : c[k].do = do /\ c[k].id = i
      BY <2>4, Zenon DEF Asked
    <3>2. k # 1
      BY <2>4, <3>1, Zenon
    <3>3. k - 1 \in 1 .. Len(d) /\ (k - 1) + 1 = k
      BY ONLY <2>2, <3>2
    <3>4. d[k - 1] = c[k]
      BY <2>2, <3>3, Zenon
    <3> QED
      BY <3>1, <3>3, <3>4, Zenon DEF Asked
  <2>5. Asked(d, do) = IF c[1].do = do THEN Asked(c, do) \ {c[1].id} ELSE Asked(c, do)
    BY <2>3, <2>4, Zenon
  <2> QED
    BY <2>1, <2>5, Zenon DEF d

\* One command less.
<1>OrderedTail. ASSUME NEW h, NEW g, h.c \in Seq(Command), h.c # << >>, g.c = Tail(h.c), g.o = h.o,
                       NEW r, Ordered(h, r)
                PROVE  Ordered(g, r)
  <2> USE <1>OrderedTail
  <2>1. /\ Len(h.c) \in Nat \ {0} /\ Len(g.c) = Len(h.c) - 1
        /\ \A k \in 1 .. Len(g.c) : g.c[k] = h.c[k + 1] /\ k + 1 \in 1 .. Len(h.c)
    OBVIOUS
  <2>2. ASSUME NEW k \in 1 .. Len(g.c)
        PROVE  Rank(g.o, g.c[k]) < r
    BY <2>1, Zenon DEF Ordered
  <2>3. ASSUME NEW k \in 1 .. Len(g.c), NEW l \in 1 .. Len(g.c), k < l
        PROVE  Rank(g.o, g.c[k]) < Rank(g.o, g.c[l])
    <3>1. k + 1 \in 1 .. Len(h.c) /\ l + 1 \in 1 .. Len(h.c) /\ k + 1 < l + 1
      BY ONLY <2>1, <2>3
    <3> QED
      BY <2>1, <3>1, Zenon DEF Ordered
  <2> QED
    BY <2>2, <2>3, Zenon DEF Ordered

\* No command is given twice.
<1>OrderedApart.
     ASSUME NEW h, NEW r, Ordered(h, r), h.c \in Seq(Command),
            NEW k \in 1 .. Len(h.c), NEW l \in 1 .. Len(h.c), h.c[k].do = h.c[l].do, h.c[k].id = h.c[l].id
     PROVE  k = l
  <2> USE <1>OrderedApart
  <2>1. Rank(h.o, h.c[k]) = Rank(h.o, h.c[l])
    BY Zenon DEF Rank
  <2>2. Rank(h.o, h.c[k]) \in Int
    BY ONLY RankType
  <2>3. ~(k < l) /\ ~(l < k)
    BY <2>1, <2>2, SMTT(30) DEF Ordered
  <2> QED
    BY ONLY <2>3

\* What may still follow the command at the head.
<1>HeadFirst.
     ASSUME NEW h, Ordered(h, 6), h.c \in Seq(Command), h.c # << >>, NEW x, x = Head(h.c),
            NEW i
     PROVE  /\ i \in Asked(h.c, "cancel") => x.do = "cancel" /\ x.id = i
            /\ i \in Tagged(h, "SL") => x.do = "cancel" \/ (x.do = "submit" /\ x.id = i)
            /\ i \in Asked(h.c, "cancel_all")
                 => x.do \in {"cancel", "cancel_all"} \/ (x.do = "submit" /\ h.o[x.id].tag = "SL")
            /\ i \in Tagged(h, "CLOSE")
                 => \/ x.do \in {"cancel", "cancel_all"}
                    \/ x.do = "submit" /\ (h.o[x.id].tag = "SL" \/ x.id = i)
            /\ i \in Tagged(h, "ENTRY") /\ x.do = "submit" => h.o[x.id].tag \in {"SL", "CLOSE"} \/ x.id = i
  <2> USE <1>HeadFirst
  <2>1. /\ Len(h.c) \in Nat \ {0} /\ x = h.c[1] /\ x \in Command
    OBVIOUS
  <2>2. x.do \in {"submit", "cancel", "cancel_all"}
    BY ONLY <2>1 DEF Command, CancelAll
  <2>3. ASSUME NEW k \in 1 .. Len(h.c)
        PROVE  h.c[k] = x \/ Rank(h.o, x) < Rank(h.o, h.c[k])
    <3>1. CASE k = 1
      BY <2>1, <3>1, Zenon
    <3>2. CASE k # 1
      BY <2>1, <3>2 DEF Ordered
    <3> QED
      BY <3>1, <3>2, Zenon
  <2>4. i \in Asked(h.c, "cancel") => x.do = "cancel" /\ x.id = i
    <3> SUFFICES ASSUME NEW k \in 1 .. Len(h.c), h.c[k].do = "cancel", h.c[k].id = i
                 PROVE  x.do = "cancel" /\ x.id = i
      BY Zenon DEF Asked
    <3>1. Rank(h.o, h.c[k]) = 1 /\ Rank(h.o, x) \in 1 .. 5
      BY RankType, Zenon
    <3> QED
      BY <2>3, <3>1
  <2>5. i \in Tagged(h, "SL") => x.do = "cancel" \/ (x.do = "submit" /\ x.id = i)
    <3> SUFFICES ASSUME NEW k \in 1 .. Len(h.c), h.c[k].do = "submit", h.c[k].id = i, h.o[i].tag = "SL"
                 PROVE  x.do = "cancel" \/ (x.do = "submit" /\ x.id = i)
      BY Zenon DEF Asked, Tagged
    <3>1. Rank(h.o, h.c[k]) = 2
      BY RankType, SoundType, Zenon DEF TagRank
    <3>2. Rank(h.o, x) < 2 => x.do = "cancel"
      BY ONLY <2>2, RankType DEF TagRank
    <3> QED
      BY <2>3, <3>1, <3>2, Zenon
  <2>6. i \in Asked(h.c, "cancel_all")
          => x.do \in {"cancel", "cancel_all"} \/ (x.do = "submit" /\ h.o[x.id].tag = "SL")
    <3> SUFFICES ASSUME NEW k \in 1 .. Len(h.c), h.c[k].do = "cancel_all"
                 PROVE  x.do \in {"cancel", "cancel_all"} \/ (x.do = "submit" /\ h.o[x.id].tag = "SL")
      BY Zenon DEF Asked
    <3>1. Rank(h.o, h.c[k]) = 3
      BY RankType, Zenon
    <3>2. Rank(h.o, x) < 3 => x.do = "cancel" \/ (x.do = "submit" /\ h.o[x.id].tag = "SL")
      BY ONLY <2>2, RankType DEF TagRank
    <3> QED
      BY <2>3, <3>1, <3>2, Zenon
  <2>7. i \in Tagged(h, "CLOSE")
          => \/ x.do \in {"cancel", "cancel_all"}
             \/ x.do = "submit" /\ (h.o[x.id].tag = "SL" \/ x.id = i)
    <3> SUFFICES ASSUME NEW k \in 1 .. Len(h.c), h.c[k].do = "submit", h.c[k].id = i, h.o[i].tag = "CLOSE"
                 PROVE  \/ x.do \in {"cancel", "cancel_all"}
                        \/ x.do = "submit" /\ (h.o[x.id].tag = "SL" \/ x.id = i)
      BY Zenon DEF Asked, Tagged
    <3>1. Rank(h.o, h.c[k]) = 4
      BY RankType DEF TagRank
    <3>2. Rank(h.o, x) < 4 => x.do # "submit" \/ h.o[x.id].tag = "SL"
      BY ONLY <2>2, RankType DEF TagRank
    <3> QED
      BY <2>2, <2>3, <3>1, <3>2, Zenon
  <2>8. i \in Tagged(h, "ENTRY") /\ x.do = "submit" => h.o[x.id].tag \in {"SL", "CLOSE"} \/ x.id = i
    <3> SUFFICES ASSUME NEW k \in 1 .. Len(h.c), h.c[k].do = "submit", h.c[k].id = i, h.o[i].tag = "ENTRY",
                        x.do = "submit"
                 PROVE  h.o[x.id].tag \in {"SL", "CLOSE"} \/ x.id = i
      BY Zenon DEF Asked, Tagged
    <3>1. Rank(h.o, h.c[k]) = 5
      BY RankType DEF TagRank
    <3>2. Rank(h.o, x) < 5 => h.o[x.id].tag \in {"SL", "CLOSE"}
      BY RankType DEF TagRank
    <3> QED
      BY <2>3, <3>1, <3>2, Zenon
  <2> QED
    BY <2>4, <2>5, <2>6, <2>7, <2>8, Zenon

\* Cancels, of the commands cancel and cancel_all, is one of the two.
<1>CancelsOne. ASSUME IInv, NEW ids, Cancels(ids), \A i, j \in working : i = j
               PROVE  CancelsIt(ids, events, events', working, working') /\ position' = position
  <2> USE <1>CancelsOne
  <2> DEFINE found == working \cap ids
             V == VenueEvent(Len(orders))
  <2>1. working \subseteq OrderIds /\ events \in Seq(V) /\ Len(orders) \in Nat
    BY NowSound, Zenon DEF IInv
  <2>2. position' = position /\ working' = working \ ids
    BY Zenon DEF Cancels
  <2>b. PICK n, list :
          /\ n \in 0 .. Len(orders)
          /\ list \in Injection(1 .. n, found)
          /\ list \in Surjection(1 .. n, found)
          /\ events' = events \o [k \in 1 .. n |-> Event("Canceled", list[k], 0, 0)]
    BY Zenon DEF Cancels, Bijection
  <2>3. /\ n \in 0 .. Len(orders)
        /\ list \in [1 .. n -> found]
        /\ \A j, k \in 1 .. n : list[j] = list[k] => j = k
        /\ \A i \in found : \E k \in 1 .. n : list[k] = i
        /\ events' = events \o [k \in 1 .. n |-> Event("Canceled", list[k], 0, 0)]
    BY <2>b, Zenon DEF Injection, Surjection, IsInjective
  <2> DEFINE canceled == [k \in 1 .. n |-> Event("Canceled", list[k], 0, 0)]
  <2>4. CASE found = {}
    <3>1. n = 0
      <4> SUFFICES ASSUME n # 0
                   PROVE  FALSE
        BY Zenon
      <4>1. 1 \in 1 .. n
        BY <2>1, <2>3
      <4> QED
        BY <2>3, <2>4, <4>1, Zenon
    <3>2. canceled = << >>
      BY ONLY <3>1
    <3> HIDE DEF canceled
    <3>3. events' = events \o canceled
      BY <2>3, Zenon DEF canceled
    <3>4. events' = events
      BY ONLY <2>1, <3>2, <3>3
    <3> QED
      BY <2>2, <2>4, <3>4, Zenon DEF CancelsIt
  <2>5. CASE found # {}
    <3>1. PICK i \in found : working = {i} /\ found = {i}
      BY <2>5, Zenon
    <3>2. \A k \in 1 .. n : list[k] = i
      BY <2>3, <3>1, Zenon
    <3>3. n = 1
      <4>1. n # 0
        BY ONLY <2>3, <3>1
      <4>2. n > 1 => 1 \in 1 .. n /\ 2 \in 1 .. n
        BY ONLY <2>1, <2>3
      <4> QED
        BY ONLY <2>1, <2>3, <3>2, <4>1, <4>2
    <3>4. list[1] = i
      BY ONLY <3>2, <3>3
    <3> DEFINE x == Event("Canceled", i, 0, 0)
    <3>5. x \in V
      BY ONLY <2>1, <3>1 DEF Event, VenueEvent, OrderIds
    <3>6. canceled = [k \in 1 .. 1 |-> x]
      BY ONLY <3>3, <3>4
    <3> HIDE DEF canceled, x
    <3>7. canceled = << x >>
      BY ONLY <3>6
    <3>8. events' = events \o canceled
      BY <2>3, Zenon DEF canceled
    <3>9. events' = Append(events, x)
      BY ONLY <2>1, <3>5, <3>7, <3>8
    <3>10. working' = {}
      BY <2>2, <3>1, Zenon
    <3> QED
      BY <2>2, <3>1, <3>9, <3>10, Zenon DEF CancelsIt, x
  <2> QED
    BY <2>4, <2>5, Zenon

\* Commands in order are taken in order.
<1>TakeHead. ASSUME NEW h, Sound(h), Ordered(h, 6), h.c # << >>, NEW x, x = Head(h.c),
                    NEW g, Sound(g), g.o = h.o, g.n = h.n, g.s = h.s, g.c = Tail(h.c)
             PROVE  Takes(h, g, x)
  <2> USE <1>TakeHead
  <2>1. /\ h.c \in Seq(Command) /\ g.c \in Seq(Command) /\ x = h.c[1] /\ 1 \in 1 .. Len(h.c)
        /\ x \in Command
    BY DEF Sound, Handler
  <2>2. x.do \in {"submit", "cancel", "cancel_all"}
    BY ONLY <2>1 DEF Command, CancelAll
  <2>3. x.id \in Asked(h.c, x.do)
    BY <2>1, Zenon DEF Asked
  <2>4. \A k, l \in 1 .. Len(h.c) : h.c[k].do = h.c[l].do /\ h.c[k].id = h.c[l].id => k = l
    BY <2>1, <1>OrderedApart, Zenon
  <2>5. \A do : Asked(g.c, do) = IF x.do = do THEN Asked(h.c, do) \ {x.id} ELSE Asked(h.c, do)
    <3>1. ASSUME NEW do
          PROVE  Asked(Tail(h.c), do)
                   = IF Head(h.c).do = do THEN Asked(h.c, do) \ {Head(h.c).id} ELSE Asked(h.c, do)
      BY <2>1, <2>4, <1>AskedTail, Zenon
    <3> QED
      BY <3>1, Zenon
  <2>6. \A t \in {"ENTRY", "SL", "CLOSE"} :
            Tagged(g, t) = IF x.do = "submit" THEN Tagged(h, t) \ {x.id} ELSE Tagged(h, t)
    BY <2>5, Zenon DEF Tagged
  <2>7. Ordered(g, 6)
    BY <2>1, <1>OrderedTail
  <2>8. \A i : /\ i \in Asked(h.c, "cancel") => x.do = "cancel" /\ x.id = i
               /\ i \in Tagged(h, "SL") => x.do = "cancel" \/ (x.do = "submit" /\ x.id = i)
               /\ i \in Asked(h.c, "cancel_all")
                    => x.do \in {"cancel", "cancel_all"} \/ (x.do = "submit" /\ h.o[x.id].tag = "SL")
               /\ i \in Tagged(h, "CLOSE")
                    => \/ x.do \in {"cancel", "cancel_all"}
                       \/ x.do = "submit" /\ (h.o[x.id].tag = "SL" \/ x.id = i)
               /\ i \in Tagged(h, "ENTRY") /\ x.do = "submit"
                    => h.o[x.id].tag \in {"SL", "CLOSE"} \/ x.id = i
    BY <2>1, <1>HeadFirst, Zenon
  <2> QED
    BY <2>1, <2>2, <2>3, <2>5, <2>6, <2>7, <2>8, Zenon DEF Takes

\* The lanes when the venue says nothing.
<1>LanesLess.
     ASSUME NEW h, NEW g, g.o = h.o, Ordered(g, 6), Asked(g.c, "submit") \subseteq Asked(h.c, "submit"),
            NEW ev, NEW w, NEW p, Lanes(h, ev, w, p), NEW w2, w2 \subseteq w
     PROVE  Lanes(g, ev, w2, p)
  BY ONLY <1>LanesLess DEF Lanes

\* cancel of a stop.
<1>CancelFlow.
     ASSUME NEW h, NEW g, NEW x, NEW ev, NEW w, NEW p, NEW r, Taking(h, g, x, ev, w, p, r),
            x.do = "cancel", NEW ev2, NEW w2, CancelsIt({x.id}, ev, ev2, w, w2)
     PROVE  Flow(g, ev2, w2, p, r)
  <2> USE <1>CancelFlow
  <2> DEFINE id == x.id
             sl == h.s.sl_order_id
             en == h.s.entry_order_id
  <2>0. /\ Sound(h) /\ g.o = h.o /\ g.n = h.n /\ g.s = h.s /\ Ordered(g, 6) /\ h.c # << >>
        /\ Asked(h.c, "cancel") = {id} /\ Asked(g.c, "cancel") = {}
        /\ Asked(g.c, "submit") = Asked(h.c, "submit")
        /\ Asked(g.c, "cancel_all") = Asked(h.c, "cancel_all")
        /\ Tagged(g, "ENTRY") = Tagged(h, "ENTRY") /\ Tagged(g, "SL") = Tagged(h, "SL")
        /\ Tagged(g, "CLOSE") = Tagged(h, "CLOSE")
    BY Zenon DEF Taking, Takes
  <2>1. /\ Lanes(h, ev, w, p) /\ Accounted(h, ev, p) /\ Known(h, r) /\ Covered(h, ev, w, p, r)
        /\ Waits(h, ev, w, r) /\ Enters(h, ev, r) /\ Ends(h, ev, w, p, r) /\ Replaces(h, w, p, r)
    BY Zenon DEF Taking, Flow, Trade
  <2>2. Known(g, r)
    BY <2>0, <2>1, Zenon DEF Known
  <2>3. r => en \notin Told(ev, "Filled")
    BY <2>0, <2>1, Zenon DEF Ends
  <2>4. CASE w \cap {id} = {} /\ ev2 = ev /\ w2 = w
    <3>1. Lanes(g, ev2, w2, p)
      BY <2>0, <2>1, <2>4, <1>LanesLess, Zenon
    <3>2. Accounted(g, ev2, p)
      BY <2>0, <2>1, <2>4, Zenon DEF Accounted
    <3>3. Covered(g, ev2, w2, p, r)
      BY <2>0, <2>1, <2>4, Zenon DEF Covered
    <3>4. Waits(g, ev2, w2, r)
      BY <2>0, <2>1, <2>4, Zenon DEF Waits
    <3>5. Enters(g, ev2, r)
      BY ONLY <2>0, <2>1, <2>4 DEF Enters
    <3>6. Ends(g, ev2, w2, p, r)
      BY <2>0, <2>1, <2>3, <2>4, Zenon DEF Ends
    <3>7. Replaces(g, w2, p, r)
      BY <2>0, <2>1, <2>4, Zenon DEF Replaces
    <3> QED
      BY <2>2, <3>1, <3>2, <3>3, <3>4, <3>5, <3>6, <3>7, Zenon DEF Flow, Trade
  <2>5. CASE w = {id} /\ w2 = {} /\ ev2 = Append(ev, Event("Canceled", id, 0, 0))
    <3> DEFINE e == Event("Canceled", id, 0, 0)
    <3>1. id \in 1 .. Len(h.o) /\ Len(h.o) \in Nat /\ ev \in Seq(VenueEvent(Len(h.o)))
      BY <2>5, Zenon DEF Taking, Venue
    <3>2. e \in VenueEvent(Len(h.o)) /\ e.is = "Canceled" /\ e.id = id
      BY ONLY <3>1 DEF Event, VenueEvent
    <3>3. ev2 = Append(ev, e)
      BY <2>5, Zenon
    <3> HIDE DEF e
    <3>4. \A is \in {"Filled", "Rejected"} : Told(ev2, is) = Told(ev, is)
      BY ONLY <3>1, <3>2, <3>3, ToldAppend
    <3>5. id \notin Asked(h.c, "submit") /\ p \in {-1, 0, 1}
      BY <2>1, <2>5, Zenon DEF Lanes
    <3>s. Says(h, g, e, w, w2, p, Len(h.o))
      BY <2>0, <2>5, <3>2, <3>5, Zenon DEF Says
    <3>6. Lanes(g, ev2, w2, p)
      BY <2>1, <3>1, <3>3, <3>s, LanesMove, Zenon
    <3>7. Accounted(g, ev2, p)
      BY <2>0, <2>1, <3>4, Zenon DEF Accounted
    <3>8. Tagged(h, "SL") # {} \/ Asked(h.c, "cancel_all") # {}
      BY <2>0, <2>1, Zenon DEF Replaces
    <3>9. r /\ sl # None => w # {sl}
      <4>1. Tagged(h, "SL") \subseteq Asked(h.c, "submit")
        BY Zenon DEF Tagged
      <4> QED
        BY <2>1, <2>5, <3>5, <3>8, <4>1, Zenon DEF Waits
    <3>10. Covered(g, ev2, w2, p, r)
      BY <2>0, <2>1, <2>5, <3>4, <3>9, Zenon DEF Covered
    <3>11. Waits(g, ev2, w2, r)
      BY <2>0, <2>1, <3>4, <3>9, Zenon DEF Waits
    <3>12. Enters(g, ev2, r)
      BY ONLY <2>0, <2>1, <3>4 DEF Enters
    <3>13. Ends(g, ev2, w2, p, r)
      BY <2>0, <2>1, <2>3, <2>5, <3>4, Zenon DEF Ends
    <3>14. Replaces(g, w2, p, r)
      BY <2>0, <2>1, <2>5, Zenon DEF Replaces
    <3> QED
      BY <2>2, <3>6, <3>7, <3>10, <3>11, <3>12, <3>13, <3>14, Zenon DEF Flow, Trade
  <2> QED
    BY <2>4, <2>5, Zenon DEF CancelsIt

\* cancel_all when the cache shows the stop open.
<1>SweepFlow.
     ASSUME NEW h, NEW g, NEW x, NEW ev, NEW w, NEW p, NEW r, Taking(h, g, x, ev, w, p, r),
            x.do = "cancel_all", NEW ev2, NEW w2, NEW ids, w \subseteq ids, CancelsIt(ids, ev, ev2, w, w2)
     PROVE  Flow(g, ev2, w2, p, r)
  <2> USE <1>SweepFlow
  <2> DEFINE sl == h.s.sl_order_id
             en == h.s.entry_order_id
  <2>0. /\ Sound(h) /\ g.o = h.o /\ g.n = h.n /\ g.s = h.s /\ Ordered(g, 6) /\ h.c # << >>
        /\ Asked(h.c, "cancel_all") # {} /\ Asked(g.c, "cancel") = {}
        /\ Asked(g.c, "submit") = Asked(h.c, "submit")
        /\ Tagged(g, "ENTRY") = Tagged(h, "ENTRY") /\ Tagged(g, "SL") = {}
        /\ Tagged(g, "CLOSE") = Tagged(h, "CLOSE")
    BY Zenon DEF Taking, Takes
  <2>1. /\ Lanes(h, ev, w, p) /\ Accounted(h, ev, p) /\ Known(h, r) /\ Covered(h, ev, w, p, r)
        /\ Waits(h, ev, w, r) /\ Enters(h, ev, r) /\ Ends(h, ev, w, p, r)
    BY Zenon DEF Taking, Flow, Trade
  <2>2. Known(g, r) /\ w2 = {}
    BY <2>0, <2>1, Zenon DEF Known, CancelsIt
  <2>3. r => en \notin Told(ev, "Filled") /\ sl = None
    BY <2>0, <2>1, Zenon DEF Ends, Waits
  <2>4. /\ Lanes(g, ev2, w2, p) /\ Told(ev2, "Filled") = Told(ev, "Filled")
        /\ Told(ev2, "Rejected") = Told(ev, "Rejected")
    <3>1. CASE ev2 = ev
      BY <2>0, <2>1, <2>2, <3>1, <1>LanesLess, Zenon
    <3>2. CASE \E i \in ids : w = {i} /\ w2 = {} /\ ev2 = Append(ev, Event("Canceled", i, 0, 0))
      <4>1. PICK i \in ids : w = {i} /\ ev2 = Append(ev, Event("Canceled", i, 0, 0))
        BY <3>2, Zenon
      <4> DEFINE e == Event("Canceled", i, 0, 0)
      <4>2. i \in 1 .. Len(h.o) /\ Len(h.o) \in Nat /\ ev \in Seq(VenueEvent(Len(h.o)))
        BY <4>1, Zenon DEF Taking, Venue
      <4>3. e \in VenueEvent(Len(h.o)) /\ e.is = "Canceled" /\ e.id = i
        BY ONLY <4>2 DEF Event, VenueEvent
      <4>4. ev2 = Append(ev, e)
        BY <4>1, Zenon
      <4> HIDE DEF e
      <4>5. \A is \in {"Filled", "Rejected"} : Told(ev2, is) = Told(ev, is)
        BY ONLY <4>2, <4>3, <4>4, ToldAppend
      <4>6. i \notin Asked(h.c, "submit") /\ p \in {-1, 0, 1}
        BY <2>1, <4>1, Zenon DEF Lanes
      <4>s. Says(h, g, e, w, w2, p, Len(h.o))
        BY <2>0, <2>2, <4>1, <4>3, <4>6, Zenon DEF Says
      <4>7. Lanes(g, ev2, w2, p)
        BY <2>1, <4>2, <4>4, <4>s, LanesMove, Zenon
      <4> QED
        BY <4>5, <4>7, Zenon
    <3> QED
      BY <3>1, <3>2, Zenon DEF CancelsIt
  <2>5. Accounted(g, ev2, p)
    BY <2>0, <2>1, <2>4, Zenon DEF Accounted
  <2>6. Covered(g, ev2, w2, p, r)
    BY <2>0, <2>1, <2>2, <2>3, Zenon DEF Covered
  <2>7. Waits(g, ev2, w2, r)
    BY <2>0, <2>3, Zenon DEF Waits
  <2>8. Enters(g, ev2, r)
    BY ONLY <2>0, <2>1, <2>4 DEF Enters
  <2>9. Ends(g, ev2, w2, p, r)
    BY <2>0, <2>1, <2>2, <2>3, <2>4, Zenon DEF Ends
  <2>10. Replaces(g, w2, p, r)
    BY <2>0, <2>2, Zenon DEF Replaces
  <2> QED
    BY <2>2, <2>4, <2>5, <2>6, <2>7, <2>8, <2>9, <2>10, SoundType, Zenon DEF Flow, Trade

\* It is so when the cache the venue decides by is current.
<1>StopTaken. ASSUME NEW h, NEW g, NEW x, NEW ev, NEW w, NEW p, NEW r, Taking(h, g, x, ev, w, p, r),
                     x.do = "submit", h.o[x.id].tag = "SL", h.n = p
              PROVE  StopReady(h, g, x.id, ev, w, r)
  <2> USE <1>StopTaken
  <2> DEFINE id == x.id
  <2>1. /\ g.o = h.o /\ g.n = h.n /\ g.s = h.s /\ Ordered(g, 6) /\ Sound(h)
        /\ id \in Asked(h.c, "submit") /\ Asked(g.c, "submit") = Asked(h.c, "submit") \ {id}
        /\ Asked(h.c, "cancel") = {} /\ Asked(g.c, "cancel") = {}
        /\ Asked(g.c, "cancel_all") = Asked(h.c, "cancel_all")
        /\ \A t \in {"ENTRY", "SL", "CLOSE"} : Tagged(g, t) = Tagged(h, t) \ {id}
        /\ \A i \in Tagged(h, "SL") : i = id
    BY Zenon DEF Taking, Takes
  <2>2. id \in Tagged(h, "SL") /\ id \notin Tagged(h, "ENTRY") /\ id \notin Tagged(h, "CLOSE")
    BY <2>1, Zenon DEF Tagged
  <2>3. Tagged(h, "SL") = {id} /\ Tagged(g, "SL") = {}
    BY <2>1, <2>2, Zenon
  <2>4. Tagged(g, "ENTRY") = Tagged(h, "ENTRY") /\ Tagged(g, "CLOSE") = Tagged(h, "CLOSE")
    BY ONLY <2>1, <2>2
  <2>5. r /\ w = {}
    BY <2>1, <2>3, Zenon DEF Taking, Flow, Trade, Replaces
  <2>6. Told(ev, "Filled") = {}
    BY <2>1, NoFills, Zenon DEF Taking, Flow, Trade
  <2>7. h.s.sl_order_id # None => h.s.sl_order_id = id
    BY <2>1, <2>5, Zenon DEF Taking, Flow, Trade, Waits
  <2> QED
    BY <2>1, <2>3, <2>4, <2>5, <2>6, <2>7, Zenon DEF StopReady

\* A stop is refused.
<1>RefuseStopFlow.
     ASSUME NEW h, NEW g, NEW x, NEW ev, NEW w, NEW p, NEW r, Taking(h, g, x, ev, w, p, r),
            x.do = "submit", h.o[x.id].tag = "SL", h.n = p, x.id \in 1 .. Len(h.o),
            NEW ev2, ev2 = Append(ev, Event("Rejected", x.id, 0, 0))
     PROVE  Flow(g, ev2, w, p, r)
  <2> USE <1>RefuseStopFlow
  <2> DEFINE id == x.id
             sl == h.s.sl_order_id
             e  == Event("Rejected", id, 0, 0)
  <2>r. StopReady(h, g, id, ev, w, r)
    BY <1>StopTaken, Zenon
  <2>0. /\ r /\ w = {} /\ Told(ev, "Filled") = {} /\ Tagged(h, "SL") = {id}
        /\ g.o = h.o /\ g.n = h.n /\ g.s = h.s /\ Ordered(g, 6)
        /\ id \in Asked(h.c, "submit") /\ Asked(g.c, "submit") = Asked(h.c, "submit") \ {id}
        /\ Asked(g.c, "cancel") = {} /\ Asked(g.c, "cancel_all") = Asked(h.c, "cancel_all")
        /\ Tagged(g, "ENTRY") = Tagged(h, "ENTRY") /\ Tagged(g, "SL") = {}
        /\ Tagged(g, "CLOSE") = Tagged(h, "CLOSE")
        /\ sl # None => sl = id
    BY <2>r, Zenon DEF StopReady
  <2>1. /\ Lanes(h, ev, w, p) /\ Accounted(h, ev, p) /\ Known(h, r) /\ Covered(h, ev, w, p, r)
        /\ Waits(h, ev, w, r) /\ Enters(h, ev, r)
        /\ Len(h.o) \in Nat /\ ev \in Seq(VenueEvent(Len(h.o)))
    BY Zenon DEF Taking, Flow, Trade, Venue
  <2>2. e \in VenueEvent(Len(h.o)) /\ e.is = "Rejected" /\ e.id = id
    <3>1. Len(h.o) \in Nat /\ id \in 1 .. Len(h.o)
      BY <2>1, Zenon
    <3> HIDE DEF id
    <3> QED
      BY ONLY <3>1 DEF Event, VenueEvent
  <2>3. ev2 = Append(ev, e)
    BY Zenon
  <2> HIDE DEF e
  <2>4. Told(ev2, "Filled") = {} /\ id \in Told(ev2, "Rejected")
    BY <2>0, <2>1, <2>2, <2>3, ToldAppend
  <2>5. p \in {-1, 0, 1}
    BY <2>1, Zenon DEF Lanes
  <2>6. Says(h, g, e, w, w, p, Len(h.o))
    BY <2>0, <2>2, <2>5, Zenon DEF Says
  <2>7. Lanes(g, ev2, w, p)
    BY <2>1, <2>3, <2>6, LanesMove, Zenon
  <2>8. Accounted(g, ev2, p)
    BY <2>0, <2>4, Zenon DEF Accounted
  <2>9. Known(g, r)
    BY <2>0, <2>1, Zenon DEF Known
  <2>10. Covered(g, ev2, w, p, r)
    BY <2>0, <2>1, <2>4, Zenon DEF Covered
  <2>11. Waits(g, ev2, w, r)
    BY <2>0, <2>1, <2>4, Zenon DEF Waits
  <2>12. Enters(g, ev2, r)
    BY ONLY <2>0, <2>1, <2>4 DEF Enters
  <2>13. Ends(g, ev2, w, p, r) /\ Replaces(g, w, p, r)
    BY <2>0, <2>4, Zenon DEF Ends, Replaces
  <2> QED
    BY <2>7, <2>8, <2>9, <2>10, <2>11, <2>12, <2>13, Zenon DEF Flow, Trade

\* A stop is accepted.
<1>AcceptStopFlow.
     ASSUME NEW h, NEW g, NEW x, NEW ev, NEW w, NEW p, NEW r, Taking(h, g, x, ev, w, p, r),
            x.do = "submit", h.o[x.id].tag = "SL", h.n = p, x.id \in 1 .. Len(h.o),
            h.o[x.id].side * h.n < 0, NEW w2, w2 = w \cup {x.id},
            NEW ev2, ev2 = Append(ev, Event("Accepted", x.id, 0, 0))
     PROVE  Flow(g, ev2, w2, p, r)
  <2> USE <1>AcceptStopFlow
  <2> DEFINE id == x.id
             sl == h.s.sl_order_id
             e  == Event("Accepted", id, 0, 0)
  <2>r. StopReady(h, g, id, ev, w, r)
    BY <1>StopTaken, Zenon
  <2>0. /\ r /\ w = {} /\ Told(ev, "Filled") = {} /\ Tagged(h, "SL") = {id}
        /\ g.o = h.o /\ g.n = h.n /\ g.s = h.s /\ Ordered(g, 6)
        /\ id \in Asked(h.c, "submit") /\ Asked(g.c, "submit") = Asked(h.c, "submit") \ {id}
        /\ Asked(g.c, "cancel") = {} /\ Asked(g.c, "cancel_all") = Asked(h.c, "cancel_all")
        /\ Tagged(g, "ENTRY") = Tagged(h, "ENTRY") /\ Tagged(g, "SL") = {}
        /\ Tagged(g, "CLOSE") = Tagged(h, "CLOSE")
        /\ sl # None => sl = id
    BY <2>r, Zenon DEF StopReady
  <2>1. /\ Lanes(h, ev, w, p) /\ Accounted(h, ev, p) /\ Known(h, r) /\ Covered(h, ev, w, p, r)
        /\ Waits(h, ev, w, r) /\ Enters(h, ev, r) /\ Sound(h)
        /\ Len(h.o) \in Nat /\ ev \in Seq(VenueEvent(Len(h.o)))
    BY Zenon DEF Taking, Flow, Trade, Venue, Takes
  <2>2. e \in VenueEvent(Len(h.o)) /\ e.is = "Accepted" /\ e.id = id
    <3>1. Len(h.o) \in Nat /\ id \in 1 .. Len(h.o)
      BY <2>1, Zenon
    <3> HIDE DEF id
    <3> QED
      BY ONLY <3>1 DEF Event, VenueEvent
  <2>3. ev2 = Append(ev, e)
    BY Zenon
  <2> HIDE DEF e
  <2>4. Told(ev2, "Filled") = {} /\ Told(ev2, "Rejected") = Told(ev, "Rejected") /\ w2 = {id}
    BY <2>0, <2>1, <2>2, <2>3, ToldAppend
  <2>5. p \in {-1, 0, 1} /\ h.o[id].side = -p
    <3>1. h.o[id] \in Order /\ p \in {-1, 0, 1}
      BY <2>1, SoundType, Zenon DEF Lanes
    <3>2. h.o[id].side \in {1, -1}
      BY <3>1, Zenon DEF Order, Side
    <3> QED
      BY <3>1, <3>2
  <2>6. Says(h, g, e, w, w2, p, Len(h.o))
    BY <2>0, <2>2, <2>4, <2>5, Zenon DEF Says
  <2>7. Lanes(g, ev2, w2, p)
    BY <2>1, <2>3, <2>6, LanesMove, Zenon
  <2>8. Accounted(g, ev2, p)
    BY <2>0, <2>4, Zenon DEF Accounted
  <2>9. Known(g, r)
    BY <2>0, <2>1, Zenon DEF Known
  <2>10. Covered(g, ev2, w2, p, r)
    BY <2>0, <2>1, <2>4, Zenon DEF Covered
  <2>11. Waits(g, ev2, w2, r)
    BY <2>0, <2>1, <2>4, Zenon DEF Waits
  <2>12. Enters(g, ev2, r)
    BY ONLY <2>0, <2>1, <2>4 DEF Enters
  <2>13. Ends(g, ev2, w2, p, r) /\ Replaces(g, w2, p, r)
    <3>1. None \notin Told(ev2, "Filled")
      BY <2>4, Zenon
    <3> QED
      BY <2>0, <2>4, <3>1, Zenon DEF Ends, Replaces
  <2> QED
    BY <2>7, <2>8, <2>9, <2>10, <2>11, <2>12, <2>13, SoundType, Zenon DEF Flow, Trade

\* It is so when the cache is current.
<1>CloseTaken.
     ASSUME NEW h, NEW g, NEW x, NEW ev, NEW w, NEW p, NEW r, Taking(h, g, x, ev, w, p, r),
            x.do = "submit", h.o[x.id].tag = "CLOSE", h.n = p, x.id # None
     PROVE  CloseReady(h, g, x.id, ev, w, p, r)
  <2> USE <1>CloseTaken
  <2> DEFINE id == x.id
             sl == h.s.sl_order_id
  <2>1. /\ g.o = h.o /\ g.n = h.n /\ g.s = h.s /\ Ordered(g, 6) /\ Sound(h)
        /\ id \in Asked(h.c, "submit") /\ Asked(g.c, "submit") = Asked(h.c, "submit") \ {id}
        /\ Asked(g.c, "cancel") = {} /\ Asked(h.c, "cancel_all") = {}
        /\ \A t \in {"ENTRY", "SL", "CLOSE"} : Tagged(g, t) = Tagged(h, t) \ {id}
        /\ \A i \in Tagged(h, "SL") : i = id
        /\ \A i \in Tagged(h, "CLOSE") : i = id
    BY Zenon DEF Taking, Takes
  <2>2. id \in Tagged(h, "CLOSE") /\ id \notin Tagged(h, "ENTRY") /\ id \notin Tagged(h, "SL")
    BY <2>1, Zenon DEF Tagged
  <2>3. /\ Tagged(h, "CLOSE") = {id} /\ Tagged(g, "CLOSE") = {} /\ Tagged(g, "SL") = {}
        /\ Tagged(g, "ENTRY") = Tagged(h, "ENTRY")
    BY ONLY <2>1, <2>2
  <2>4. Told(ev, "Filled") = {}
    BY <2>1, NoFills, Zenon DEF Taking, Flow, Trade
  <2>5. r => sl = None /\ h.s.entry_order_id # id
    <3>1. r /\ sl # None => sl = id
      BY <2>1, Zenon DEF Taking, Flow, Trade, Waits
    <3>2. r => (sl # None => h.o[sl].tag = "SL")
      BY Zenon DEF Taking, Flow, Trade, Known
    <3>3. r => (h.s.entry_order_id # None => h.o[h.s.entry_order_id].tag = "ENTRY")
      BY Zenon DEF Taking, Flow, Trade, Known
    <3> QED
      BY <3>1, <3>2, <3>3, Zenon
  <2>6. p # 0 => h.o[id].side = -p /\ h.o[id].quantity = 1 /\ w = {}
    BY <2>1, <2>3, <2>4, <2>5, Zenon DEF Taking, Flow, Trade, Covered
  <2>7. w = {}
    BY <2>1, <2>6, StopMeansPosition, Zenon DEF Taking, Flow
  <2> QED
    BY <2>1, <2>3, <2>4, <2>5, <2>6, <2>7, Zenon DEF CloseReady

\* The position is closed, or there was none to close.
<1>CloseFlow.
     ASSUME NEW h, NEW g, NEW x, NEW ev, NEW w, NEW p, NEW r, Taking(h, g, x, ev, w, p, r),
            x.do = "submit", h.o[x.id].tag = "CLOSE", h.n = p, x.id \in 1 .. Len(h.o),
            NEW e, NEW p2, NEW ev2, ev2 = Append(ev, e), e \in VenueEvent(Len(h.o)), e.id = x.id,
            \/ e.is = "Filled" /\ e.quantity = 1 /\ p2 = 0 /\ p2 = h.n + h.o[x.id].side
            \/ e.is = "Rejected" /\ p = 0 /\ p2 = 0
     PROVE  Flow(g, ev2, w, p2, r)
  <2> USE <1>CloseFlow
  <2> DEFINE id == x.id
  <2>r. CloseReady(h, g, id, ev, w, p, r)
    <3>1. x.id # None
      BY DEF None
    <3> QED
      BY <3>1, <1>CloseTaken, Zenon
  <2>0. /\ w = {} /\ Told(ev, "Filled") = {}
        /\ g.o = h.o /\ g.n = h.n /\ g.s = h.s /\ Ordered(g, 6)
        /\ id \in Asked(h.c, "submit") /\ Asked(g.c, "submit") = Asked(h.c, "submit") \ {id}
        /\ Asked(g.c, "cancel") = {}
        /\ Tagged(g, "ENTRY") = Tagged(h, "ENTRY") /\ Tagged(g, "SL") = {}
        /\ Tagged(h, "CLOSE") = {id} /\ Tagged(g, "CLOSE") = {}
        /\ r => h.s.sl_order_id = None /\ h.s.entry_order_id # id
    BY <2>r, Zenon DEF CloseReady
  <2>1. /\ Lanes(h, ev, w, p) /\ Accounted(h, ev, p) /\ Known(h, r) /\ Enters(h, ev, r)
        /\ Len(h.o) \in Nat /\ ev \in Seq(VenueEvent(Len(h.o)))
    BY Zenon DEF Taking, Flow, Trade, Venue
  <2>2. p2 = 0
    BY Zenon
  <2>3. Told(ev2, "Filled") = {} \/ Told(ev2, "Filled") = {id}
    BY <2>0, <2>1, ToldAppend
  <2>4. Says(h, g, e, w, w, p2, Len(h.o))
    BY <2>0, Zenon DEF Says
  <2>5. Lanes(g, ev2, w, p2)
    BY <2>1, <2>4, LanesMove, Zenon
  <2>6. Accounted(g, ev2, p2)
    <3>1. CASE e.is = "Filled"
      <4>1. Told(ev2, "Filled") = {id}
        BY <2>0, <2>1, <3>1, ToldAppend
      <4>2. p2 = h.n + h.o[id].side
        BY <3>1, Zenon
      <4> QED
        BY <2>0, <4>1, <4>2, Zenon DEF Accounted
    <3>2. CASE e.is = "Rejected"
      <4>1. Told(ev2, "Filled") = {}
        BY <2>0, <2>1, <3>2, ToldAppend
      <4>2. h.n = p2
        BY <3>2, Zenon
      <4> QED
        BY <2>0, <4>1, <4>2, Zenon DEF Accounted
    <3> QED
      BY <3>1, <3>2, Zenon
  <2>7. Known(g, r)
    BY <2>0, <2>1, Zenon DEF Known
  <2>8. Covered(g, ev2, w, p2, r) /\ Waits(g, ev2, w, r)
    BY <2>0, <2>2, Zenon DEF Covered, Waits
  <2>9. Enters(g, ev2, r)
    BY ONLY <2>0, <2>1, <2>3 DEF Enters
  <2>10. Ends(g, ev2, w, p2, r) /\ Replaces(g, w, p2, r)
    BY <2>0, <2>2, <2>3, Zenon DEF Ends, Replaces
  <2> QED
    BY <2>5, <2>6, <2>7, <2>8, <2>9, <2>10, Zenon DEF Flow, Trade

\* It is so for any entry, by the commands that came before it.
<1>EntryTaken.
     ASSUME NEW h, NEW g, NEW x, NEW ev, NEW w, NEW p, NEW r, Taking(h, g, x, ev, w, p, r),
            x.do = "submit", h.o[x.id].tag = "ENTRY"
     PROVE  EntryReady(h, g, x.id, ev, w, p, r)
  <2> USE <1>EntryTaken
  <2> DEFINE id == x.id
  <2>1. /\ g.o = h.o /\ g.n = h.n /\ g.s = h.s /\ Ordered(g, 6) /\ Sound(h) /\ g.c \in Seq(Command)
        /\ id \in Asked(h.c, "submit") /\ Asked(g.c, "submit") = Asked(h.c, "submit") \ {id}
        /\ Asked(g.c, "cancel") = {} /\ Asked(h.c, "cancel_all") = {} /\ Asked(g.c, "cancel_all") = {}
        /\ \A i \in Tagged(h, "SL") : i = id
        /\ \A i \in Tagged(h, "CLOSE") : i = id
        /\ \A i \in Tagged(h, "ENTRY") : i = id
    BY Zenon DEF Taking, Takes
  <2>2. id \in Tagged(h, "ENTRY") /\ id \notin Tagged(h, "CLOSE") /\ id \notin Tagged(h, "SL")
    BY <2>1, Zenon DEF Tagged
  <2>3. Tagged(h, "CLOSE") = {} /\ Tagged(h, "SL") = {}
    BY <2>1, <2>2, Zenon
  <2>4. Asked(g.c, "submit") = {}
    <3>1. ASSUME NEW i \in Asked(h.c, "submit")
          PROVE  i = id
      <4>1. i \in 1 .. Len(h.o) /\ h.o \in Seq(Order)
        BY <2>1, AskedExist, Zenon DEF Sound, Handler
      <4>2. h.o[i].tag \in {"ENTRY", "SL", "CLOSE"}
        <5>1. h.o[i] \in Order
          BY ONLY <4>1
        <5> QED
          BY <5>1, Zenon DEF Order
      <4>3. i \in Tagged(h, h.o[i].tag)
        BY Zenon DEF Tagged
      <4> QED
        BY <2>1, <4>2, <4>3, Zenon
    <3> QED
      BY <2>1, <3>1, Zenon
  <2>5. g.c = << >>
    BY <2>1, <2>4, NoneAsked, Zenon
  <2>6. /\ r /\ h.s.entry_order_id = id /\ h.s.entry_side = h.o[id].side /\ h.s.sl_order_id = None
        /\ \A f \in Told(ev, "Filled") : h.o[f].side = h.o[id].side
        /\ \A f, k \in Told(ev, "Filled") : f = k
    BY <2>2, Zenon DEF Taking, Flow, Trade, Enters
  <2>7. id \notin Told(ev, "Filled")
    BY <2>1, Zenon DEF Taking, Flow, Lanes
  <2>8. p = 0
    BY <2>3, <2>6, <2>7, Zenon DEF Taking, Flow, Trade, Covered
  <2>9. w = {}
    BY <2>1, <2>8, StopMeansPosition, Zenon DEF Taking, Flow
  <2> QED
    BY <2>1, <2>5, <2>6, <2>7, <2>8, <2>9, SoundType, Zenon DEF EntryReady

\* The entry fills, or is refused.
<1>EntryFlow.
     ASSUME NEW h, NEW g, NEW x, NEW ev, NEW w, NEW p, NEW r, Taking(h, g, x, ev, w, p, r),
            x.do = "submit", h.o[x.id].tag = "ENTRY", x.id \in 1 .. Len(h.o),
            NEW e, NEW p2, NEW ev2, ev2 = Append(ev, e), e \in VenueEvent(Len(h.o)), e.id = x.id,
            \/ e.is = "Filled" /\ e.quantity = 1 /\ p2 = p + h.o[x.id].side
            \/ e.is = "Rejected" /\ p2 = p
     PROVE  Flow(g, ev2, w, p2, r)
  <2> USE <1>EntryFlow
  <2> DEFINE id == x.id
             fills == Told(ev, "Filled")
  <2>r. EntryReady(h, g, id, ev, w, p, r)
    BY <1>EntryTaken, Zenon
  <2>0. /\ r /\ w = {} /\ p = 0 /\ g.c = << >> /\ Ordered(g, 6)
        /\ g.o = h.o /\ g.n = h.n /\ g.s = h.s
        /\ h.s.entry_order_id = id /\ h.s.entry_side = h.o[id].side /\ h.s.sl_order_id = None
        /\ id \in Asked(h.c, "submit") /\ id \notin fills
        /\ \A f \in fills : h.o[f].side = h.o[id].side
        /\ \A f, k \in fills : f = k
    BY <2>r, Zenon DEF EntryReady
  <2>1. /\ Lanes(h, ev, w, p) /\ Accounted(h, ev, p) /\ Known(h, r)
        /\ Len(h.o) \in Nat /\ ev \in Seq(VenueEvent(Len(h.o))) /\ Sound(h)
    BY Zenon DEF Taking, Flow, Trade, Venue, Takes
  <2>2. /\ \A do : Asked(g.c, do) = {} /\ \A t \in {"ENTRY", "SL", "CLOSE"} : Tagged(g, t) = {}
    BY <2>0, Idle, Zenon
  <2>3. h.o[id].side \in {1, -1} /\ h.n \in Int
    <3>1. h.o[id] \in Order /\ h.n \in Int
      BY <2>1, SoundType, Zenon
    <3> QED
      BY <3>1, Zenon DEF Order, Side
  <2>4. p2 \in {-1, 0, 1}
    BY <2>0, <2>3
  <2>5. Says(h, g, e, w, w, p2, Len(h.o))
    BY <2>0, <2>2, <2>4, Zenon DEF Says
  <2>6. Lanes(g, ev2, w, p2)
    BY <2>1, <2>5, LanesMove, Zenon
  <2>7. Known(g, r) /\ Waits(g, ev2, w, r) /\ Enters(g, ev2, r) /\ Replaces(g, w, p2, r)
    BY <2>0, <2>1, <2>2, Zenon DEF Known, Waits, Enters, Replaces
  <2>8. \A is : None \notin Told(ev2, is)
    <3>1. ev2 \in Seq(VenueEvent(Len(h.o)))
      BY <2>1
    <3>2. Len(h.o) \in Nat
      BY <2>1, Zenon
    <3>3. \A is : \A i \in Told(ev2, is) : i \in 1 .. Len(h.o)
      BY <3>1, <3>2, ToldExist, Zenon
    <3> QED
      BY ONLY <3>2, <3>3 DEF None
  <2>t. Told(ev2, "Filled") = IF e.is = "Filled" THEN fills \cup {id} ELSE fills
    <3>1. /\ ev \in Seq(VenueEvent(Len(h.o))) /\ e \in VenueEvent(Len(h.o))
          /\ ev2 = Append(ev, e) /\ e.id = id
      BY <2>1, Zenon
    <3>2. Told(Append(ev, e), "Filled") = IF e.is = "Filled" THEN Told(ev, "Filled") \cup {e.id}
                                          ELSE Told(ev, "Filled")
      BY ONLY <3>1, ToldAppend
    <3> QED
      BY <3>1, <3>2, Zenon
  <2>9. CASE e.is = "Filled"
    <3>1. Told(ev2, "Filled") = fills \cup {id} /\ p2 = h.o[id].side
      <4>1. Told(ev2, "Filled") = fills \cup {id} /\ p2 = 0 + h.o[id].side
        BY <2>0, <2>9, <2>t, Zenon
      <4>2. 0 + h.o[id].side = h.o[id].side
        BY ONLY <2>3
      <4> QED
        BY <4>1, <4>2, Zenon
    <3>2. Accounted(g, ev2, p2)
      <4>1. CASE fills = {} /\ h.n = p
        <5>1. Told(ev2, "Filled") = {id} /\ p2 = g.n + g.o[id].side
          BY ONLY <2>0, <2>3, <3>1, <4>1, SMTT(30)
        <5> QED
          BY <5>1, Zenon DEF Accounted
      <4>2. CASE \E i \in fills : fills = {i} /\ p = h.n + h.o[i].side
        <5>1. PICK i \in fills : fills = {i} /\ p = h.n + h.o[i].side
          BY <4>2, Zenon
        <5>2. /\ i # id /\ Told(ev2, "Filled") = {i, id} /\ g.o[i].side = g.o[id].side
              /\ p2 = g.n + g.o[i].side + g.o[i].side
          BY ONLY <2>0, <2>3, <3>1, <5>1
        <5> QED
          BY <5>2, Zenon DEF Accounted
      <4> QED
        BY <2>0, <2>1, <4>1, <4>2, Zenon DEF Accounted
    <3>3. Covered(g, ev2, w, p2, r)
      BY <2>0, <3>1, Zenon DEF Covered
    <3>4. Ends(g, ev2, w, p2, r)
      BY ONLY <2>0, <2>3, <2>8, <3>1 DEF Ends
    <3> QED
      BY <2>6, <2>7, <3>2, <3>3, <3>4, Zenon DEF Flow, Trade
  <2>10. CASE e.is = "Rejected"
    <3>1. Told(ev2, "Filled") = fills /\ p2 = 0
      BY <2>0, <2>10, <2>t, Zenon
    <3>2. Accounted(g, ev2, p2)
      BY <2>0, <2>1, <3>1, Zenon DEF Accounted
    <3>3. Covered(g, ev2, w, p2, r)
      BY <3>1, Zenon DEF Covered
    <3>4. Ends(g, ev2, w, p2, r)
      BY <2>0, <2>8, <3>1, Zenon DEF Ends
    <3> QED
      BY <2>6, <2>7, <3>2, <3>3, <3>4, Zenon DEF Flow, Trade
  <2> QED
    BY <2>9, <2>10, Zenon

\* The venue handles the command at the head.
<1>TakingNow.
     ASSUME FlowInv, ~overtaken, commands # << >>, commands' = Tail(commands), StrategyUnchanged,
            NEW x, x = Head(commands)
     PROVE  /\ Taking(Now, Now', x, events, working, position, running)
            /\ x.do \in {"submit", "cancel"} => x.id \in 1 .. Len(orders)
            /\ Now.o = orders /\ Now.n = net /\ orders \in Seq(Order) /\ net \in Int /\ running' = running
  <2> USE <1>TakingNow
  <2>1. IInv /\ Flow(Now, events, working, position, running)
    BY Zenon DEF FlowInv
  <2>2. /\ Sound(Now) /\ Now.o = orders /\ Now.n = net /\ Now.c = commands /\ Now.s = strategy
        /\ orders \in Seq(Order) /\ net \in Int /\ Len(orders) \in Nat
    BY <2>1, NowSound, Zenon DEF IInv
  <2>3. Sound(Now)' /\ (x.do \in {"submit", "cancel"} => x.id \in 1 .. Len(orders))
    BY <2>1, HeadSound, Zenon DEF OrderIds
  <2>4. /\ Now'.o = Now.o /\ Now'.n = Now.n /\ Now'.s = Now.s /\ Now'.c = Tail(Now.c)
        /\ running' = running
    BY Zenon DEF StrategyUnchanged, Now
  <2>5. Ordered(Now, 6) /\ Now.c # << >> /\ x = Head(Now.c)
    BY <2>1, <2>2, Zenon DEF Flow, Lanes
  <2>6. Sound(Now')
    BY <2>3, Zenon
  <2>7. Takes(Now, Now', x)
    BY <2>2, <2>4, <2>5, <2>6, <1>TakeHead, Zenon
  <2>8. Venue(Now, events, working)
    BY <2>1, <2>2, Zenon DEF IInv, Venue, OrderIds
  <2> QED
    BY <2>1, <2>2, <2>3, <2>4, <2>7, <2>8, Zenon DEF Taking

\* process_market_order: an entry, or the order that closes the position.
<1>MarketFlow.
     ASSUME NEW g, NEW x, Taking(Now, g, x, events, working, position, running),
            x.do = "submit", x.id \in 1 .. Len(orders), orders \in Seq(Order), net \in Int,
            Now.o = orders, Now.n = net, orders[x.id].tag # "ENTRY" => net = position,
            process_market_order(x.id)
     PROVE  Flow(g, events', working', position', running)
  <2> USE <1>MarketFlow
  <2> DEFINE id == x.id
  <2>0. orders[id] \in Order /\ Len(orders) \in Nat
    OBVIOUS
  <2>1. orders[id].side \in {1, -1} /\ orders[id].quantity \in Nat
    BY <2>0, Zenon DEF Order, Side
  <2>2. ASSUME NEW px \in Prices
        PROVE  px \in Int
    BY ONLY EmaAssumption
  <2>3. CASE orders[id].tag = "ENTRY" /\ \E px \in Prices : fill_order(id, 1, px)
    <3>1. PICK px \in Prices : fill_order(id, 1, px)
      BY <2>3, Zenon
    <3> DEFINE e == Event("Filled", id, 1, px)
    <3>2. e \in VenueEvent(Len(orders)) /\ e.is = "Filled" /\ e.id = id /\ e.quantity = 1
      BY <2>0, <2>2, Zenon DEF Event, VenueEvent
    <3>3. events' = Append(events, e) /\ working' = working \ {id} /\ position' = position + orders[id].side * 1
      BY <3>1, Zenon DEF fill_order
    <3> HIDE DEF e
    <3>4. EntryReady(Now, g, id, events, working, position, running)
      BY <2>3, <1>EntryTaken, Zenon
    <3>5. working = {} /\ position = 0
      BY <3>4, Zenon DEF EntryReady
    <3>6. working' = working /\ position' = position + orders[id].side
      BY ONLY <2>1, <3>3, <3>5, SMTT(30)
    <3>7. Flow(g, events', working, position', running)
      BY <2>3, <3>2, <3>3, <3>6, <1>EntryFlow, Zenon
    <3> QED
      BY <3>6, <3>7, Zenon
  <2>4. CASE orders[id].tag = "ENTRY" /\ Rejects(id)
    <3> DEFINE e == Event("Rejected", id, 0, 0)
    <3>2. e \in VenueEvent(Len(orders)) /\ e.is = "Rejected" /\ e.id = id
      BY <2>0 DEF Event, VenueEvent
    <3>3. events' = Append(events, e) /\ working' = working /\ position' = position
      BY <2>4, Zenon DEF Rejects
    <3> HIDE DEF e
    <3>7. Flow(g, events', working, position', running)
      BY <2>4, <3>2, <3>3, <1>EntryFlow, Zenon
    <3> QED
      BY <3>3, <3>7, Zenon
  <2>5. CASE orders[id].tag = "CLOSE"
    <3>0. net = position /\ x.id # None
      BY <2>5 DEF None
    <3>1. CloseReady(Now, g, id, events, working, position, running)
      BY <2>5, <3>0, <1>CloseTaken, Zenon
    <3>2. working = {} /\ (position # 0 => orders[id].side = -position /\ orders[id].quantity = 1)
      BY <3>1, Zenon DEF CloseReady
    <3>3. position \in {-1, 0, 1}
      BY Zenon DEF Taking, Flow, Lanes
    <3>4. CASE would_reduce(id)
      <4>1. position # 0 /\ orders[id].side = -position /\ orders[id].quantity = 1
        BY ONLY <2>1, <3>0, <3>2, <3>3, <3>4 DEF would_reduce
      <4> DEFINE open == IF net > 0 THEN net ELSE -net
                 quantity == IF orders[id].quantity < open THEN orders[id].quantity ELSE open
      <4>2. PICK px \in Prices : fill_order(id, quantity, px)
        BY <2>5, <3>4, Zenon DEF process_market_order
      <4>3. quantity = 1
        BY ONLY <3>0, <3>3, <4>1
      <4> HIDE DEF quantity
      <4> DEFINE e == Event("Filled", id, 1, px)
      <4>4. e \in VenueEvent(Len(orders)) /\ e.is = "Filled" /\ e.id = id /\ e.quantity = 1
        BY <2>0, <2>2, Zenon DEF Event, VenueEvent
      <4>5. /\ events' = Append(events, e) /\ working' = working \ {id}
            /\ position' = position + orders[id].side * 1
        BY <4>2, <4>3, Zenon DEF fill_order
      <4> HIDE DEF e
      <4>6. working' = working /\ position' = 0 /\ position' = net + orders[id].side
        BY ONLY <3>0, <3>2, <3>3, <4>1, <4>5, SMTT(30)
      <4>7. Flow(g, events', working, position', running)
        BY <2>5, <3>0, <4>4, <4>5, <4>6, <1>CloseFlow, Zenon
      <4> QED
        BY <4>6, <4>7, Zenon
    <3>5. CASE ~would_reduce(id)
      <4>1. position = 0
        BY ONLY <3>0, <3>2, <3>3, <3>5 DEF would_reduce
      <4> DEFINE e == Event("Rejected", id, 0, 0)
      <4>2. e \in VenueEvent(Len(orders)) /\ e.is = "Rejected" /\ e.id = id
        BY <2>0 DEF Event, VenueEvent
      <4>3. events' = Append(events, e) /\ working' = working /\ position' = position
        BY <2>5, <3>5, Zenon DEF process_market_order, Rejects
      <4> HIDE DEF e
      <4>4. Flow(g, events', working, position', running)
        BY <2>5, <3>0, <4>1, <4>2, <4>3, <1>CloseFlow, Zenon
      <4> QED
        BY <4>3, <4>4, Zenon
    <3> QED
      BY <3>4, <3>5, Zenon
  <2> QED
    BY <2>3, <2>4, <2>5, Zenon DEF process_market_order

\* process_stop_market_order: the stop is refused, or is working from here on.
<1>StopOrderFlow.
     ASSUME NEW g, NEW x, Taking(Now, g, x, events, working, position, running),
            x.do = "submit", x.id \in 1 .. Len(orders), Now.o = orders, Now.n = net,
            orders[x.id].tag # "ENTRY" => net = position, process_stop_market_order(x.id)
     PROVE  Flow(g, events', working', position', running)
  <2> USE <1>StopOrderFlow
  <2>1. orders[x.id].tag = "SL" /\ net = position
    BY Zenon DEF process_stop_market_order
  <2>2. CASE Rejects(x.id)
    <3>1. /\ events' = Append(events, Event("Rejected", x.id, 0, 0))
          /\ working' = working /\ position' = position
      BY <2>2, Zenon DEF Rejects
    <3>2. Flow(g, events', working, position, running)
      BY <2>1, <3>1, <1>RefuseStopFlow, Zenon
    <3> QED
      BY <3>1, <3>2, Zenon
  <2>3. CASE ~Rejects(x.id)
    <3>1. /\ events' = Append(events, Event("Accepted", x.id, 0, 0))
          /\ working' = working \cup {x.id} /\ position' = position
          /\ orders[x.id].side * net < 0
      BY <2>3, Zenon DEF process_stop_market_order, would_reduce
    <3>2. Flow(g, events', working', position, running)
      BY <2>1, <3>1, <1>AcceptStopFlow, Zenon
    <3> QED
      BY <3>1, <3>2, Zenon
  <2> QED
    BY <2>2, <2>3, Zenon
<1> DEFINE x == Head(commands)
<1>1. /\ ~overtaken /\ ~DecidesByStaleCache(x) /\ commands # << >> /\ commands' = Tail(commands)
      /\ StrategyUnchanged
  BY Zenon DEF process_command
<1>2. \/ /\ x.do = "submit"
         /\ process_market_order(x.id) \/ process_stop_market_order(x.id)
      \/ x.do = "cancel" /\ Cancels({x.id})
      \/ x.do = "cancel_all" /\ Cancels({i \in working : is_open(orders[i])})
  BY Zenon DEF process_command
<1>3. x = Head(commands)
  BY Zenon
<1> HIDE DEF x
<1>4. /\ Taking(Now, Now', x, events, working, position, running)
      /\ x.do \in {"submit", "cancel"} => x.id \in 1 .. Len(orders)
      /\ Now.o = orders /\ Now.n = net /\ orders \in Seq(Order) /\ net \in Int /\ running' = running
  BY <1>1, <1>3, <1>TakingNow, Zenon
<1>5. IInv /\ \A i, j \in working : i = j
  BY <1>4, Zenon DEF FlowInv, Taking, Flow, Lanes
<1>6. CASE x.do = "submit"
  <2>1. orders[x.id].tag # "ENTRY" => net = position
    BY <1>1, <1>6, Zenon DEF DecidesByStaleCache
  <2>2. Flow(Now', events', working', position', running)
    BY <1>2, <1>4, <1>6, <2>1, <1>MarketFlow, <1>StopOrderFlow, Zenon
  <2> QED
    BY <1>4, <2>2, Zenon
<1>7. CASE x.do = "cancel"
  <2>1. Cancels({x.id})
    BY <1>2, <1>7, Zenon
  <2>2. CancelsIt({x.id}, events, events', working, working') /\ position' = position
    BY <1>5, <2>1, <1>CancelsOne, Zenon
  <2>3. Flow(Now', events', working', position, running)
    BY <1>4, <1>7, <2>2, <1>CancelFlow, Zenon
  <2> QED
    BY <1>4, <2>2, <2>3, Zenon
<1>8. CASE x.do = "cancel_all"
  <2> DEFINE ids == {i \in working : is_open(orders[i])}
  <2>1. Cancels(ids)
    BY <1>2, <1>8, Zenon
  <2>2. working \subseteq ids
    BY <1>1, <1>8, Zenon DEF DecidesByStaleCache
  <2> HIDE DEF ids
  <2>3. CancelsIt(ids, events, events', working, working') /\ position' = position
    BY <1>5, <2>1, <1>CancelsOne, Zenon
  <2>4. Flow(Now', events', working', position, running)
    BY <1>4, <1>8, <2>2, <2>3, <1>SweepFlow, Zenon
  <2> QED
    BY <1>4, <2>3, <2>4, Zenon
<1> QED
  BY <1>2, <1>6, <1>7, <1>8, Zenon

\* Every step keeps the invariant.
LEMMA FlowStep ==
  ASSUME FlowInv, [Next]_vars
  PROVE  FlowInv'
<1>1. IInv'
  BY EmaStep, Zenon DEF FlowInv
<1>2. running' \in BOOLEAN /\ overtaken' \in BOOLEAN
  <2>1. running \in BOOLEAN /\ overtaken \in BOOLEAN
    BY Zenon DEF FlowInv
  <2>2. CASE on_bar
    BY <2>1, <2>2, Zenon DEF on_bar
  <2>3. CASE on_stop
    BY <2>1, <2>3, Zenon DEF on_stop
  <2>4. CASE on_reset
    BY <2>1, <2>4, Zenon DEF on_reset
  <2>5. CASE handle_event
    BY <2>1, <2>5, Zenon DEF handle_event
  <2>6. CASE process_command
    BY <2>1, <2>6, Zenon DEF process_command, StrategyUnchanged
  <2>7. CASE match_stop_market_order
    BY <2>1, <2>7, Zenon DEF match_stop_market_order, StrategyUnchanged
  <2>8. CASE UNCHANGED vars
    BY <2>1, <2>8, Zenon DEF vars
  <2> QED
    BY <2>2, <2>3, <2>4, <2>5, <2>6, <2>7, <2>8, Zenon DEF Next
<1>3. ASSUME ~overtaken'
      PROVE  Flow(Now, events, working, position, running)'
  <2>1. CASE UNCHANGED vars
    <3>1. ~overtaken /\ Flow(Now, events, working, position, running)
      BY <1>3, <2>1, Zenon DEF vars, FlowInv
    <3>2. Now' = Now /\ events' = events /\ working' = working /\ position' = position
          /\ running' = running
      BY <2>1, Zenon DEF vars, Now
    <3> QED
      BY <3>1, <3>2, Zenon
  <2> QED
    BY Zenon, <1>3, <2>1, on_barFlow, on_stopFlow, on_resetFlow, handle_eventFlow, process_commandFlow,
       match_stopFlow DEF Next
<1> QED
  BY <1>1, <1>2, <1>3, Zenon DEF FlowInv

\* The strategy starts with nothing on its way.
LEMMA FlowInit ==
  ASSUME Init
  PROVE  FlowInv
<1>1. IInv
  BY EmaInit, Zenon
<1>2. Now.c = << >> /\ Now.s = reset /\ Now.o = << >> /\ Now.n = 0
  BY Zenon DEF Init, Now
<1>3. /\ \A do : Asked(Now.c, do) = {} /\ \A t \in {"ENTRY", "SL", "CLOSE"} : Tagged(Now, t) = {}
      /\ Ordered(Now, 6)
  BY <1>2, Idle, Zenon
<1>4. \A is : Told(events, is) = {}
  BY NothingAsked, Zenon DEF Init
<1>5. Now.s.sl_order_id = None /\ Now.s.entry_order_id = None
  BY ONLY <1>2 DEF reset
<1>6. Lanes(Now, events, working, position)
  <2>1. Len(events) = 0 /\ working = {} /\ position = 0
    BY Zenon DEF Init
  <2>2. Apart(events)
    BY ONLY <2>1 DEF Apart
  <2> QED
    BY ONLY <1>3, <1>4, <2>1, <2>2 DEF Lanes
<1>7. Trade(Now, events, working, position, running)
  <2>1. working = {} /\ position = 0
    BY Zenon DEF Init
  <2>2. Accounted(Now, events, position) /\ Known(Now, running)
    BY <1>2, <1>4, <1>5, <2>1, Zenon DEF Accounted, Known
  <2>3. Covered(Now, events, working, position, running) /\ Waits(Now, events, working, running)
    BY <1>5, <2>1, Zenon DEF Covered, Waits
  <2>4. /\ Enters(Now, events, running) /\ Ends(Now, events, working, position, running)
        /\ Replaces(Now, working, position, running)
    BY <1>3, <1>4, <2>1, Zenon DEF Enters, Ends, Replaces
  <2> QED
    BY <2>2, <2>3, <2>4, Zenon DEF Trade
<1> QED
  BY <1>1, <1>6, <1>7, Zenon DEF FlowInv, Flow, Init

\* With nothing on its way what is left of the invariant is Protected.
LEMMA FlowProtects ==
  ASSUME FlowInv
  PROVE  Protected
<1> SUFFICES ASSUME Quiet, ~overtaken
             PROVE  IF position = 0 THEN working = {} /\ (running => strategy.sl_order_id = None)
                    ELSE /\ running
                         /\ working = {strategy.sl_order_id}
                         /\ strategy.entry_side = position
                         /\ orders[strategy.sl_order_id].side = -position
                         /\ orders[strategy.sl_order_id].trigger = Price(strategy.trail_px)
  BY Zenon DEF Protected
<1>1. IInv /\ Flow(Now, events, working, position, running)
  BY Zenon DEF FlowInv
<1>2. /\ Sound(Now) /\ Now.s = strategy /\ Now.o = orders /\ Now.c = << >> /\ events = << >>
      /\ strategy.sl_order_id # 0 => orders[strategy.sl_order_id].trigger = Price(strategy.trail_px)
  BY <1>1, NowSound, Zenon DEF IInv, Quiet
<1>3. /\ \A do : Asked(Now.c, do) = {} /\ \A t \in {"ENTRY", "SL", "CLOSE"} : Tagged(Now, t) = {}
  BY <1>2, Idle, Zenon
<1>4. \A is : Told(events, is) = {}
  BY <1>2, NothingAsked, Zenon
<1>5. Venue(Now, events, working)
  BY <1>1, <1>2, Zenon DEF IInv, Venue, OrderIds
<1>6. CASE position = 0
  <2>1. working = {}
    BY <1>1, <1>2, <1>5, <1>6, StopMeansPosition, Zenon DEF Flow
  <2>2. running => strategy.sl_order_id = None
    BY <1>1, <1>2, <1>3, <1>4, <2>1, Zenon DEF Flow, Trade, Waits
  <2> QED
    BY <1>6, <2>1, <2>2, Zenon
<1>7. CASE position # 0
  <2>1. /\ running /\ strategy.sl_order_id # None /\ working = {strategy.sl_order_id}
        /\ strategy.entry_side = position /\ orders[strategy.sl_order_id].side = -position
    BY <1>1, <1>2, <1>3, <1>4, <1>7, Zenon DEF Flow, Trade, Covered
  <2> QED
    BY <1>2, <1>7, <2>1, Zenon DEF None
<1> QED
  BY <1>6, <1>7, Zenon

\* A position has one stop at the venue, the one the strategy waits for, on the right
\* side and at the price it trails, whenever nothing is on its way: for any prices,
\* any stop distance and any number of orders, and however bars, fills, rejections
\* and triggers interleave, unless the strategy traded on a crossing or was stopped
\* with commands or events on their way, or the venue decided by a stale cache.
THEOREM EmaProtected == Spec => []Protected
<1>1. Init => FlowInv
  BY FlowInit, Zenon
<1>2. FlowInv /\ [Next]_vars => FlowInv'
  BY FlowStep, Zenon
<1>3. FlowInv => Protected
  BY FlowProtects, Zenon
<1> QED
  BY <1>1, <1>2, <1>3, PTL DEF Spec
=============================================================================
