----------------------------- MODULE EmaCrossRR -----------------------------
(***************************************************************************)
(* strategies/ema_cross_rr.py: a strategy that enters at market when two   *)
(* moving averages cross, protects the position with one stop order, moves *)
(* the stop as the price goes its way, and reverses when the averages      *)
(* cross back.                                                             *)
(*                                                                         *)
(* The strategy keeps its own idea of the entry and of the stop it waits   *)
(* for, and learns what happened to them from events.  Its commands reach  *)
(* the venue, and the venue's events the strategy, in order but any time   *)
(* later, so a bar may be handled while some are still on their way.  The  *)
(* venue is the matching engine of the backtest and of the sandbox, which  *)
(* looks orders and the position up in the cache of the engine, where its  *)
(* own last events may not have arrived.  Every order is for one           *)
(* trade_size, filled at once.                                             *)
(***************************************************************************)
EXTENDS Integers, Sequences, Functions

CONSTANTS
    Prices,          \* prices of fills and extremes of bars
    Tick,            \* the precision of the instrument; prices are in smaller units
    stop_loss_pct,   \* of the entry price
    MaxOrders        \* bound: bars stop when this many orders have been made

ASSUME EmaAssumption ==
    /\ Tick \in Nat \ {0} /\ stop_loss_pct \in Nat /\ MaxOrders \in Nat
    /\ Prices \subseteq Nat \ {0} /\ \A px \in Prices : px % Tick = 0

VARIABLES
    running,     \* the strategy is RUNNING
    strategy,    \* the fields of EMACrossRR
    orders,      \* the cache: every order made, by number
    net,         \* the position in the cache
    commands,    \* on their way to the venue
    events,      \* on their way to the strategy
    working,     \* stop orders open at the venue
    position,    \* history: what the fills made by the venue add up to
    overtaken    \* history: a decision was made with others still on their way

vars == <<running, strategy, orders, net, commands, events, working, position, overtaken>>

None == 0
Side == {1, -1}                                    \* BUY, SELL

Fields == [entry_order_id : Nat, sl_order_id : Nat, entry_side : Side \cup {None}, entry_px : Int,
           peak_px : Int, trail_px : Int, sl_distance : Int, trail_active : BOOLEAN,
           prev_bullish : {"None", "Bullish", "Bearish"}]

Order == [tag : {"ENTRY", "SL", "CLOSE"}, side : Side, quantity : Nat, trigger : Int,
          status : {"SUBMITTED", "ACCEPTED", "PENDING_CANCEL", "CANCELED", "REJECTED", "FILLED"}]

CancelAll == [do |-> "cancel_all", id |-> None]

OrderIds == 1 .. Len(orders)

TypeOK ==
    /\ running \in BOOLEAN /\ overtaken \in BOOLEAN
    /\ strategy \in Fields
    /\ orders \in Seq(Order)
    /\ net \in Int /\ position \in Int
    /\ commands \in Seq([do : {"submit", "cancel"}, id : OrderIds] \cup {CancelAll})
    /\ events \in Seq([is : {"Accepted", "Rejected", "Canceled", "Filled"}, id : OrderIds,
                       quantity : Nat, px : Int])
    /\ working \subseteq OrderIds

reset == [entry_order_id |-> None, sl_order_id |-> None, entry_side |-> None, entry_px |-> 0,
          peak_px |-> 0, trail_px |-> 0, sl_distance |-> 0, trail_active |-> FALSE,
          prev_bullish |-> "None"]

Init ==
    /\ running = TRUE /\ strategy = reset /\ orders = << >> /\ net = 0
    /\ commands = << >> /\ events = << >> /\ working = {} /\ position = 0
    /\ overtaken = FALSE

-----------------------------------------------------------------------------
(* What a handler sees and has done so far: the fields s, the orders o, the  *)
(* net position n and the commands c.  Methods take it and return it.        *)

Now == [s |-> strategy, o |-> orders, n |-> net, c |-> commands]

is_open(order) == order.status \in {"ACCEPTED", "PENDING_CANCEL"}

submit_order(h, tag, side, quantity, trigger) ==
    [h EXCEPT !.o = Append(@, [tag |-> tag, side |-> side, quantity |-> quantity,
                               trigger |-> trigger, status |-> "SUBMITTED"]),
              !.c = Append(@, [do |-> "submit", id |-> Len(h.o) + 1])]

(* The caller has seen that the order is open. *)
cancel_order(h, id) ==
    IF h.o[id].status = "PENDING_CANCEL" THEN h
    ELSE [h EXCEPT !.o[id].status = "PENDING_CANCEL",
                   !.c = Append(@, [do |-> "cancel", id |-> id])]

cancel_all_orders(h) ==
    IF \A i \in DOMAIN h.o : ~is_open(h.o[i]) /\ h.o[i].status # "SUBMITTED" THEN h
    ELSE [h EXCEPT !.o = [i \in DOMAIN h.o |->
                            IF is_open(h.o[i]) THEN [h.o[i] EXCEPT !.status = "PENDING_CANCEL"]
                            ELSE h.o[i]],
                   !.c = Append(@, CancelAll)]

close_all_positions(h) ==
    CASE h.n = 0 -> h
      [] h.n > 0 -> submit_order(h, "CLOSE", -1, h.n, 0)
      [] h.n < 0 -> submit_order(h, "CLOSE", 1, -h.n, 0)

(* The fields on_event and _exit_and_reverse clear when a trade is over. *)
trade_over(s) ==
    [s EXCEPT !.sl_order_id = None, !.entry_side = None, !.peak_px = 0, !.trail_px = 0,
              !.sl_distance = 0, !.trail_active = FALSE]

_enter(h, side) ==
    LET submitted == submit_order(h, "ENTRY", side, 1, 0)
    IN  [submitted EXCEPT !.s.entry_order_id = Len(submitted.o), !.s.entry_side = side]

(* A price is rounded to the precision of the instrument, half a tick up. *)
Price(px) == ((px + Tick \div 2) \div Tick) * Tick

(* A side that has been cleared is taken for SELL. *)
_place_sl(h, side, entry_px) ==
    LET exit_side == IF side = 1 THEN -1 ELSE 1
        sl_dist   == (entry_px * stop_loss_pct) \div 100
        sl_price  == Price(entry_px + exit_side * sl_dist)
        submitted == submit_order(h, "SL", exit_side, 1, sl_price)
    IN  [submitted EXCEPT !.s.peak_px = entry_px, !.s.trail_px = sl_price, !.s.sl_distance = sl_dist,
                          !.s.trail_active = FALSE, !.s.sl_order_id = Len(submitted.o)]

(* Mutant: the stop being replaced is not cancelled. *)
_update_trailing_sl_KeepsOld(h, new_trail_px) ==
    IF ~is_open(h.o[h.s.sl_order_id]) THEN h
    ELSE LET submitted == submit_order(h, "SL", -h.s.entry_side, 1, Price(new_trail_px))
         IN  [submitted EXCEPT !.s.sl_order_id = Len(submitted.o), !.s.trail_px = new_trail_px]

(* The order has the rounded price, the field the exact one. *)
_update_trailing_sl(h, new_trail_px) ==
    IF ~is_open(h.o[h.s.sl_order_id]) THEN h
    ELSE LET submitted == submit_order(cancel_order(h, h.s.sl_order_id),
                                       "SL", -h.s.entry_side, 1, Price(new_trail_px))
         IN  [submitted EXCEPT !.s.sl_order_id = Len(submitted.o), !.s.trail_px = new_trail_px]

(* Mutant: the stop follows every bar. *)
trail_EveryBar(h, px) ==
    IF h.s.sl_order_id = None \/ h.s.entry_side = None \/ h.s.peak_px = 0 THEN h
    ELSE _update_trailing_sl([h EXCEPT !.s.peak_px = px], px - h.s.entry_side * h.s.sl_distance)

(* The part of on_bar that moves the stop; px is the high of the bar for a   *)
(* long trade and its low for a short one.                                   *)
trail(h, px) ==
    LET s         == h.s
        ahead(a, b) == s.entry_side * (a - b)        \* how much better a is than b
        active    == s.trail_active \/ ahead(px, s.entry_px) >= s.sl_distance
        new_peak  == IF ahead(px, s.peak_px) > 0 THEN px ELSE s.peak_px
        new_trail == new_peak - s.entry_side * s.sl_distance
        activated == [h EXCEPT !.s.trail_active = active]
    IN  IF s.sl_order_id = None \/ s.entry_side = None \/ s.peak_px = 0 THEN h
        ELSE IF active /\ ahead(new_trail, s.trail_px) > 0
        THEN _update_trailing_sl([activated EXCEPT !.s.peak_px = new_peak], new_trail)
        ELSE activated

_exit_and_reverse(h, new_side) ==
    LET sl        == h.s.sl_order_id
        cancelled == IF sl # None /\ is_open(h.o[sl]) THEN cancel_order(h, sl) ELSE h
        closed    == close_all_positions(cancel_all_orders(cancelled))
    IN  _enter([closed EXCEPT !.s = trade_over(@)], new_side)

(* The part of on_bar that trades. *)
cross(h, bullish) ==
    LET side == IF bullish = "Bullish" THEN 1 ELSE -1
        seen == [h EXCEPT !.s.prev_bullish = bullish]
    IN  CASE h.s.prev_bullish \in {"None", bullish} -> seen
          [] OTHER -> CASE h.n = 0 -> _enter(seen, side)
                        [] side * h.n < 0 -> _exit_and_reverse(seen, side)
                        [] OTHER -> seen

-----------------------------------------------------------------------------
Quiet == commands = << >> /\ events = << >>

Becomes(h) == strategy' = h.s /\ orders' = h.o /\ net' = h.n /\ commands' = h.c

VenueUnchanged == UNCHANGED <<working, position>>

on_bar ==
    /\ running /\ Len(orders) < MaxOrders
    /\ \E px \in Prices, bullish \in {"Bullish", "Bearish"} :
          LET moved  == trail(Now, px)
              traded == cross(moved, bullish)
          IN  /\ Becomes(traded)
              /\ overtaken' = (overtaken \/ (~Quiet /\ traded.o # moved.o))
    /\ UNCHANGED <<running, events>>
    /\ VenueUnchanged

(* With close_positions_on_stop. *)
on_stop ==
    /\ running
    /\ running' = FALSE
    /\ Becomes(close_all_positions(cancel_all_orders(Now)))
    /\ overtaken' = (overtaken \/ ~Quiet)
    /\ UNCHANGED events
    /\ VenueUnchanged

on_reset ==
    /\ ~running /\ strategy # reset
    /\ strategy' = reset
    /\ UNCHANGED <<running, orders, net, commands, events, overtaken>>
    /\ VenueUnchanged

on_event(h, e) ==
    CASE e.is = "Rejected" /\ e.id = h.s.sl_order_id ->
            LET closed == close_all_positions(cancel_all_orders([h EXCEPT !.s.sl_order_id = None]))
            IN  [closed EXCEPT !.s = trade_over(@)]
      [] e.is = "Filled" /\ e.id = h.s.entry_order_id ->
            _place_sl([h EXCEPT !.s.entry_px = e.px, !.s.entry_order_id = None],
                      h.s.entry_side, e.px)
      [] e.is = "Filled" /\ e.id # h.s.entry_order_id /\ e.id = h.s.sl_order_id ->
            [h EXCEPT !.s = trade_over(@)]
      [] OTHER -> h

(* The engine applies the event to the order and to the position, and hands  *)
(* it to the strategy while that is running.                                 *)
Applied(e) ==
    [Now EXCEPT !.o[e.id].status = CASE e.is = "Accepted" -> "ACCEPTED"
                                     [] e.is = "Rejected" -> "REJECTED"
                                     [] e.is = "Canceled" -> "CANCELED"
                                     [] e.is = "Filled" -> "FILLED",
                !.n = IF e.is = "Filled" THEN @ + orders[e.id].side * e.quantity ELSE @]

handle_event ==
    /\ events # << >>
    /\ events' = Tail(events)
    /\ LET h == Applied(Head(events))
       IN  Becomes(IF running THEN on_event(h, Head(events)) ELSE h)
    /\ UNCHANGED <<running, overtaken>>
    /\ VenueUnchanged

-----------------------------------------------------------------------------
(* The matching engine. *)

Event(is, id, quantity, px) == [is |-> is, id |-> id, quantity |-> quantity, px |-> px]

StrategyUnchanged == UNCHANGED <<running, strategy, orders, net>>

(* The stop has no position id, so that a fill that leaves no position does  *)
(* not find it among the orders of the position to cancel it.                *)
fill_order(id, quantity, px) ==
    /\ position' = position + orders[id].side * quantity
    /\ working' = working \ {id}
    /\ events' = Append(events, Event("Filled", id, quantity, px))

Rejects(id) ==
    events' = Append(events, Event("Rejected", id, 0, 0)) /\ UNCHANGED <<working, position>>

would_reduce(id) == orders[id].side * net < 0

(* A market order fills, an entry may also find no market. *)
process_market_order(id) ==
    LET order == orders[id]
    IN  \/ /\ order.tag = "ENTRY"
           /\ \/ \E px \in Prices : fill_order(id, 1, px)
              \/ Rejects(id)
        \/ /\ order.tag = "CLOSE" /\ would_reduce(id)
           /\ LET open == IF net > 0 THEN net ELSE -net
              IN  \E px \in Prices :
                    fill_order(id, IF order.quantity < open THEN order.quantity ELSE open, px)
        \/ order.tag = "CLOSE" /\ ~would_reduce(id) /\ Rejects(id)

(* A stop is rejected when it would not reduce the position or the market    *)
(* is already past it.                                                       *)
process_stop_market_order(id) ==
    /\ orders[id].tag = "SL"
    /\ \/ Rejects(id)
       \/ /\ would_reduce(id)
          /\ working' = working \cup {id}
          /\ events' = Append(events, Event("Accepted", id, 0, 0))
          /\ UNCHANGED position

(* In whatever order the cache lists them. *)
Cancels(ids) ==
    /\ working' = working \ ids
    /\ LET found == working \cap ids
       IN  \E n \in 0 .. Len(orders) : \E list \in Bijection(1 .. n, found) :
              events' = events \o [i \in 1 .. n |-> Event("Canceled", list[i], 0, 0)]
    /\ UNCHANGED position

(* The venue decides by a cache that its own events are about to change: it  *)
(* checks a reduce-only order against a position with a fill on its way, or  *)
(* passes over a stop that it has accepted and the cache does not show open. *)
DecidesByStaleCache(command) ==
    \/ command.do = "submit" /\ orders[command.id].tag # "ENTRY" /\ net # position
    \/ command.do = "cancel_all" /\ \E i \in working : ~is_open(orders[i])

process_command ==
    /\ commands # << >>
    /\ commands' = Tail(commands)
    /\ LET command == Head(commands)
       IN  \/ /\ command.do = "submit"
              /\ process_market_order(command.id) \/ process_stop_market_order(command.id)
           \/ command.do = "cancel" /\ Cancels({command.id})
           \/ command.do = "cancel_all" /\ Cancels({i \in working : is_open(orders[i])})
    /\ overtaken' = (overtaken \/ DecidesByStaleCache(Head(commands)))
    /\ StrategyUnchanged

(* A stop that triggers fills, whichever side the position is on, and is     *)
(* canceled when there is no position.                                       *)
match_stop_market_order ==
    /\ \E id \in working :
          IF net = 0 THEN Cancels({id}) ELSE fill_order(id, 1, orders[id].trigger)
    /\ UNCHANGED <<commands, overtaken>>
    /\ StrategyUnchanged

-----------------------------------------------------------------------------
Next ==
    \/ on_bar \/ on_stop \/ on_reset \/ handle_event
    \/ process_command \/ match_stop_market_order

Spec == Init /\ [][Next]_vars

-----------------------------------------------------------------------------
(* Properties. *)

(* _place_sl, _update_trailing_sl and the guard of on_event together: once   *)
(* everything on its way has arrived, a position has one stop at the venue,  *)
(* on the right side, at the price the strategy trails and under the id it   *)
(* waits for, and without a position there is none.  It is so however bars,  *)
(* rejections and the triggers of stops interleave, unless the strategy      *)
(* traded on a crossing or was stopped while commands or events were on      *)
(* their way, or the venue decided by a stale cache.                         *)
Protected ==
    Quiet /\ ~overtaken =>
        IF position = 0 THEN working = {} /\ (running => strategy.sl_order_id = None)
        ELSE /\ running
             /\ working = {strategy.sl_order_id}
             /\ strategy.entry_side = position
             /\ orders[strategy.sl_order_id].side = -position
             /\ orders[strategy.sl_order_id].trigger = Price(strategy.trail_px)

(* The README: "The SL can only ratchet in our favour - never against us".   *)
(* Within a trade the stop the strategy waits for is replaced only by one    *)
(* that is no farther, although trail compares exact prices and the orders   *)
(* have rounded ones.                                                        *)
RatchetsOnly ==
    [][LET sl == strategy.sl_order_id
           sl_next == strategy'.sl_order_id
       IN  sl # None /\ sl_next \notin {None, sl} /\ strategy'.entry_order_id = strategy.entry_order_id
             => strategy.entry_side * (orders'[sl_next].trigger - orders[sl].trigger) >= 0]_vars
=============================================================================
