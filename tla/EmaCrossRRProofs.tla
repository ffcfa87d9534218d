-------------------------- MODULE EmaCrossRRProofs --------------------------
(***************************************************************************)
(* Proofs that within a trade the strategy's stop is only ever replaced by *)
(* a tighter one, for any prices, any stop distance and any number of      *)
(* orders, and the first half of the proof that a position has the one     *)
(* stop it should have (EmaProtectedProofs has the other half).  IInv ties *)
(* the stop the strategy waits for to the price it trails: trail compares  *)
(* with the price, RatchetsOnly speaks of the orders.  Flow is about what  *)
(* is on its way between the strategy and the venue: the commands are in   *)
(* the order the methods give them, every fill not yet delivered is the    *)
(* difference between the position and the cached one, and a position has  *)
(* its stop working, asked for, or about to be asked for when its entry's  *)
(* fill is delivered.  Here on_bar, on_stop and on_reset are shown to keep *)
(* it.                                                                     *)
(***************************************************************************)
EXTENDS EmaCrossRR, TLAPS

Command == [do : {"submit", "cancel"}, id : Nat \ {0}] \cup {CancelAll}

Handler == [s : Fields, o : Seq(Order), n : Int, c : Seq(Command)]

\* What every method of the strategy may rely on and keeps: ids name orders, and
\* the stop it waits for is at the price it trails.
Sound(h) ==
    /\ h \in Handler
    /\ \A i \in 1 .. Len(h.c) : h.c[i].id <= Len(h.o)
    /\ h.s.entry_order_id <= Len(h.o) /\ h.s.sl_order_id <= Len(h.o)
    /\ h.s.sl_order_id # 0 => h.o[h.s.sl_order_id].trigger = Price(h.s.trail_px)

\* Orders are added and change status, nothing else.
Grows(h, g) ==
    /\ Len(h.o) <= Len(g.o)
    /\ \A i \in 1 .. Len(h.o) : g.o[i].trigger = h.o[i].trigger

-----------------------------------------------------------------------------
\* The parts of a sound handler state have their types.
LEMMA SoundType ==
  \A h : Sound(h) =>
      /\ h \in Handler /\ h.s \in Fields /\ h.n \in Int
      /\ h.o \in Seq(Order) /\ Len(h.o) \in Nat /\ \A i \in 1 .. Len(h.o) : h.o[i] \in Order
      /\ h.c \in Seq(Command) /\ Len(h.c) \in Nat /\ \A i \in 1 .. Len(h.c) : h.c[i] \in Command
      /\ h.s.entry_order_id \in 0 .. Len(h.o) /\ h.s.entry_order_id <= Len(h.o)
      /\ h.s.sl_order_id \in 0 .. Len(h.o) /\ h.s.sl_order_id <= Len(h.o)
      /\ h.s.entry_side \in Side \cup {None} /\ h.s.entry_side \in Int
      /\ h.s.entry_px \in Int /\ h.s.peak_px \in Int /\ h.s.trail_px \in Int
      /\ h.s.sl_distance \in Int /\ h.s.trail_active \in BOOLEAN
<1> SUFFICES ASSUME NEW h, Sound(h)
             PROVE  /\ h \in Handler /\ h.s \in Fields /\ h.n \in Int
                    /\ h.o \in Seq(Order) /\ Len(h.o) \in Nat
                    /\ \A i \in 1 .. Len(h.o) : h.o[i] \in Order
                    /\ h.c \in Seq(Command) /\ Len(h.c) \in Nat
                    /\ \A i \in 1 .. Len(h.c) : h.c[i] \in Command
                    /\ h.s.entry_order_id \in 0 .. Len(h.o) /\ h.s.entry_order_id <= Len(h.o)
                    /\ h.s.sl_order_id \in 0 .. Len(h.o) /\ h.s.sl_order_id <= Len(h.o)
                    /\ h.s.entry_side \in Side \cup {None} /\ h.s.entry_side \in Int
                    /\ h.s.entry_px \in Int /\ h.s.peak_px \in Int /\ h.s.trail_px \in Int
                    /\ h.s.sl_distance \in Int /\ h.s.trail_active \in BOOLEAN
  BY Zenon
<1>1. /\ h \in Handler /\ h.s \in Fields /\ h.n \in Int /\ h.o \in Seq(Order) /\ h.c \in Seq(Command)
      /\ h.s.entry_order_id <= Len(h.o) /\ h.s.sl_order_id <= Len(h.o)
  BY DEF Sound, Handler
<1>2. /\ Len(h.o) \in Nat /\ \A i \in 1 .. Len(h.o) : h.o[i] \in Order
      /\ Len(h.c) \in Nat /\ \A i \in 1 .. Len(h.c) : h.c[i] \in Command
  BY ONLY <1>1
<1>3. /\ h.s.entry_order_id \in Nat /\ h.s.sl_order_id \in Nat
      /\ h.s.entry_side \in Side \cup {None} /\ h.s.entry_side \in Int
      /\ h.s.entry_px \in Int /\ h.s.peak_px \in Int /\ h.s.trail_px \in Int
      /\ h.s.sl_distance \in Int /\ h.s.trail_active \in BOOLEAN
  BY <1>1 DEF Fields, Side, None
<1>4. h.s.entry_order_id \in 0 .. Len(h.o) /\ h.s.sl_order_id \in 0 .. Len(h.o)
  BY ONLY <1>1, <1>2, <1>3
<1> QED
  BY <1>1, <1>2, <1>3, <1>4, Zenon

\* A quotient is found by comparing with multiples of the divisor.
LEMMA Quotient ==
  ASSUME NEW a \in Int
  PROVE  a \div Tick \in Int /\ Tick * (a \div Tick) <= a /\ a < Tick * (a \div Tick) + Tick
BY ONLY EmaAssumption

\* Quotients less than one apart are in order.
LEMMA QuotientsOrdered ==
  ASSUME NEW q \in Int, NEW r \in Int, Tick * q < Tick * r + Tick
  PROVE  q <= r
<1>0. Tick \in Nat \ {0}
  BY EmaAssumption, Zenon
<1>1. SUFFICES ASSUME q >= r + 1
               PROVE  FALSE
  OBVIOUS
<1>2. Tick * (q - r) >= Tick
  BY ONLY <1>0, <1>1
<1>3. Tick * q = Tick * (q - r) + Tick * r
  BY ONLY <1>0
<1>4. Tick * q \in Int /\ Tick * r \in Int /\ Tick * (q - r) \in Int
  BY ONLY <1>0
<1> QED
  BY <1>0, <1>2, <1>3, <1>4

\* The half that rounding adds is less than a tick.
LEMMA HalfTick == Tick \div 2 \in Int /\ 0 <= Tick \div 2 /\ Tick \div 2 < Tick
BY ONLY EmaAssumption

\* Price rounds to an integer,
LEMMA PriceInt ==
  ASSUME NEW a \in Int
  PROVE  Price(a) \in Int
BY ONLY EmaAssumption DEF Price

\* and leaves a rounded price alone.
LEMMA PriceOfPrice ==
  ASSUME NEW a \in Int
  PROVE  Price(Price(a)) = Price(a)
<1> DEFINE half == Tick \div 2
           q == (a + half) \div Tick
           r == (q * Tick + half) \div Tick
<1>0. Tick \in Nat \ {0} /\ half \in Int /\ 0 <= half /\ half < Tick
  BY EmaAssumption, HalfTick, Zenon
<1>1. Price(a) = q * Tick /\ Price(Price(a)) = r * Tick
  BY Zenon DEF Price
<1> HIDE DEF half
<1>2. q \in Int /\ q * Tick \in Int /\ q * Tick = Tick * q
  BY ONLY <1>0, Quotient
<1> HIDE DEF q
<1>3. r \in Int /\ Tick * r <= q * Tick + half /\ q * Tick + half < Tick * r + Tick
  BY ONLY <1>0, <1>2, Quotient
<1> HIDE DEF r
<1>4. Tick * r < Tick * q + Tick /\ Tick * q < Tick * r + Tick
  BY ONLY <1>0, <1>2, <1>3
<1>5. r <= q /\ q <= r
  BY <1>2, <1>3, <1>4, QuotientsOrdered, Zenon
<1> QED
  BY ONLY <1>1, <1>2, <1>3, <1>5

-----------------------------------------------------------------------------
\* One more command, for an order that exists.
LEMMA OneCommand ==
  ASSUME NEW c \in Seq(Command), NEW n \in Nat, NEW m \in Nat, m <= n,
         \A i \in 1 .. Len(c) : c[i].id <= m,
         NEW command \in Command, command.id <= n
  PROVE  /\ Append(c, command) \in Seq(Command)
         /\ \A i \in 1 .. Len(Append(c, command)) : Append(c, command)[i].id <= n
<1>1. \A i \in 1 .. Len(c) : c[i].id \in Nat
  BY DEF Command, CancelAll, None
<1>2. /\ Append(c, command) \in Seq(Command) /\ Len(Append(c, command)) = Len(c) + 1
      /\ Append(c, command)[Len(c) + 1] = command
      /\ \A i \in 1 .. Len(c) : Append(c, command)[i] = c[i]
  OBVIOUS
<1> QED
  BY <1>1, <1>2

\* submit_order adds one order, and leaves the fields to its caller.
LEMMA SubmitSound ==
  ASSUME NEW h, Sound(h), NEW tag \in {"ENTRY", "SL", "CLOSE"}, NEW side \in Side,
         NEW quantity \in Nat, NEW trigger \in Int
  PROVE  LET g == submit_order(h, tag, side, quantity, trigger)
         IN  /\ Sound(g) /\ Grows(h, g) /\ g.s = h.s
             /\ Len(g.o) = Len(h.o) + 1 /\ g.o[Len(h.o) + 1].trigger = trigger
<1> DEFINE order == [tag |-> tag, side |-> side, quantity |-> quantity,
                     trigger |-> trigger, status |-> "SUBMITTED"]
           command == [do |-> "submit", id |-> Len(h.o) + 1]
           g == submit_order(h, tag, side, quantity, trigger)
<1>0. /\ h \in Handler /\ h.o \in Seq(Order) /\ Len(h.o) \in Nat /\ h.c \in Seq(Command)
      /\ h.s \in Fields /\ h.s.sl_order_id \in Nat /\ h.s.entry_order_id \in Nat
  BY SoundType, Zenon DEF Sound, Handler, Fields
<1>1. g = [h EXCEPT !.o = Append(h.o, order), !.c = Append(h.c, command)]
  BY Zenon DEF submit_order
<1>2. order \in Order /\ order.trigger = trigger
  BY Zenon DEF Order
<1>3. command \in Command /\ command.id = Len(h.o) + 1
  BY ONLY <1>0 DEF Command
<1> HIDE DEF order, command, g
<1>4. /\ Append(h.o, order) \in Seq(Order) /\ Len(Append(h.o, order)) = Len(h.o) + 1
      /\ Append(h.o, order)[Len(h.o) + 1] = order
      /\ \A i \in 1 .. Len(h.o) : Append(h.o, order)[i] = h.o[i]
  BY ONLY <1>0, <1>2
<1>5. /\ Append(h.c, command) \in Seq(Command)
      /\ \A i \in 1 .. Len(Append(h.c, command)) : Append(h.c, command)[i].id <= Len(h.o) + 1
  <2>1. /\ Len(h.o) + 1 \in Nat /\ Len(h.o) <= Len(h.o) + 1 /\ command.id <= Len(h.o) + 1
        /\ \A i \in 1 .. Len(h.c) : h.c[i].id <= Len(h.o)
    BY <1>0, <1>3 DEF Sound
  <2> QED
    BY <1>0, <1>3, <2>1, OneCommand, Zenon
<1>6. /\ g \in Handler /\ g.s = h.s /\ g.n = h.n
      /\ g.o = Append(h.o, order) /\ g.c = Append(h.c, command)
  BY <1>0, <1>1, <1>4, <1>5, Zenon DEF Handler
<1>7. Sound(g)
  BY <1>0, <1>4, <1>5, <1>6 DEF Sound
<1>8. Grows(h, g) /\ Len(g.o) = Len(h.o) + 1 /\ g.o[Len(h.o) + 1].trigger = trigger
  BY ONLY <1>0, <1>2, <1>4, <1>6 DEF Grows
<1> QED
  BY <1>6, <1>7, <1>8, Zenon DEF g

\* Growing is transitive.
LEMMA GrowsOn ==
  ASSUME NEW h, NEW g, NEW k, Sound(h), Sound(g), Sound(k), Grows(h, g), Grows(g, k)
  PROVE  Grows(h, k)
<1>1. Len(h.o) \in Nat /\ Len(g.o) \in Nat /\ Len(k.o) \in Nat
  BY SoundType, Zenon
<1> QED
  BY <1>1 DEF Grows

\* An assignment to the fields.
LEMMA FieldsSound ==
  ASSUME NEW h, Sound(h), NEW f \in Fields,
         f.entry_order_id <= Len(h.o), f.sl_order_id <= Len(h.o),
         f.sl_order_id # 0 => h.o[f.sl_order_id].trigger = Price(f.trail_px),
         NEW g \in [s : {f}, o : {h.o}, n : {h.n}, c : {h.c}]
  PROVE  Sound(g) /\ Grows(h, g) /\ g.s = f /\ g.o = h.o /\ g.n = h.n
<1>1. h \in Handler /\ Len(h.o) \in Nat
  BY SoundType, Zenon
<1>2. g \in Handler /\ g.s = f /\ g.o = h.o /\ g.n = h.n /\ g.c = h.c
  BY <1>1, Zenon DEF Handler
<1> QED
  BY <1>1, <1>2 DEF Sound, Grows

\* A change of the status of orders, and one more command.
LEMMA StatusSound ==
  ASSUME NEW h, Sound(h), NEW command \in Command, command.id <= Len(h.o),
         NEW g \in [s : {h.s}, o : Seq(Order), n : Int, c : {Append(h.c, command)}],
         Len(g.o) = Len(h.o),
         \A i \in 1 .. Len(h.o) : g.o[i].trigger = h.o[i].trigger
  PROVE  Sound(g) /\ Grows(h, g) /\ g.s = h.s /\ Len(g.o) = Len(h.o)
<1>1. /\ h \in Handler /\ Len(h.o) \in Nat /\ h.c \in Seq(Command) /\ h.s \in Fields
      /\ h.s.sl_order_id \in Nat
  BY SoundType, Zenon DEF Sound, Handler, Fields
<1>2. /\ Append(h.c, command) \in Seq(Command)
      /\ \A i \in 1 .. Len(Append(h.c, command)) : Append(h.c, command)[i].id <= Len(h.o)
  <2>1. Len(h.o) <= Len(h.o) /\ \A i \in 1 .. Len(h.c) : h.c[i].id <= Len(h.o)
    BY <1>1 DEF Sound
  <2> QED
    BY <1>1, <2>1, OneCommand, Zenon
<1>3. g \in Handler /\ g.s = h.s /\ g.c = Append(h.c, command)
  BY <1>1, <1>2, Zenon DEF Handler
<1>4. Sound(g) /\ Grows(h, g)
  BY <1>1, <1>2, <1>3 DEF Sound, Grows
<1> QED
  BY <1>3, <1>4, Zenon

\* cancel_order.
LEMMA CancelSound ==
  ASSUME NEW h, Sound(h), NEW id \in 1 .. Len(h.o)
  PROVE  LET g == cancel_order(h, id)
         IN  Sound(g) /\ Grows(h, g) /\ g.s = h.s /\ Len(g.o) = Len(h.o)
<1> DEFINE o == [h.o EXCEPT ![id] = [h.o[id] EXCEPT !.status = "PENDING_CANCEL"]]
           command == [do |-> "cancel", id |-> id]
<1>1. h \in Handler /\ h.o \in Seq(Order) /\ Len(h.o) \in Nat /\ h.o[id] \in Order
  BY SoundType, Zenon
<1>2. [h.o[id] EXCEPT !.status = "PENDING_CANCEL"] \in Order
      /\ [h.o[id] EXCEPT !.status = "PENDING_CANCEL"].trigger = h.o[id].trigger
  BY <1>1, Zenon DEF Order
<1>3. /\ o \in Seq(Order) /\ Len(o) = Len(h.o)
      /\ \A i \in 1 .. Len(h.o) : o[i].trigger = h.o[i].trigger
  BY ONLY <1>1, <1>2
<1>4. command \in Command /\ command.id <= Len(h.o)
  BY ONLY <1>1 DEF Command
<1>5. CASE h.o[id].status = "PENDING_CANCEL"
  BY <1>1, <1>5 DEF cancel_order, Grows
<1>6. CASE h.o[id].status # "PENDING_CANCEL"
  <2> DEFINE g == cancel_order(h, id)
  <2>1. g = [h EXCEPT !.o = o, !.c = Append(h.c, command)]
    BY <1>1, <1>6, Zenon DEF cancel_order, Handler
  <2> HIDE DEF o, command, g
  <2>2. g \in [s : {h.s}, o : Seq(Order), n : Int, c : {Append(h.c, command)}] /\ g.o = o
    BY <1>1, <1>3, <2>1, Zenon DEF Handler
  <2>3. Sound(g) /\ Grows(h, g) /\ g.s = h.s /\ Len(g.o) = Len(h.o)
    BY <1>3, <1>4, <2>2, StatusSound, Zenon
  <2> QED
    BY <2>3, Zenon DEF g
<1> QED
  BY <1>5, <1>6, Zenon

\* cancel_all_orders.
LEMMA CancelAllSound ==
  ASSUME NEW h, Sound(h)
  PROVE  LET g == cancel_all_orders(h)
         IN  Sound(g) /\ Grows(h, g) /\ g.s = h.s /\ Len(g.o) = Len(h.o)
<1> DEFINE o == [i \in DOMAIN h.o |->
                   IF is_open(h.o[i]) THEN [h.o[i] EXCEPT !.status = "PENDING_CANCEL"]
                   ELSE h.o[i]]
<1>1. h \in Handler /\ h.o \in Seq(Order) /\ Len(h.o) \in Nat /\ DOMAIN h.o = 1 .. Len(h.o)
  BY DEF Sound, Handler
<1>2. ASSUME NEW i \in 1 .. Len(h.o)
      PROVE  o[i] \in Order /\ o[i].trigger = h.o[i].trigger
  <2>1. h.o[i] \in Order
    BY <1>1, SoundType, Zenon
  <2>2. /\ [h.o[i] EXCEPT !.status = "PENDING_CANCEL"] \in Order
        /\ [h.o[i] EXCEPT !.status = "PENDING_CANCEL"].trigger = h.o[i].trigger
    BY <2>1, Zenon DEF Order
  <2> QED
    BY <1>1, <2>1, <2>2, Zenon
<1>3. o \in Seq(Order) /\ Len(o) = Len(h.o)
  <2>1. o \in [1 .. Len(h.o) -> Order]
    BY <1>1, <1>2, Zenon
  <2> QED
    BY ONLY <1>1, <2>1
<1>4. CancelAll \in Command /\ CancelAll.id <= Len(h.o)
  BY ONLY <1>1 DEF Command, CancelAll, None
<1>5. CASE \A i \in DOMAIN h.o : ~is_open(h.o[i]) /\ h.o[i].status # "SUBMITTED"
  BY <1>1, <1>5 DEF cancel_all_orders, Grows
<1>6. CASE ~ \A i \in DOMAIN h.o : ~is_open(h.o[i]) /\ h.o[i].status # "SUBMITTED"
  <2> DEFINE g == cancel_all_orders(h)
  <2>1. g = [h EXCEPT !.o = o, !.c = Append(h.c, CancelAll)]
    BY <1>1, <1>6, Zenon DEF cancel_all_orders, Handler
  <2> HIDE DEF o, g
  <2>2. g \in [s : {h.s}, o : Seq(Order), n : Int, c : {Append(h.c, CancelAll)}] /\ g.o = o
    BY <1>1, <1>3, <2>1, Zenon DEF Handler
  <2>3. Sound(g) /\ Grows(h, g) /\ g.s = h.s /\ Len(g.o) = Len(h.o)
    BY <1>2, <1>3, <1>4, <2>2, StatusSound, Zenon
  <2> QED
    BY <2>3, Zenon DEF g
<1> QED
  BY <1>5, <1>6, Zenon

\* close_all_positions.
LEMMA CloseSound ==
  ASSUME NEW h, Sound(h)
  PROVE  LET g == close_all_positions(h)
         IN  Sound(g) /\ Grows(h, g) /\ g.s = h.s
<1>1. h.n \in Int /\ Len(h.o) \in Nat
  BY SoundType, Zenon
<1>2. CASE h.n = 0
  BY <1>1, <1>2 DEF close_all_positions, Grows
<1>3. CASE h.n > 0
  <2>1. close_all_positions(h) = submit_order(h, "CLOSE", -1, h.n, 0)
    BY ONLY <1>1, <1>3 DEF close_all_positions
  <2>2. h.n \in Nat /\ -1 \in Side
    BY ONLY <1>1, <1>3 DEF Side
  <2> QED
    BY <2>1, <2>2, SubmitSound
<1>4. CASE h.n < 0
  <2>1. close_all_positions(h) = submit_order(h, "CLOSE", 1, -h.n, 0)
    BY ONLY <1>1, <1>4 DEF close_all_positions
  <2>2. -h.n \in Nat /\ 1 \in Side
    BY ONLY <1>1, <1>4 DEF Side
  <2> QED
    BY <2>1, <2>2, SubmitSound
<1> QED
  BY ONLY <1>1, <1>2, <1>3, <1>4

\* _enter makes one order, under an id not used before.
LEMMA EnterSound ==
  ASSUME NEW h, Sound(h), NEW side \in Side
  PROVE  LET g == _enter(h, side)
         IN  Sound(g) /\ Grows(h, g) /\ g.s.entry_order_id > Len(h.o)
<1> DEFINE submitted == submit_order(h, "ENTRY", side, 1, 0)
           f == [submitted.s EXCEPT !.entry_order_id = Len(submitted.o), !.entry_side = side]
           g == _enter(h, side)
<1>1. /\ Sound(submitted) /\ Grows(h, submitted) /\ submitted.s = h.s
      /\ Len(submitted.o) = Len(h.o) + 1
  BY SubmitSound
<1>2. g = [submitted EXCEPT !.s.entry_order_id = Len(submitted.o), !.s.entry_side = side]
  BY Zenon DEF _enter
<1> HIDE DEF submitted, g
<1>3. submitted \in Handler /\ submitted.s \in Fields /\ Len(h.o) \in Nat
  BY <1>1, SoundType, Zenon
<1>4. /\ f \in Fields /\ f.entry_order_id = Len(h.o) + 1
      /\ f.sl_order_id = submitted.s.sl_order_id /\ f.trail_px = submitted.s.trail_px
  <2>1. Len(submitted.o) \in Nat /\ side \in Side \cup {None}
    BY <1>1, <1>3, SoundType, Zenon
  <2> QED
    BY <1>1, <1>3, <2>1, Zenon DEF Fields
<1>5. g \in [s : {f}, o : {submitted.o}, n : {submitted.n}, c : {submitted.c}]
  BY <1>2, <1>3, Zenon DEF Handler
<1> HIDE DEF f
<1>6. /\ f.entry_order_id <= Len(submitted.o) /\ f.sl_order_id <= Len(submitted.o)
      /\ f.sl_order_id # 0 => submitted.o[f.sl_order_id].trigger = Price(f.trail_px)
  BY ONLY <1>1, <1>3, <1>4 DEF Sound
<1>7. Sound(g) /\ Grows(submitted, g) /\ g.s = f
  BY <1>1, <1>4, <1>5, <1>6, FieldsSound, Zenon
<1>8. Grows(h, g)
  BY <1>1, <1>7, GrowsOn, Zenon
<1> QED
  BY ONLY <1>3, <1>4, <1>7, <1>8 DEF g

\* A stop that has been submitted becomes the one the strategy waits for.
LEMMA StopSound ==
  ASSUME NEW h, Sound(h), NEW side \in Side, NEW trigger \in Int,
         NEW submitted, submitted = submit_order(h, "SL", side, 1, trigger),
         NEW f \in Fields, f.entry_order_id = h.s.entry_order_id,
         f.sl_order_id = Len(submitted.o), Price(f.trail_px) = trigger,
         NEW g \in [s : {f}, o : {submitted.o}, n : {submitted.n}, c : {submitted.c}]
  PROVE  Sound(g) /\ Grows(h, g) /\ g.s = f
<1>1. /\ Sound(submitted) /\ Grows(h, submitted) /\ submitted.s = h.s
      /\ Len(submitted.o) = Len(h.o) + 1 /\ submitted.o[Len(h.o) + 1].trigger = trigger
  BY SubmitSound
<1>2. Len(h.o) \in Nat /\ h.s \in Fields /\ h.s.entry_order_id \in Nat
  BY SoundType, Zenon DEF Sound, Handler, Fields
<1>3. /\ f.entry_order_id <= Len(submitted.o) /\ f.sl_order_id <= Len(submitted.o)
      /\ f.sl_order_id # 0 => submitted.o[f.sl_order_id].trigger = Price(f.trail_px)
  BY <1>1, <1>2 DEF Sound
<1>4. Sound(g) /\ Grows(submitted, g) /\ g.s = f
  BY ONLY <1>1, <1>3, FieldsSound
<1> QED
  BY <1>1, <1>4, GrowsOn, Zenon

\* _place_sl: the price it trails is the trigger of the stop it submits.
LEMMA PlaceSound ==
  ASSUME NEW h, Sound(h), NEW side \in Side \cup {None}, NEW entry_px \in Int
  PROVE  LET g == _place_sl(h, side, entry_px)
         IN  Sound(g) /\ Grows(h, g) /\ g.s.entry_order_id = h.s.entry_order_id
<1> DEFINE exit_side == IF side = 1 THEN -1 ELSE 1
           sl_dist   == (entry_px * stop_loss_pct) \div 100
           sl_price  == Price(entry_px + exit_side * sl_dist)
           submitted == submit_order(h, "SL", exit_side, 1, sl_price)
           f == [submitted.s EXCEPT !.peak_px = entry_px, !.trail_px = sl_price,
                                    !.sl_distance = sl_dist,
                                    !.trail_active = FALSE, !.sl_order_id = Len(submitted.o)]
           g == _place_sl(h, side, entry_px)
<1>0. exit_side \in Side /\ exit_side \in Int /\ sl_dist \in Int
  BY ONLY EmaAssumption DEF Side
<1>1. exit_side \in Side /\ sl_dist \in Int /\ sl_price \in Int /\ Price(sl_price) = sl_price
  <2> HIDE DEF exit_side, sl_dist
  <2>1. entry_px + exit_side * sl_dist \in Int
    BY ONLY <1>0
  <2> QED
    BY <1>0, <2>1, PriceInt, PriceOfPrice, Zenon
<1>2. g = [submitted EXCEPT !.s.peak_px = entry_px, !.s.trail_px = sl_price,
                            !.s.sl_distance = sl_dist,
                            !.s.trail_active = FALSE, !.s.sl_order_id = Len(submitted.o)]
  BY Zenon DEF _place_sl
<1> HIDE DEF exit_side, sl_dist, sl_price, g
<1>3. Sound(submitted) /\ submitted.s = h.s
  BY <1>1, SubmitSound
<1> HIDE DEF submitted
<1>5. submitted \in Handler /\ submitted.s \in Fields /\ Len(submitted.o) \in Nat
  BY <1>3, SoundType, Zenon
<1>6. /\ f \in Fields /\ f.entry_order_id = h.s.entry_order_id
      /\ f.sl_order_id = Len(submitted.o) /\ f.trail_px = sl_price
  BY <1>1, <1>3, <1>5, Zenon DEF Fields
<1>7. g \in [s : {f}, o : {submitted.o}, n : {submitted.n}, c : {submitted.c}]
  BY <1>2, <1>5, Zenon DEF Handler
<1>8. submitted = submit_order(h, "SL", exit_side, 1, sl_price)
  BY Zenon DEF submitted
<1> HIDE DEF f
<1>9. Sound(g) /\ Grows(h, g) /\ g.s = f
  BY <1>1, <1>6, <1>7, <1>8, StopSound
<1> QED
  BY <1>6, <1>9, Zenon DEF g

\* _update_trailing_sl: the stop stays, or is replaced by one at the new price.
LEMMA UpdateSound ==
  ASSUME NEW h, Sound(h), h.s.sl_order_id # 0, h.s.entry_side \in Side, NEW px \in Int
  PROVE  LET g == _update_trailing_sl(h, px)
         IN  /\ Sound(g) /\ Grows(h, g) /\ g.s.entry_order_id = h.s.entry_order_id
             /\ g.s.sl_order_id # h.s.sl_order_id => g.s.trail_px = px
<1>0. /\ h \in Handler /\ h.s \in Fields /\ Len(h.o) \in Nat
      /\ h.s.sl_order_id \in 1 .. Len(h.o) /\ -h.s.entry_side \in Side
  BY DEF Sound, Handler, Fields, Side
<1>p. Price(px) \in Int
  BY PriceInt, Zenon
<1>1. CASE ~is_open(h.o[h.s.sl_order_id])
  BY <1>0, <1>1 DEF _update_trailing_sl, Grows
<1>2. CASE is_open(h.o[h.s.sl_order_id])
  <2> DEFINE cancelled == cancel_order(h, h.s.sl_order_id)
             submitted == submit_order(cancelled, "SL", -h.s.entry_side, 1, Price(px))
             f == [submitted.s EXCEPT !.sl_order_id = Len(submitted.o), !.trail_px = px]
             g == _update_trailing_sl(h, px)
  <2>1. Sound(cancelled) /\ Grows(h, cancelled) /\ cancelled.s = h.s
    BY <1>0, CancelSound, Zenon
  <2>2. g = [submitted EXCEPT !.s.sl_order_id = Len(submitted.o), !.s.trail_px = px]
    BY <1>2, Zenon DEF _update_trailing_sl
  <2> HIDE DEF cancelled, g
  <2>3. Sound(submitted) /\ submitted.s = cancelled.s
    BY ONLY <1>0, <1>p, <2>1, SubmitSound
  <2>4. submitted = submit_order(cancelled, "SL", -h.s.entry_side, 1, Price(px))
    BY Zenon
  <2> HIDE DEF submitted
  <2>5. submitted \in Handler /\ submitted.s \in Fields /\ Len(submitted.o) \in Nat
    BY <2>3, SoundType, Zenon
  <2>6. /\ f \in Fields /\ f.entry_order_id = cancelled.s.entry_order_id
        /\ f.sl_order_id = Len(submitted.o) /\ f.trail_px = px
    BY <2>3, <2>5, Zenon DEF Fields
  <2>7. g \in [s : {f}, o : {submitted.o}, n : {submitted.n}, c : {submitted.c}]
    BY <2>2, <2>5, Zenon DEF Handler
  <2> HIDE DEF f
  <2>8. Sound(g) /\ Grows(cancelled, g) /\ g.s = f
    BY ONLY <1>0, <1>p, <2>1, <2>4, <2>6, <2>7, StopSound
  <2>9. Grows(h, g)
    BY <2>1, <2>8, GrowsOn, Zenon
  <2> QED
    BY <2>1, <2>6, <2>8, <2>9, Zenon DEF g
<1> QED
  BY <1>1, <1>2, Zenon

\* trail: the stop stays, or is replaced by one that is ahead.
LEMMA TrailSound ==
  ASSUME NEW h, Sound(h), NEW px \in Int
  PROVE  LET g == trail(h, px)
         IN  /\ Sound(g) /\ Grows(h, g) /\ g.s.entry_order_id = h.s.entry_order_id
             /\ g.s.sl_order_id # h.s.sl_order_id
                  => h.s.entry_side * (g.s.trail_px - h.s.trail_px) > 0
<1>0. /\ h \in Handler /\ h.s \in Fields /\ Len(h.o) \in Nat
      /\ h.s.entry_side \in Side \cup {None} /\ h.s.entry_side \in Int
      /\ h.s.peak_px \in Int /\ h.s.trail_px \in Int /\ h.s.entry_px \in Int
      /\ h.s.sl_distance \in Int /\ h.s.trail_active \in BOOLEAN
  BY SoundType, Zenon DEF Side, None
<1>1. CASE h.s.sl_order_id = None \/ h.s.entry_side = None \/ h.s.peak_px = 0
  <2>1. trail(h, px) = h
    BY <1>1, Zenon DEF trail
  <2> QED
    BY <1>0, <2>1 DEF Grows
<1>2. CASE ~(h.s.sl_order_id = None \/ h.s.entry_side = None \/ h.s.peak_px = 0)
  <2> DEFINE side == h.s.entry_side
             active == h.s.trail_active \/ side * (px - h.s.entry_px) >= h.s.sl_distance
             new_peak == IF side * (px - h.s.peak_px) > 0 THEN px ELSE h.s.peak_px
             new_trail == new_peak - side * h.s.sl_distance
             activated == [h EXCEPT !.s.trail_active = active]
             f == [h.s EXCEPT !.trail_active = active]
             raised == [activated EXCEPT !.s.peak_px = new_peak]
             k == [f EXCEPT !.peak_px = new_peak]
  <2>0. /\ side \in Side /\ active \in BOOLEAN
        /\ new_peak \in Int /\ new_trail \in Int
    <3>1. side \in Side /\ side \in Int
      BY <1>0, <1>2, Zenon DEF Side, None
    <3> HIDE DEF side
    <3>2. active \in BOOLEAN
      BY <1>0, Zenon
    <3>3. new_peak \in Int
      BY <1>0, Zenon
    <3> HIDE DEF new_peak
    <3>4. new_trail \in Int
      BY ONLY <1>0, <3>1, <3>3
    <3> QED
      BY <3>1, <3>2, <3>3, <3>4, Zenon
  <2>1. trail(h, px) = IF active /\ side * (new_trail - h.s.trail_px) > 0
                       THEN _update_trailing_sl(raised, new_trail)
                       ELSE activated
    BY <1>2, Zenon DEF trail
  <2> HIDE DEF active, new_peak, new_trail
  <2>2. /\ f \in Fields /\ f.entry_order_id = h.s.entry_order_id
        /\ f.sl_order_id = h.s.sl_order_id /\ f.trail_px = h.s.trail_px
        /\ f.entry_side = h.s.entry_side
    BY <1>0, <2>0, Zenon DEF Fields
  <2>3. activated \in [s : {f}, o : {h.o}, n : {h.n}, c : {h.c}]
    BY <1>0, Zenon DEF Handler
  <2> HIDE DEF f
  <2>4. /\ k \in Fields /\ k.entry_order_id = h.s.entry_order_id
        /\ k.sl_order_id = h.s.sl_order_id /\ k.trail_px = h.s.trail_px
        /\ k.entry_side = h.s.entry_side
    BY <2>0, <2>2, Zenon DEF Fields
  <2>5. raised \in [s : {k}, o : {h.o}, n : {h.n}, c : {h.c}]
    BY <2>3, Zenon
  <2> HIDE DEF activated, raised, k
  <2>6. Sound(activated) /\ Grows(h, activated) /\ activated.s = f
    BY <2>2, <2>3, FieldsSound DEF Sound
  <2>7. Sound(raised) /\ Grows(h, raised) /\ raised.s = k
    BY <2>4, <2>5, FieldsSound DEF Sound
  <2>8. CASE active /\ side * (new_trail - h.s.trail_px) > 0
    <3> DEFINE g == _update_trailing_sl(raised, new_trail)
    <3>1. raised.s.sl_order_id # 0 /\ raised.s.entry_side \in Side
      BY <1>2, <2>0, <2>4, <2>7, Zenon DEF None
    <3>2. /\ Sound(g) /\ Grows(raised, g) /\ g.s.entry_order_id = raised.s.entry_order_id
          /\ g.s.sl_order_id # raised.s.sl_order_id => g.s.trail_px = new_trail
      BY <2>0, <2>7, <3>1, UpdateSound, Zenon
    <3>3. trail(h, px) = g
      BY <2>1, <2>8, Zenon
    <3> HIDE DEF g
    <3>4. Grows(h, g)
      BY <2>7, <3>2, GrowsOn, Zenon
    <3> QED
      BY <2>4, <2>7, <2>8, <3>2, <3>3, <3>4, Zenon
  <2>9. CASE ~(active /\ side * (new_trail - h.s.trail_px) > 0)
    BY <2>1, <2>2, <2>6, <2>9, Zenon
  <2> QED
    BY <2>8, <2>9, Zenon
<1> QED
  BY <1>1, <1>2, Zenon

\* The end of a trade: no stop is waited for.
LEMMA TradeOverSound ==
  ASSUME NEW h, Sound(h)
  PROVE  LET g == [h EXCEPT !.s = trade_over(@)]
         IN  Sound(g) /\ Grows(h, g) /\ g.s.sl_order_id = None
<1> DEFINE f == trade_over(h.s)
           g == [h EXCEPT !.s = trade_over(@)]
<1>1. h \in Handler /\ h.s \in Fields /\ Len(h.o) \in Nat
  BY SoundType, Zenon
<1>2. /\ f \in Fields /\ f.entry_order_id = h.s.entry_order_id /\ f.sl_order_id = None
  <2>1. None \in Nat /\ None \in Side \cup {None} /\ 0 \in Int /\ FALSE \in BOOLEAN
    BY DEF None
  <2> QED
    BY <1>1, <2>1, Zenon DEF trade_over, Fields
<1> HIDE DEF f
<1>3. g \in [s : {f}, o : {h.o}, n : {h.n}, c : {h.c}]
  BY <1>1, Zenon DEF Handler, f
<1> HIDE DEF g
<1>4. Sound(g) /\ Grows(h, g) /\ g.s = f
  BY <1>1, <1>2, <1>3, FieldsSound DEF Sound, None
<1> QED
  BY <1>2, <1>4, Zenon DEF g

\* _exit_and_reverse ends with an entry.
LEMMA ReverseSound ==
  ASSUME NEW h, Sound(h), NEW side \in Side
  PROVE  LET g == _exit_and_reverse(h, side)
         IN  Sound(g) /\ Grows(h, g) /\ g.s.entry_order_id > Len(h.o)
<1> DEFINE sl        == h.s.sl_order_id
           cancelled == IF sl # None /\ is_open(h.o[sl]) THEN cancel_order(h, sl) ELSE h
           all       == cancel_all_orders(cancelled)
           closed    == close_all_positions(all)
           over      == [closed EXCEPT !.s = trade_over(@)]
           g         == _enter(over, side)
<1>1. h.s \in Fields /\ sl \in Nat /\ Len(h.o) \in Nat /\ (sl # None => sl \in 1 .. Len(h.o))
  BY DEF Sound, Handler, Fields, None
<1>2. Sound(cancelled) /\ Grows(h, cancelled)
  <2>1. CASE sl # None /\ is_open(h.o[sl])
    BY <1>1, <2>1, CancelSound, Zenon
  <2>2. CASE ~(sl # None /\ is_open(h.o[sl]))
    BY <1>1, <2>2 DEF Grows
  <2> QED
    BY <2>1, <2>2, Zenon
<1>g. _exit_and_reverse(h, side) = g
  BY Zenon DEF _exit_and_reverse
<1> HIDE DEF cancelled
<1>3. Sound(all) /\ Grows(cancelled, all)
  BY <1>2, CancelAllSound, Zenon
<1> HIDE DEF all
<1>4. Sound(closed) /\ Grows(all, closed)
  BY <1>3, CloseSound, Zenon
<1> HIDE DEF closed
<1>5. Sound(over) /\ Grows(closed, over)
  BY <1>4, TradeOverSound, Zenon
<1> HIDE DEF over
<1>6. Sound(g) /\ Grows(over, g) /\ g.s.entry_order_id > Len(over.o)
  BY <1>5, EnterSound, Zenon
<1> HIDE DEF g
<1>7. Grows(h, all)
  BY <1>2, <1>3, GrowsOn, Zenon
<1>8. Grows(h, closed)
  BY <1>3, <1>4, <1>7, GrowsOn, Zenon
<1>9. Grows(h, over)
  BY <1>4, <1>5, <1>8, GrowsOn, Zenon
<1>10. Grows(h, g)
  BY <1>5, <1>6, <1>9, GrowsOn, Zenon
<1>11. g.s.entry_order_id > Len(h.o)
  <2>1. Len(h.o) <= Len(over.o)
    BY <1>9, Zenon DEF Grows
  <2>2. over.o \in Seq(Order) /\ g.s \in Fields
    BY <1>5, <1>6, Zenon DEF Sound, Handler
  <2>3. Len(over.o) \in Nat /\ g.s.entry_order_id \in Nat
    BY ONLY <2>2 DEF Fields
  <2> QED
    BY ONLY <1>1, <1>6, <2>1, <2>3
<1> QED
  BY <1>g, <1>6, <1>10, <1>11, Zenon

\* cross leaves the trade as it is, or makes an entry.
LEMMA CrossSound ==
  ASSUME NEW h, Sound(h), NEW bullish \in {"Bullish", "Bearish"}
  PROVE  LET g == cross(h, bullish)
         IN  /\ Sound(g) /\ Grows(h, g)
             /\ \/ g.s.sl_order_id = h.s.sl_order_id
                \/ g.s.entry_order_id > Len(h.o)
<1> DEFINE side == IF bullish = "Bullish" THEN 1 ELSE -1
           seen == [h EXCEPT !.s.prev_bullish = bullish]
           f == [h.s EXCEPT !.prev_bullish = bullish]
           g == cross(h, bullish)
<1>1. h \in Handler /\ h.s \in Fields /\ Len(h.o) \in Nat /\ h.n \in Int /\ side \in Side
  BY SoundType, Zenon DEF Side
<1>2. /\ f \in Fields /\ f.entry_order_id = h.s.entry_order_id
      /\ f.sl_order_id = h.s.sl_order_id /\ f.trail_px = h.s.trail_px
  BY <1>1, Zenon DEF Fields
<1>3. seen \in [s : {f}, o : {h.o}, n : {h.n}, c : {h.c}]
  BY <1>1, Zenon DEF Handler
<1>4. \/ g = seen
      \/ g = _enter(seen, side)
      \/ g = _exit_and_reverse(seen, side)
  BY DEF cross
<1> HIDE DEF f, seen, side, g
<1>5. Sound(seen) /\ Grows(h, seen) /\ seen.s = f /\ seen.o = h.o
  BY <1>2, <1>3, FieldsSound DEF Sound
<1>6. CASE g = seen
  BY <1>2, <1>5, <1>6, Zenon DEF g
<1>7. CASE g = _enter(seen, side)
  <2>1. Sound(g) /\ Grows(seen, g) /\ g.s.entry_order_id > Len(seen.o)
    BY <1>1, <1>5, <1>7, EnterSound, Zenon
  <2>2. Grows(h, g)
    BY <1>5, <2>1, GrowsOn, Zenon
  <2> QED
    BY <1>5, <2>1, <2>2, Zenon DEF g
<1>8. CASE g = _exit_and_reverse(seen, side)
  <2>1. Sound(g) /\ Grows(seen, g) /\ g.s.entry_order_id > Len(seen.o)
    BY <1>1, <1>5, <1>8, ReverseSound, Zenon
  <2>2. Grows(h, g)
    BY <1>5, <2>1, GrowsOn, Zenon
  <2> QED
    BY <1>5, <2>1, <2>2, Zenon DEF g
<1> QED
  BY <1>4, <1>6, <1>7, <1>8, Zenon

\* on_event leaves the stop, clears it, or puts one after the entry it waited for.
LEMMA EventSound ==
  ASSUME NEW h, Sound(h), NEW e, e.id \in Nat \ {0}, e.px \in Int
  PROVE  LET g == on_event(h, e)
         IN  /\ Sound(g) /\ Grows(h, g)
             /\ \/ g.s.sl_order_id \in {None, h.s.sl_order_id}
                \/ g.s.entry_order_id # h.s.entry_order_id
<1> DEFINE g == on_event(h, e)
<1>0. /\ h \in Handler /\ h.s \in Fields /\ Len(h.o) \in Nat
      /\ h.s.entry_side \in Side \cup {None} /\ h.s.entry_order_id \in Nat
  BY SoundType, Zenon DEF Sound, Handler, Fields
<1>1. CASE e.is = "Rejected" /\ e.id = h.s.sl_order_id
  <2> DEFINE f       == [h.s EXCEPT !.sl_order_id = None]
             cleared == [h EXCEPT !.s.sl_order_id = None]
             all     == cancel_all_orders(cleared)
             closed  == close_all_positions(all)
             over    == [closed EXCEPT !.s = trade_over(@)]
  <2>1. g = over
    BY <1>1, Zenon DEF on_event
  <2>2. f \in Fields /\ f.entry_order_id = h.s.entry_order_id /\ f.sl_order_id = None
    BY <1>0, Zenon DEF Fields, None
  <2>3. cleared \in [s : {f}, o : {h.o}, n : {h.n}, c : {h.c}]
    BY <1>0, Zenon DEF Handler
  <2> HIDE DEF f, cleared, g
  <2>4. Sound(cleared) /\ Grows(h, cleared)
    BY <1>0, <2>2, <2>3, FieldsSound DEF Sound, None
  <2>5. Sound(all) /\ Grows(cleared, all)
    BY <2>4, CancelAllSound, Zenon
  <2> HIDE DEF all
  <2>6. Sound(closed) /\ Grows(all, closed)
    BY <2>5, CloseSound, Zenon
  <2> HIDE DEF closed
  <2>7. Sound(over) /\ Grows(closed, over) /\ over.s.sl_order_id = None
    BY <2>6, TradeOverSound, Zenon
  <2> HIDE DEF over
  <2>8. Grows(h, all)
    BY <2>4, <2>5, GrowsOn, Zenon
  <2>9. Grows(h, closed)
    BY <2>5, <2>6, <2>8, GrowsOn, Zenon
  <2>10. Grows(h, over)
    BY <2>6, <2>7, <2>9, GrowsOn, Zenon
  <2> QED
    BY <2>1, <2>7, <2>10, Zenon DEF g
<1>2. CASE e.is = "Filled" /\ e.id = h.s.entry_order_id
  <2> DEFINE f     == [h.s EXCEPT !.entry_px = e.px, !.entry_order_id = None]
             known == [h EXCEPT !.s.entry_px = e.px, !.s.entry_order_id = None]
  <2>1. g = _place_sl(known, h.s.entry_side, e.px)
    BY <1>2, Zenon DEF on_event
  <2>2. /\ f \in Fields /\ f.entry_order_id = 0
        /\ f.sl_order_id = h.s.sl_order_id /\ f.trail_px = h.s.trail_px
    BY <1>0, Zenon DEF Fields, None
  <2>3. known \in [s : {f}, o : {h.o}, n : {h.n}, c : {h.c}]
    BY <1>0, Zenon DEF Handler
  <2> HIDE DEF f, known, g
  <2>4. Sound(known) /\ Grows(h, known) /\ known.s = f
    BY <1>0, <2>2, <2>3, FieldsSound DEF Sound
  <2>5. Sound(g) /\ Grows(known, g) /\ g.s.entry_order_id = 0
    BY <1>0, <2>1, <2>2, <2>4, PlaceSound, Zenon
  <2>6. Grows(h, g)
    BY <2>4, <2>5, GrowsOn, Zenon
  <2> QED
    BY <1>0, <1>2, <2>5, <2>6, Zenon DEF g
<1>3. CASE e.is = "Filled" /\ e.id # h.s.entry_order_id /\ e.id = h.s.sl_order_id
  <2>1. g = [h EXCEPT !.s = trade_over(@)]
    BY <1>3, Zenon DEF on_event
  <2> QED
    BY <2>1, TradeOverSound, Zenon
<1>4. CASE /\ ~(e.is = "Rejected" /\ e.id = h.s.sl_order_id)
           /\ ~(e.is = "Filled" /\ e.id = h.s.entry_order_id)
           /\ ~(e.is = "Filled" /\ e.id # h.s.entry_order_id /\ e.id = h.s.sl_order_id)
  <2>1. g = h
    BY <1>4, Zenon DEF on_event
  <2> QED
    BY <1>0, <2>1 DEF Grows
<1> QED
  BY <1>1, <1>2, <1>3, <1>4, Zenon

-----------------------------------------------------------------------------
VenueEvent(n) == [is : {"Accepted", "Rejected", "Canceled", "Filled"}, id : 1 .. n,
                  quantity : Nat, px : Int]

\* The inductive invariant.
IInv ==
    /\ Sound(Now)
    /\ events \in Seq(VenueEvent(Len(orders)))
    /\ working \subseteq OrderIds

\* What RatchetsOnly says of a step.
Ratchet ==
    LET sl == strategy.sl_order_id
        sl_next == strategy'.sl_order_id
    IN  sl # None /\ sl_next \notin {None, sl} /\ strategy'.entry_order_id = strategy.entry_order_id
          => strategy.entry_side * (orders'[sl_next].trigger - orders[sl].trigger) >= 0

\* What Sound says of the variables.
LEMMA NowSound ==
  ASSUME Sound(Now)
  PROVE  /\ Now.s = strategy /\ Now.o = orders /\ Now.n = net /\ Now.c = commands
         /\ strategy \in Fields /\ orders \in Seq(Order) /\ net \in Int
         /\ commands \in Seq(Command) /\ Len(orders) \in Nat
         /\ strategy.entry_order_id \in 0 .. Len(orders)
         /\ strategy.sl_order_id \in 0 .. Len(orders)
         /\ strategy.sl_order_id # 0 => orders[strategy.sl_order_id].trigger = Price(strategy.trail_px)
<1>1. Now.s = strategy /\ Now.o = orders /\ Now.n = net /\ Now.c = commands
  BY Zenon DEF Now
<1>2. /\ strategy \in Fields /\ orders \in Seq(Order) /\ net \in Int
      /\ commands \in Seq(Command) /\ Len(orders) \in Nat
  BY <1>1, SoundType, Zenon
<1> QED
  BY <1>1, <1>2, SoundType, Zenon DEF Sound, Fields

\* A step of the strategy.
LEMMA BecomesInv ==
  ASSUME IInv, NEW g, Sound(g), Len(orders) <= Len(g.o),
         strategy' = g.s, orders' = g.o, net' = g.n, commands' = g.c,
         events' \in Seq(VenueEvent(Len(orders))), working' = working
  PROVE  IInv'
<1>1. g \in Handler /\ Len(g.o) \in Nat /\ Len(orders) \in Nat
  BY NowSound, SoundType, Zenon DEF IInv
<1>2. Now' = g
  BY <1>1, Zenon DEF Now, Handler
<1>3. Sound(Now)'
  BY <1>2, Zenon DEF Sound
<1>4. VenueEvent(Len(orders)) \subseteq VenueEvent(Len(orders'))
  BY <1>1 DEF VenueEvent
<1>5. events' \in Seq(VenueEvent(Len(orders')))
  BY <1>4
<1>6. working' \subseteq OrderIds'
  BY <1>1 DEF IInv, OrderIds
<1> QED
  BY <1>3, <1>5, <1>6, Zenon DEF IInv

\* A step that leaves the fields alone, or clears the stop, moves no stop.
LEMMA NoRatchet ==
  ASSUME \/ strategy'.sl_order_id \in {None, strategy.sl_order_id}
         \/ strategy'.entry_order_id # strategy.entry_order_id
  PROVE  Ratchet
BY Zenon DEF Ratchet

\* on_bar: trail moves the stop ahead, and a crossing makes a new entry.
LEMMA on_barInv ==
  ASSUME IInv, on_bar
  PROVE  IInv' /\ Ratchet

\* keeps the order of prices,
<1>PriceMonotone. ASSUME NEW a \in Int, NEW b \in Int, a <= b
                  PROVE  Price(a) <= Price(b)
  <2> USE <1>PriceMonotone
  <2> DEFINE half == Tick \div 2
             q == (a + half) \div Tick
             r == (b + half) \div Tick
  <2>0. Tick \in Nat \ {0} /\ half \in Int
    BY EmaAssumption, HalfTick, Zenon
  <2> HIDE DEF half
  <2>1. /\ q \in Int /\ Tick * q <= a + half
        /\ r \in Int /\ b + half < Tick * r + Tick
    BY ONLY <2>0, Quotient
  <2>2. Price(a) = q * Tick /\ Price(b) = r * Tick
    BY Zenon DEF Price, half
  <2> HIDE DEF q, r
  <2>3. Tick * q < Tick * r + Tick
    BY <2>0, <2>1
  <2>4. q <= r
    BY <2>1, <2>3, QuotientsOrdered, Zenon
  <2>5. q * Tick <= r * Tick
    BY ONLY <2>0, <2>1, <2>4
  <2> QED
    BY <2>2, <2>5, Zenon
<1>1. PICK px \in Prices, bullish \in {"Bullish", "Bearish"} :
        Becomes(cross(trail(Now, px), bullish))
  BY Zenon DEF on_bar
<1> DEFINE moved == trail(Now, px)
           traded == cross(moved, bullish)
<1>2. px \in Int /\ Sound(Now)
  BY EmaAssumption DEF IInv
<1>3. /\ Sound(moved) /\ Grows(Now, moved) /\ moved.s.entry_order_id = Now.s.entry_order_id
      /\ moved.s.sl_order_id # Now.s.sl_order_id
           => Now.s.entry_side * (moved.s.trail_px - Now.s.trail_px) > 0
  BY <1>2, TrailSound, Zenon
<1> HIDE DEF moved
<1>4. /\ Sound(traded) /\ Grows(moved, traded)
      /\ \/ traded.s.sl_order_id = moved.s.sl_order_id
         \/ traded.s.entry_order_id > Len(moved.o)
  BY <1>3, CrossSound, Zenon
<1>5. /\ strategy' = traded.s /\ orders' = traded.o /\ net' = traded.n /\ commands' = traded.c
      /\ events' = events /\ working' = working
  BY <1>1, Zenon DEF moved, Becomes, on_bar, VenueUnchanged
<1> HIDE DEF traded
<1>6. Grows(Now, traded)
  BY <1>2, <1>3, <1>4, GrowsOn, Zenon
<1>7. IInv'
  BY <1>2, <1>4, <1>5, <1>6, BecomesInv, NowSound, Zenon DEF IInv, Grows
<1>8. Ratchet
  <2>1. CASE traded.s.entry_order_id > Len(moved.o)
    <3>1. Len(moved.o) \in Nat /\ Len(orders) <= Len(moved.o)
      BY <1>2, <1>3, NowSound, SoundType, Zenon DEF Grows
    <3>2. strategy.entry_order_id \in 0 .. Len(orders) /\ Len(orders) \in Nat
      BY <1>2, NowSound, Zenon
    <3>3. traded.s \in Fields
      BY <1>4, Zenon DEF Sound, Handler
    <3>4. traded.s.entry_order_id \in Nat
      BY <3>3, Zenon DEF Fields
    <3>5. strategy'.entry_order_id # strategy.entry_order_id
      BY ONLY <1>5, <2>1, <3>1, <3>2, <3>4
    <3> QED
      BY <3>5, NoRatchet, Zenon
  <2>2. CASE traded.s.sl_order_id = moved.s.sl_order_id
    <3> SUFFICES ASSUME strategy.sl_order_id # 0, strategy'.sl_order_id # 0,
                        strategy'.sl_order_id # strategy.sl_order_id
                 PROVE  strategy.entry_side * (orders'[strategy'.sl_order_id].trigger
                                               - orders[strategy.sl_order_id].trigger) >= 0
      BY Zenon DEF Ratchet, None
    <3>1. orders[strategy.sl_order_id].trigger = Price(strategy.trail_px)
      BY <1>2, NowSound, Zenon
    <3>2. strategy.entry_side * (moved.s.trail_px - strategy.trail_px) > 0
      BY <1>2, <1>3, <1>5, <2>2, NowSound, Zenon
    <3>3. moved.s.sl_order_id \in 1 .. Len(moved.o)
          /\ moved.o[moved.s.sl_order_id].trigger = Price(moved.s.trail_px)
      BY <1>3, <1>5, <2>2 DEF Sound, Handler, Fields
    <3>4. traded.o[moved.s.sl_order_id].trigger = Price(moved.s.trail_px)
      BY <1>4, <3>3, Zenon DEF Grows
    <3>5. /\ moved.s.trail_px \in Int /\ strategy.trail_px \in Int
          /\ strategy.entry_side \in {1, -1, 0}
      BY <1>2, <1>3, NowSound, Zenon DEF Sound, Handler, Fields, Side, None
    <3>6. strategy.entry_side * (Price(moved.s.trail_px) - Price(strategy.trail_px)) >= 0
      <4>1. Price(moved.s.trail_px) \in Int /\ Price(strategy.trail_px) \in Int
        BY <3>5, PriceInt, Zenon
      <4>2. CASE strategy.entry_side = 1
        <5>1. strategy.trail_px <= moved.s.trail_px
          BY ONLY <3>2, <3>5, <4>2
        <5> QED
          BY ONLY <3>5, <4>1, <4>2, <5>1, <1>PriceMonotone
      <4>3. CASE strategy.entry_side = -1
        <5>1. moved.s.trail_px <= strategy.trail_px
          BY ONLY <3>2, <3>5, <4>3
        <5> QED
          BY ONLY <3>5, <4>1, <4>3, <5>1, <1>PriceMonotone
      <4> QED
        BY ONLY <3>2, <3>5, <4>2, <4>3
    <3> QED
      BY <1>5, <2>2, <3>1, <3>4, <3>6, Zenon
  <2> QED
    BY <1>4, <2>1, <2>2, Zenon
<1> QED
  BY <1>7, <1>8, Zenon

\* on_stop leaves the fields alone.
LEMMA on_stopInv ==
  ASSUME IInv, on_stop
  PROVE  IInv' /\ Ratchet
<1> DEFINE all == cancel_all_orders(Now)
           closed == close_all_positions(all)
<1>1. Sound(Now)
  BY Zenon DEF IInv
<1>2. Sound(all) /\ Grows(Now, all) /\ all.s = Now.s
  BY <1>1, CancelAllSound, Zenon
<1>3. /\ strategy' = closed.s /\ orders' = closed.o /\ net' = closed.n /\ commands' = closed.c
      /\ events' = events /\ working' = working
  BY Zenon DEF Becomes, on_stop, VenueUnchanged
<1> HIDE DEF all
<1>4. Sound(closed) /\ Grows(all, closed) /\ closed.s = all.s
  BY <1>2, CloseSound, Zenon
<1> HIDE DEF closed
<1>5. Grows(Now, closed)
  BY <1>1, <1>2, <1>4, GrowsOn, Zenon
<1>6. IInv'
  BY <1>1, <1>3, <1>4, <1>5, BecomesInv, NowSound, Zenon DEF IInv, Grows
<1>7. Ratchet
  BY <1>1, <1>2, <1>3, <1>4, NowSound, NoRatchet, Zenon
<1> QED
  BY <1>6, <1>7, Zenon

\* on_reset waits for nothing.
LEMMA on_resetInv ==
  ASSUME IInv, on_reset
  PROVE  IInv' /\ Ratchet
<1> DEFINE g == [Now EXCEPT !.s = reset]
<1>1. Sound(Now)
  BY Zenon DEF IInv
<1>2. reset \in Fields /\ reset.sl_order_id = 0 /\ reset.entry_order_id = 0
  BY DEF reset, Fields, None
<1>3. g \in [s : {reset}, o : {Now.o}, n : {Now.n}, c : {Now.c}]
  BY <1>1, Zenon DEF Sound, Handler
<1> HIDE DEF g
<1>4. Sound(g) /\ g.s = reset /\ g.o = Now.o /\ g.n = Now.n
  BY <1>1, <1>2, <1>3, NowSound, FieldsSound
<1>5. g.c = Now.c
  BY <1>3, Zenon
<1>6. /\ strategy' = reset /\ orders' = orders /\ net' = net /\ commands' = commands
      /\ events' = events /\ working' = working
  BY Zenon DEF on_reset, VenueUnchanged
<1>7. IInv'
  BY <1>1, <1>4, <1>5, <1>6, BecomesInv, NowSound DEF IInv
<1>8. Ratchet
  BY <1>2, <1>6, NoRatchet, Zenon DEF None
<1> QED
  BY <1>7, <1>8, Zenon

\* The engine changes the status of the order, and the position.
LEMMA AppliedSound ==
  ASSUME IInv, NEW e \in VenueEvent(Len(orders))
  PROVE  LET h == Applied(e)
         IN  Sound(h) /\ Len(h.o) = Len(orders) /\ h.s = strategy
<1> DEFINE status == CASE e.is = "Accepted" -> "ACCEPTED"
                       [] e.is = "Rejected" -> "REJECTED"
                       [] e.is = "Canceled" -> "CANCELED"
                       [] e.is = "Filled" -> "FILLED"
           n == IF e.is = "Filled" THEN net + orders[e.id].side * e.quantity ELSE net
           order == [orders[e.id] EXCEPT !.status = status]
           o == [orders EXCEPT ![e.id] = order]
           h == Applied(e)
<1>1. Sound(Now)
  BY Zenon DEF IInv
<1>2. /\ strategy \in Fields /\ orders \in Seq(Order) /\ net \in Int
      /\ commands \in Seq(Command) /\ Len(orders) \in Nat /\ strategy.sl_order_id \in Nat
  BY ONLY <1>1, NowSound
<1>3. e.id \in 1 .. Len(orders) /\ e.quantity \in Nat /\ orders[e.id] \in Order
  BY ONLY <1>2 DEF VenueEvent
<1>4. orders[e.id].side \in Int
  BY ONLY <1>3 DEF Order, Side
<1>5. n \in Int
  BY ONLY <1>2, <1>3, <1>4
<1>6. status \in {"ACCEPTED", "REJECTED", "CANCELED", "FILLED"}
  BY Zenon DEF VenueEvent
<1>7. h = [s |-> strategy, o |-> o, n |-> n, c |-> commands]
  <2> HIDE DEF status
  <2>1. h = [Now EXCEPT !.o[e.id].status = status,
                        !.n = IF e.is = "Filled" THEN Now.n + orders[e.id].side * e.quantity ELSE Now.n]
    BY Zenon DEF Applied, status
  <2>2. Now.o = orders /\ Now.n = net
    BY Zenon DEF Now
  <2> HIDE DEF h, n
  <2>3. h = [Now EXCEPT !.o = o, !.n = n]
    BY <2>1, <2>2, Zenon DEF n
  <2> HIDE DEF o
  <2> QED
    BY <2>3, Zenon DEF Now
<1> HIDE DEF status, n, h
<1>8. order \in Order /\ order.trigger = orders[e.id].trigger
  BY <1>3, <1>6, Zenon DEF Order
<1> HIDE DEF order
<1>9. /\ o \in Seq(Order) /\ Len(o) = Len(orders)
      /\ \A i \in 1 .. Len(orders) : o[i].trigger = orders[i].trigger
  BY ONLY <1>2, <1>3, <1>8
<1> HIDE DEF o
<1>10. h \in Handler /\ h.s = strategy /\ h.o = o /\ h.c = commands
  BY <1>2, <1>5, <1>7, <1>9, Zenon DEF Handler
<1>11. /\ \A i \in 1 .. Len(commands) : commands[i].id <= Len(orders)
       /\ strategy.entry_order_id <= Len(orders) /\ strategy.sl_order_id <= Len(orders)
       /\ strategy.sl_order_id # 0 => orders[strategy.sl_order_id].trigger = Price(strategy.trail_px)
  BY <1>1, Zenon DEF Sound, Now
<1>12. Sound(h)
  BY ONLY <1>2, <1>9, <1>10, <1>11 DEF Sound
<1> QED
  BY <1>9, <1>10, <1>12, Zenon DEF h

\* handle_event: the stop of another trade, or none.
LEMMA handle_eventInv ==
  ASSUME IInv, handle_event
  PROVE  IInv' /\ Ratchet
<1> DEFINE e == Head(events)
           h == Applied(e)
           g == IF running THEN on_event(h, e) ELSE h
<1>1. events # << >> /\ events \in Seq(VenueEvent(Len(orders)))
  BY Zenon DEF handle_event, IInv
<1>2. e \in VenueEvent(Len(orders)) /\ Tail(events) \in Seq(VenueEvent(Len(orders)))
  BY ONLY <1>1
<1>3. /\ strategy' = g.s /\ orders' = g.o /\ net' = g.n /\ commands' = g.c
      /\ events' = Tail(events) /\ working' = working
  BY Zenon DEF Becomes, handle_event, VenueUnchanged
<1> HIDE DEF e
<1>4. Sound(h) /\ Len(h.o) = Len(orders) /\ h.s = strategy
  BY <1>2, AppliedSound, Zenon
<1>5. e.id \in Nat \ {0} /\ e.px \in Int /\ Len(orders) \in Nat
  BY ONLY <1>2, NowSound, SMTT(30) DEF VenueEvent, IInv
<1> HIDE DEF h
<1>6. /\ Sound(g) /\ Len(h.o) <= Len(g.o)
      /\ \/ g.s.sl_order_id \in {None, h.s.sl_order_id}
         \/ g.s.entry_order_id # h.s.entry_order_id
  <2>1. CASE running
    <3>1. /\ Sound(on_event(h, e)) /\ Grows(h, on_event(h, e))
          /\ \/ on_event(h, e).s.sl_order_id \in {None, h.s.sl_order_id}
             \/ on_event(h, e).s.entry_order_id # h.s.entry_order_id
      BY <1>4, <1>5, EventSound, Zenon
    <3> QED
      BY <2>1, <3>1, Zenon DEF Grows
  <2>2. CASE ~running
    BY ONLY <1>4, <1>5, <2>2
  <2> QED
    BY <2>1, <2>2, Zenon
<1> HIDE DEF g
<1>7. IInv'
  BY <1>2, <1>3, <1>4, <1>6, BecomesInv, Zenon
<1>8. Ratchet
  BY <1>3, <1>4, <1>6, NoRatchet, Zenon
<1> QED
  BY <1>7, <1>8, Zenon

\* A step of the venue, which leaves the strategy and its orders alone.
LEMMA VenueInv ==
  ASSUME IInv, StrategyUnchanged, Sound(Now)', events' \in Seq(VenueEvent(Len(orders))),
         working' \subseteq OrderIds
  PROVE  IInv' /\ Ratchet
<1>1. strategy' = strategy /\ orders' = orders
  BY Zenon DEF StrategyUnchanged
<1>2. IInv'
  BY <1>1, Zenon DEF IInv, OrderIds
<1>3. Ratchet
  BY <1>1, NoRatchet, Zenon
<1> QED
  BY <1>2, <1>3, Zenon

\* The command at the head is for an order that exists, and may be taken away.
LEMMA HeadSound ==
  ASSUME IInv, commands # << >>, commands' = Tail(commands), StrategyUnchanged
  PROVE  /\ Sound(Now)'
         /\ Head(commands).do \in {"submit", "cancel"} => Head(commands).id \in OrderIds
<1>1. Sound(Now)
  BY Zenon DEF IInv
<1>2. /\ commands \in Seq(Command) /\ Len(commands) \in Nat \ {0} /\ Tail(commands) \in Seq(Command)
      /\ Head(commands) = commands[1] /\ Head(commands) \in Command
      /\ Len(Tail(commands)) = Len(commands) - 1
      /\ \A i \in 1 .. Len(Tail(commands)) : Tail(commands)[i] = commands[i + 1]
  BY <1>1, NowSound
<1>3. \A i \in 1 .. Len(commands) : commands[i].id <= Len(orders)
  BY <1>1, Zenon DEF Sound, Now
<1>4. Head(commands).do \in {"submit", "cancel"} => Head(commands).id \in OrderIds
  <2>1. Head(commands).id <= Len(orders) /\ Len(orders) \in Nat
    BY ONLY <1>1, <1>2, <1>3, NowSound
  <2> QED
    BY ONLY <1>2, <2>1 DEF Command, CancelAll, OrderIds
<1>5. \A i \in 1 .. Len(Tail(commands)) : Tail(commands)[i].id <= Len(orders)
  <2> SUFFICES ASSUME NEW i \in 1 .. Len(Tail(commands))
               PROVE  Tail(commands)[i].id <= Len(orders)
    BY Zenon
  <2>1. i + 1 \in 1 .. Len(commands) /\ Tail(commands)[i] = commands[i + 1]
    BY ONLY <1>2
  <2> QED
    BY <1>3, <2>1, Zenon
<1>6. Sound(Now)'
  <2> DEFINE g == [s |-> strategy, o |-> orders, n |-> net, c |-> Tail(commands)]
  <2>1. Now' = g
    BY Zenon DEF Now, StrategyUnchanged
  <2>2. g \in Handler /\ g.s = strategy /\ g.o = orders /\ g.c = Tail(commands)
    BY <1>1, <1>2, NowSound, Zenon DEF Handler
  <2> HIDE DEF g
  <2>3. /\ strategy.entry_order_id <= Len(orders) /\ strategy.sl_order_id <= Len(orders)
        /\ strategy.sl_order_id # 0 => orders[strategy.sl_order_id].trigger = Price(strategy.trail_px)
    BY <1>1, NowSound, SoundType, Zenon
  <2>4. Sound(g)
    BY <1>5, <2>2, <2>3, Zenon DEF Sound
  <2> QED
    BY <2>1, <2>4, Zenon DEF Sound
<1> QED
  BY <1>4, <1>6, Zenon

\* One more event of an order that exists.
LEMMA FillTyped ==
  ASSUME IInv, NEW id \in OrderIds, NEW quantity \in Nat, NEW px \in Int, fill_order(id, quantity, px)
  PROVE  events' \in Seq(VenueEvent(Len(orders))) /\ working' \subseteq OrderIds
<1>1. Event("Filled", id, quantity, px) \in VenueEvent(Len(orders))
  BY Zenon DEF Event, VenueEvent, OrderIds
<1> QED
  BY <1>1 DEF fill_order, IInv

\* Cancels: one more event for each of them.
LEMMA CancelsTyped ==
  ASSUME IInv, NEW ids, Cancels(ids)
  PROVE  events' \in Seq(VenueEvent(Len(orders))) /\ working' \subseteq OrderIds
<1> DEFINE found == working \cap ids
<1>1. working \subseteq OrderIds /\ events \in Seq(VenueEvent(Len(orders))) /\ Len(orders) \in Nat
  BY NowSound, Zenon DEF IInv
<1>2. PICK m, list :
        /\ m \in 0 .. Len(orders)
        /\ list \in [1 .. m -> found]
        /\ events' = events \o [i \in 1 .. m |-> Event("Canceled", list[i], 0, 0)]
  BY Zenon DEF Cancels, Bijection, Injection
<1>3. m \in Nat
  BY ONLY <1>1, <1>2
<1> DEFINE canceled == [i \in 1 .. m |-> Event("Canceled", list[i], 0, 0)]
<1>4. \A i \in 1 .. m : Event("Canceled", list[i], 0, 0) \in VenueEvent(Len(orders))
  <2> SUFFICES ASSUME NEW i \in 1 .. m
               PROVE  Event("Canceled", list[i], 0, 0) \in VenueEvent(Len(orders))
    BY Zenon
  <2>1. list[i] \in 1 .. Len(orders)
    BY <1>1, <1>2, Zenon DEF OrderIds
  <2> QED
    BY ONLY <2>1 DEF Event, VenueEvent
<1>5. canceled \in [1 .. m -> VenueEvent(Len(orders))]
  BY <1>4, Zenon
<1>6. canceled \in Seq(VenueEvent(Len(orders)))
  BY ONLY <1>3, <1>5
<1>7. events' = events \o canceled
  BY <1>2, Zenon
<1> HIDE DEF canceled
<1>8. events' \in Seq(VenueEvent(Len(orders)))
  BY ONLY <1>1, <1>6, <1>7
<1>9. working' \subseteq OrderIds
  BY <1>1, Zenon DEF Cancels
<1> QED
  BY <1>8, <1>9, Zenon

\* process_command keeps Flow unless it decides by a stale cache.
LEMMA process_commandInv ==
  ASSUME IInv, process_command
  PROVE  IInv' /\ Ratchet

\* Rejects: the same.
<1>RejectsTyped. ASSUME IInv, NEW id \in OrderIds, Rejects(id)
                 PROVE  events' \in Seq(VenueEvent(Len(orders))) /\ working' \subseteq OrderIds
  <2> USE <1>RejectsTyped
  <2>1. Event("Rejected", id, 0, 0) \in VenueEvent(Len(orders))
    BY DEF Event, VenueEvent, OrderIds
  <2> QED
    BY <2>1 DEF Rejects, IInv
<1> DEFINE command == Head(commands)
<1>1. commands # << >> /\ commands' = Tail(commands) /\ StrategyUnchanged
  BY Zenon DEF process_command
<1>2. Sound(Now)' /\ (command.do \in {"submit", "cancel"} => command.id \in OrderIds)
  BY <1>1, HeadSound, Zenon
<1>3. net \in Int /\ orders \in Seq(Order)
  BY NowSound, Zenon DEF IInv
<1>4. events' \in Seq(VenueEvent(Len(orders))) /\ working' \subseteq OrderIds
  <2>1. CASE command.do = "submit" /\ process_market_order(command.id)
    <3>1. command.id \in OrderIds
      BY <1>2, <2>1, Zenon
    <3> HIDE DEF command
    <3>2. orders[command.id] \in Order
      BY ONLY <1>3, <3>1 DEF OrderIds
    <3>3. orders[command.id].quantity \in Nat
      BY <3>2, Zenon DEF Order
    <3>4. \/ Rejects(command.id)
          \/ \E px \in Prices, quantity \in Nat : fill_order(command.id, quantity, px)
      BY ONLY <1>3, <2>1, <3>3 DEF process_market_order
    <3> QED
      BY <3>1, <3>4, <1>RejectsTyped, FillTyped, EmaAssumption
  <2>2. CASE command.do = "submit" /\ process_stop_market_order(command.id)
    <3>1. command.id \in OrderIds
      BY <1>2, <2>2, Zenon
    <3>2. CASE Rejects(command.id)
      BY <3>1, <3>2, <1>RejectsTyped, Zenon
    <3>3. CASE ~Rejects(command.id)
      <4>1. /\ working' = working \cup {command.id}
            /\ events' = Append(events, Event("Accepted", command.id, 0, 0))
        BY <2>2, <3>3, Zenon DEF process_stop_market_order
      <4>2. Event("Accepted", command.id, 0, 0) \in VenueEvent(Len(orders))
        BY ONLY <3>1 DEF Event, VenueEvent, OrderIds
      <4> QED
        BY <3>1, <4>1, <4>2 DEF IInv
    <3> QED
      BY <3>2, <3>3, Zenon
  <2>3. CASE command.do = "cancel" /\ Cancels({command.id})
    BY <2>3, CancelsTyped, Zenon
  <2>4. CASE command.do = "cancel_all" /\ Cancels({i \in working : is_open(orders[i])})
    BY <2>4, CancelsTyped, Zenon
  <2> QED
    BY <2>1, <2>2, <2>3, <2>4, Zenon DEF process_command
<1> QED
  BY <1>1, <1>2, <1>4, VenueInv, Zenon

\* match_stop_market_order.
LEMMA match_stopInv ==
  ASSUME IInv, match_stop_market_order
  PROVE  IInv' /\ Ratchet
<1>1. PICK id \in working :
        IF net = 0 THEN Cancels({id}) ELSE fill_order(id, 1, orders[id].trigger)
  BY Zenon DEF match_stop_market_order
<1>2. commands' = commands /\ StrategyUnchanged
  BY Zenon DEF match_stop_market_order
<1>3. Sound(Now)'
  BY <1>2, Zenon DEF IInv, StrategyUnchanged, Now, Sound
<1>4. id \in OrderIds /\ orders[id].trigger \in Int
  <2>1. orders \in Seq(Order) /\ id \in 1 .. Len(orders)
    BY NowSound, Zenon DEF IInv, OrderIds
  <2>2. orders[id] \in Order
    BY ONLY <2>1
  <2> QED
    BY <2>1, <2>2, Zenon DEF OrderIds, Order
<1>5. events' \in Seq(VenueEvent(Len(orders))) /\ working' \subseteq OrderIds
  BY <1>1, <1>4, CancelsTyped, FillTyped, Zenon
<1> QED
  BY <1>2, <1>3, <1>5, VenueInv, Zenon

-----------------------------------------------------------------------------
\* Every step keeps the invariant and moves a stop only ahead.
LEMMA EmaStep ==
  ASSUME IInv, [Next]_vars
  PROVE  IInv' /\ (Ratchet \/ UNCHANGED vars)
<1>1. CASE on_bar
  BY <1>1, on_barInv, Zenon
<1>2. CASE on_stop
  BY <1>2, on_stopInv, Zenon
<1>3. CASE on_reset
  BY <1>3, on_resetInv, Zenon
<1>4. CASE handle_event
  BY <1>4, handle_eventInv, Zenon
<1>5. CASE process_command
  BY <1>5, process_commandInv, Zenon
<1>6. CASE match_stop_market_order
  BY <1>6, match_stopInv, Zenon
<1>7. CASE UNCHANGED vars
  BY <1>7, Zenon DEF vars, IInv, Now, Sound, OrderIds
<1> QED
  BY <1>1, <1>2, <1>3, <1>4, <1>5, <1>6, <1>7, Zenon DEF Next

\* The strategy starts with no orders.
LEMMA EmaInit ==
  ASSUME Init
  PROVE  IInv
<1>1. /\ reset \in Fields /\ reset.sl_order_id = 0 /\ reset.entry_order_id = 0
  BY DEF reset, Fields, None
<1>2. Now \in Handler /\ Now.s = reset /\ Now.o = << >> /\ Now.c = << >>
  BY <1>1 DEF Init, Now, Handler
<1>3. Sound(Now)
  BY ONLY <1>1, <1>2 DEF Sound
<1> QED
  BY <1>3 DEF IInv, Init

\* The README of the strategies: "The SL can only ratchet in our favour".  Within a
\* trade on_bar, on_event and their helpers replace the stop only by a tighter one,
\* at any prices and stop distance, after any number of orders, and however late
\* commands and events arrive.
THEOREM EmaRatchetsOnly == Spec => RatchetsOnly
<1>1. Init => IInv
  BY EmaInit, Zenon
<1>2. IInv /\ [Next]_vars => IInv'
  BY EmaStep, Zenon
<1>3. IInv /\ [Next]_vars => [Ratchet]_vars
  BY EmaStep, Zenon
<1> QED
  BY <1>1, <1>2, <1>3, PTL DEF Spec, RatchetsOnly, Ratchet
-----------------------------------------------------------------------------
\* What is on its way: the orders named by the commands that do one thing, the
\* orders named by the events that tell one thing, and the orders of one tag
\* that are to be submitted.
Asked(c, do) == {c[k].id : k \in {j \in 1 .. Len(c) : c[j].do = do}}

Told(ev, is) == {ev[k].id : k \in {j \in 1 .. Len(ev) : ev[j].is = is}}

Tagged(h, tag) == {i \in Asked(h.c, "submit") : h.o[i].tag = tag}

\* The methods of the strategy give their commands in this order.
TagRank(tag) == CASE tag = "SL" -> 2 [] tag = "CLOSE" -> 4 [] OTHER -> 5

Rank(o, c) ==
    CASE c.do = "cancel" -> 1 [] c.do = "cancel_all" -> 3 [] OTHER -> TagRank(o[c.id].tag)

Ordered(h, r) ==
    /\ \A k \in 1 .. Len(h.c) : Rank(h.o, h.c[k]) < r
    /\ \A k, l \in 1 .. Len(h.c) : k < l => Rank(h.o, h.c[k]) < Rank(h.o, h.c[l])

\* An order is told one thing once.
Apart(ev) ==
    \A k, l \in 1 .. Len(ev) : ev[k].is = ev[l].is /\ ev[k].id = ev[l].id => k = l

-----------------------------------------------------------------------------
\* What is asked once a command is added.
LEMMA AskedAppend ==
  ASSUME NEW c \in Seq(Command), NEW x \in Command, NEW do
  PROVE  Asked(Append(c, x), do) = IF x.do = do THEN Asked(c, do) \cup {x.id} ELSE Asked(c, do)
<1>1. /\ Len(Append(c, x)) = Len(c) + 1 /\ Append(c, x)[Len(c) + 1] = x /\ Len(c) \in Nat
      /\ \A k \in 1 .. Len(c) : Append(c, x)[k] = c[k]
  OBVIOUS
<1> DEFINE d == Append(c, x)
<1> HIDE DEF d
<1>2. /\ Len(d) = Len(c) + 1 /\ d[Len(c) + 1] = x /\ Len(c) \in Nat
      /\ \A k \in 1 .. Len(c) : d[k] = c[k]
  BY <1>1, Zenon DEF d
<1>3. ASSUME NEW i \in Asked(d, do)
      PROVE  i \in IF x.do = do THEN Asked(c, do) \cup {x.id} ELSE Asked(c, do)
  <2>1. PICK k \in 1 .. Len(d) : d[k].do = do /\ d[k].id = i
    BY <1>3, Zenon DEF Asked
  <2>2. CASE k = Len(c) + 1
    BY <1>2, <2>1, <2>2, Zenon
  <2>3. CASE k # Len(c) + 1
    <3>1. k \in 1 .. Len(c) /\ c[k].do = do /\ c[k].id = i
      BY ONLY <1>2, <2>1, <2>3
    <3> QED
      BY <3>1, Zenon DEF Asked
  <2> QED
    BY <2>2, <2>3, Zenon
<1>4. ASSUME NEW i \in Asked(c, do)
      PROVE  i \in Asked(d, do)
  <2>1. PICK k \in 1 .. Len(c) : c[k].do = do /\ c[k].id = i
    BY <1>4, Zenon DEF Asked
  <2>2. k \in 1 .. Len(d) /\ d[k].do = do /\ d[k].id = i
    BY ONLY <1>2, <2>1
  <2> QED
    BY <2>2, Zenon DEF Asked
<1>5. x.do = do => x.id \in Asked(d, do)
  <2>1. Len(c) + 1 \in 1 .. Len(d)
    BY ONLY <1>2
  <2> QED
    BY <1>2, <2>1, Zenon DEF Asked
<1> QED
  BY <1>3, <1>4, <1>5, Zenon DEF d

\* What is told once an event is added.
LEMMA ToldAppend ==
  ASSUME NEW S, NEW ev \in Seq(S), NEW x \in S, NEW is
  PROVE  Told(Append(ev, x), is) = IF x.is = is THEN Told(ev, is) \cup {x.id} ELSE Told(ev, is)
<1>1. /\ Len(Append(ev, x)) = Len(ev) + 1 /\ Append(ev, x)[Len(ev) + 1] = x /\ Len(ev) \in Nat
      /\ \A k \in 1 .. Len(ev) : Append(ev, x)[k] = ev[k]
  OBVIOUS
<1> DEFINE d == Append(ev, x)
<1> HIDE DEF d
<1>2. /\ Len(d) = Len(ev) + 1 /\ d[Len(ev) + 1] = x /\ Len(ev) \in Nat
      /\ \A k \in 1 .. Len(ev) : d[k] = ev[k]
  BY <1>1, Zenon DEF d
<1>3. ASSUME NEW i \in Told(d, is)
      PROVE  i \in IF x.is = is THEN Told(ev, is) \cup {x.id} ELSE Told(ev, is)
  <2>1. PICK k \in 1 .. Len(d) : d[k].is = is /\ d[k].id = i
    BY <1>3, Zenon DEF Told
  <2>2. CASE k = Len(ev) + 1
    BY <1>2, <2>1, <2>2, Zenon
  <2>3. CASE k # Len(ev) + 1
    <3>1. k \in 1 .. Len(ev) /\ ev[k].is = is /\ ev[k].id = i
      BY ONLY <1>2, <2>1, <2>3
    <3> QED
      BY <3>1, Zenon DEF Told
  <2> QED
    BY <2>2, <2>3, Zenon
<1>4. ASSUME NEW i \in Told(ev, is)
      PROVE  i \in Told(d, is)
  <2>1. PICK k \in 1 .. Len(ev) : ev[k].is = is /\ ev[k].id = i
    BY <1>4, Zenon DEF Told
  <2>2. k \in 1 .. Len(d) /\ d[k].is = is /\ d[k].id = i
    BY ONLY <1>2, <2>1
  <2> QED
    BY <2>2, Zenon DEF Told
<1>5. x.is = is => x.id \in Told(d, is)
  <2>1. Len(ev) + 1 \in 1 .. Len(d)
    BY ONLY <1>2
  <2> QED
    BY <1>2, <2>1, Zenon DEF Told
<1> QED
  BY <1>3, <1>4, <1>5, Zenon DEF d

\* Nothing has been asked, nothing told.
LEMMA NothingAsked == \A do : Asked(<< >>, do) = {} /\ Told(<< >>, do) = {}
BY DEF Asked, Told

-----------------------------------------------------------------------------
\* Orders are added and open ones wait to be canceled, nothing else.
Keeps(h, g) ==
    /\ Len(h.o) <= Len(g.o)
    /\ \A i \in 1 .. Len(h.o) :
          /\ g.o[i].tag = h.o[i].tag /\ g.o[i].side = h.o[i].side
          /\ g.o[i].quantity = h.o[i].quantity
          /\ \/ g.o[i].status = h.o[i].status
             \/ is_open(h.o[i]) /\ g.o[i].status = "PENDING_CANCEL"

\* Keeping is transitive.
LEMMA KeepsOn ==
  ASSUME NEW h, NEW g, NEW k, Sound(h), Sound(g), Sound(k), Keeps(h, g), Keeps(g, k)
  PROVE  Keeps(h, k)
<1>1. Len(h.o) \in Nat /\ Len(g.o) \in Nat /\ Len(k.o) \in Nat
  BY SoundType, Zenon
<1>2. Len(h.o) <= Len(k.o)
  BY <1>1 DEF Keeps
<1>3. ASSUME NEW i \in 1 .. Len(h.o)
      PROVE  /\ k.o[i].tag = h.o[i].tag /\ k.o[i].side = h.o[i].side
             /\ k.o[i].quantity = h.o[i].quantity
             /\ \/ k.o[i].status = h.o[i].status
                \/ is_open(h.o[i]) /\ k.o[i].status = "PENDING_CANCEL"
  <2>1. i \in 1 .. Len(g.o)
    BY <1>1 DEF Keeps
  <2> QED
    BY <2>1, Zenon DEF Keeps, is_open
<1> QED
  BY <1>2, <1>3, Zenon DEF Keeps

\* The rank of a command.
LEMMA RankType ==
  ASSUME NEW o, NEW c
  PROVE  /\ Rank(o, c) \in 1 .. 5
         /\ c.do = "cancel" => Rank(o, c) = 1
         /\ c.do = "cancel_all" => Rank(o, c) = 3
         /\ c.do = "submit" => Rank(o, c) = TagRank(o[c.id].tag)
BY DEF Rank, TagRank

\* One more command, of a higher rank.
LEMMA OrderedAppend ==
  ASSUME NEW h, NEW g, h.c \in Seq(Command), NEW x \in Command, NEW r, r = Rank(g.o, x),
         g.c = Append(h.c, x), Ordered(h, r),
         \A k \in 1 .. Len(h.c) : Rank(g.o, h.c[k]) = Rank(h.o, h.c[k])
  PROVE  Ordered(g, r + 1)
<1>1. r \in 1 .. 5 /\ \A k \in 1 .. Len(h.c) : Rank(h.o, h.c[k]) \in 1 .. 5
  BY RankType, Zenon
<1>2. /\ Len(g.c) = Len(h.c) + 1 /\ g.c[Len(h.c) + 1] = x /\ Len(h.c) \in Nat
      /\ \A k \in 1 .. Len(h.c) : g.c[k] = h.c[k]
  OBVIOUS
<1>3. ASSUME NEW k \in 1 .. Len(g.c)
      PROVE  Rank(g.o, g.c[k]) < r + 1
  <2>1. CASE k = Len(h.c) + 1
    BY <1>1, <1>2, <2>1
  <2>2. CASE k # Len(h.c) + 1
    <3>1. k \in 1 .. Len(h.c)
      BY ONLY <1>2, <2>2
    <3>2. Rank(g.o, g.c[k]) = Rank(h.o, h.c[k]) /\ Rank(h.o, h.c[k]) < r
      BY <1>2, <3>1, Zenon DEF Ordered
    <3>3. Rank(h.o, h.c[k]) \in Int /\ r \in Int
      BY RankType
    <3>4. \A a, b \in Int : a < b => a < b + 1
      OBVIOUS
    <3> QED
      BY <3>2, <3>3, <3>4, Zenon
  <2> QED
    BY <2>1, <2>2, Zenon
<1>4. ASSUME NEW k \in 1 .. Len(g.c), NEW l \in 1 .. Len(g.c), k < l
      PROVE  Rank(g.o, g.c[k]) < Rank(g.o, g.c[l])
  <2>1. k \in 1 .. Len(h.c)
    BY ONLY <1>2, <1>4
  <2>2. CASE l = Len(h.c) + 1
    BY <1>2, <2>1, <2>2, Zenon DEF Ordered
  <2>3. CASE l # Len(h.c) + 1
    <3>1. l \in 1 .. Len(h.c)
      BY ONLY <1>2, <2>3
    <3> QED
      BY <1>2, <1>4, <2>1, <3>1, Zenon DEF Ordered
  <2> QED
    BY <2>2, <2>3, Zenon
<1> QED
  BY <1>3, <1>4, Zenon DEF Ordered

-----------------------------------------------------------------------------
\* An order that is to be submitted exists.
LEMMA AskedExist ==
  ASSUME NEW h, Sound(h), NEW i \in Asked(h.c, "submit") \cup Asked(h.c, "cancel")
  PROVE  i \in 1 .. Len(h.o)
<1>1. h.c \in Seq(Command) /\ Len(h.o) \in Nat
  BY SoundType, Zenon
<1>2. PICK k \in 1 .. Len(h.c) : h.c[k].do \in {"submit", "cancel"} /\ h.c[k].id = i
  BY Zenon DEF Asked
<1>3. h.c[k] \in Command /\ h.c[k].id <= Len(h.o)
  BY <1>1, SoundType, Zenon DEF Sound
<1> QED
  BY ONLY <1>1, <1>2, <1>3 DEF Command, CancelAll

\* Ranks and tags are those of the orders.
LEMMA SameRanks ==
  ASSUME NEW h, Sound(h), NEW g, \A i \in 1 .. Len(h.o) : g.o[i].tag = h.o[i].tag
  PROVE  \A k \in 1 .. Len(h.c) : Rank(g.o, h.c[k]) = Rank(h.o, h.c[k])
<1> SUFFICES ASSUME NEW k \in 1 .. Len(h.c)
             PROVE  Rank(g.o, h.c[k]) = Rank(h.o, h.c[k])
  BY Zenon
<1>1. h.c \in Seq(Command) /\ h.c[k] \in Command
  BY SoundType, Zenon
<1>2. h.c[k].do \in {"submit", "cancel", "cancel_all"}
  BY ONLY <1>1 DEF Command, CancelAll
<1>3. CASE h.c[k].do = "submit"
  <2>1. h.c[k].id \in Asked(h.c, "submit")
    BY <1>3, Zenon DEF Asked
  <2>2. h.c[k].id \in 1 .. Len(h.o)
    BY <2>1, AskedExist, Zenon
  <2> QED
    BY <1>3, <2>2, RankType, SMTT(30)
<1> QED
  BY <1>2, <1>3, RankType, Zenon

\* What the methods do: submit_order adds an order and asks for it, cancel_order
\* asks to cancel one that is open, cancel_all_orders to cancel any there are, and
\* close_all_positions for an order against the position, if there is one.
Submits(h, g, tag, side, quantity) ==
    LET N == Len(h.o) + 1
    IN  /\ g.s = h.s /\ g.n = h.n /\ Sound(g) /\ Keeps(h, g) /\ Len(g.o) = N
        /\ g.o[N].tag = tag /\ g.o[N].side = side /\ g.o[N].quantity = quantity
        /\ g.o[N].status = "SUBMITTED"
        /\ \A i \in 1 .. Len(h.o) : g.o[i] = h.o[i]
        /\ Asked(g.c, "submit") = Asked(h.c, "submit") \cup {N}
        /\ Asked(g.c, "cancel") = Asked(h.c, "cancel")
        /\ Asked(g.c, "cancel_all") = Asked(h.c, "cancel_all")
        /\ Tagged(g, tag) = Tagged(h, tag) \cup {N}
        /\ \A t \in {"ENTRY", "SL", "CLOSE"} \ {tag} : Tagged(g, t) = Tagged(h, t)
        /\ Ordered(h, TagRank(tag)) => Ordered(g, TagRank(tag) + 1)

Withdraws(h, g, id) ==
    /\ g.s = h.s /\ g.n = h.n /\ Sound(g) /\ Keeps(h, g) /\ Len(g.o) = Len(h.o)
    /\ g.o[id].status = "PENDING_CANCEL"
    /\ Asked(g.c, "submit") = Asked(h.c, "submit")
    /\ Asked(g.c, "cancel") = Asked(h.c, "cancel") \cup {id}
    /\ Asked(g.c, "cancel_all") = Asked(h.c, "cancel_all")
    /\ \A t \in {"ENTRY", "SL", "CLOSE"} : Tagged(g, t) = Tagged(h, t)
    /\ Ordered(h, 1) => Ordered(g, 2)

Sweeps(h, g) ==
    /\ g.s = h.s /\ g.n = h.n /\ Sound(g) /\ Keeps(h, g) /\ Len(g.o) = Len(h.o)
    /\ Asked(g.c, "submit") = Asked(h.c, "submit")
    /\ Asked(g.c, "cancel") = Asked(h.c, "cancel")
    /\ (\E i \in 1 .. Len(h.o) : h.o[i].status \in {"SUBMITTED", "ACCEPTED", "PENDING_CANCEL"})
         => Asked(g.c, "cancel_all") # {}
    /\ \A t \in {"ENTRY", "SL", "CLOSE"} : Tagged(g, t) = Tagged(h, t)
    /\ Ordered(h, 3) => Ordered(g, 4)

Closes(h, g) ==
    LET N == Len(h.o) + 1
    IN  /\ g.s = h.s /\ g.n = h.n /\ Sound(g) /\ Keeps(h, g)
        /\ Asked(g.c, "cancel") = Asked(h.c, "cancel")
        /\ Asked(g.c, "cancel_all") = Asked(h.c, "cancel_all")
        /\ \A t \in {"ENTRY", "SL"} : Tagged(g, t) = Tagged(h, t)
        /\ Ordered(h, 4) => Ordered(g, 5)
        /\ h.n = 0 => g = h
        /\ h.n # 0 => /\ Len(g.o) = N
                      /\ g.o[N].tag = "CLOSE" /\ g.o[N].status = "SUBMITTED"
                      /\ Asked(g.c, "submit") = Asked(h.c, "submit") \cup {N}
                      /\ Tagged(g, "CLOSE") = Tagged(h, "CLOSE") \cup {N}
        /\ h.n \in {-1, 1} => g.o[N].side = -h.n /\ g.o[N].quantity = 1

\* submit_order.
LEMMA SubmitAsks ==
  ASSUME NEW h, Sound(h), NEW tag \in {"ENTRY", "SL", "CLOSE"}, NEW side \in Side,
         NEW quantity \in Nat, NEW trigger \in Int,
         NEW g, g = submit_order(h, tag, side, quantity, trigger)
  PROVE  Submits(h, g, tag, side, quantity)
<1> DEFINE order == [tag |-> tag, side |-> side, quantity |-> quantity,
                     trigger |-> trigger, status |-> "SUBMITTED"]
           N == Len(h.o) + 1
           x == [do |-> "submit", id |-> N]
<1>0. /\ h \in Handler /\ h.o \in Seq(Order) /\ Len(h.o) \in Nat /\ h.c \in Seq(Command)
  BY SoundType, Zenon
<1>1. g = [h EXCEPT !.o = Append(h.o, order), !.c = Append(h.c, x)]
  BY Zenon DEF submit_order
<1>2. /\ order.tag = tag /\ order.side = side /\ order.quantity = quantity
      /\ order.status = "SUBMITTED" /\ order \in Order
  BY Zenon DEF Order
<1>3. x \in Command /\ x.id = N /\ x.do = "submit" /\ N \in Nat
  BY ONLY <1>0 DEF Command
<1> HIDE DEF order, x
<1>4. g.o = Append(h.o, order) /\ g.c = Append(h.c, x) /\ g.n = h.n
  BY <1>0, <1>1, Zenon DEF Handler
<1>5. /\ Len(g.o) = N /\ g.o[N] = order /\ \A i \in 1 .. Len(h.o) : g.o[i] = h.o[i]
  BY ONLY <1>0, <1>2, <1>4
<1>6. Keeps(h, g)
  BY ONLY <1>0, <1>5 DEF Keeps
<1>7. /\ Asked(g.c, "submit") = Asked(h.c, "submit") \cup {N}
      /\ Asked(g.c, "cancel") = Asked(h.c, "cancel")
      /\ Asked(g.c, "cancel_all") = Asked(h.c, "cancel_all")
  BY ONLY <1>0, <1>3, <1>4, AskedAppend
<1>8. \A i \in Asked(h.c, "submit") : g.o[i] = h.o[i]
  BY <1>5, AskedExist, Zenon
<1>9. /\ Tagged(g, tag) = Tagged(h, tag) \cup {N}
      /\ \A t \in {"ENTRY", "SL", "CLOSE"} \ {tag} : Tagged(g, t) = Tagged(h, t)
  BY ONLY <1>2, <1>5, <1>7, <1>8 DEF Tagged
<1>10. ASSUME Ordered(h, TagRank(tag))
       PROVE  Ordered(g, TagRank(tag) + 1)
  <2>1. Rank(g.o, x) = TagRank(tag)
    BY ONLY <1>2, <1>3, <1>5, RankType
  <2>2. \A k \in 1 .. Len(h.c) : Rank(g.o, h.c[k]) = Rank(h.o, h.c[k])
    BY <1>5, SameRanks, Zenon
  <2> QED
    BY <1>0, <1>3, <1>4, <1>10, <2>1, <2>2, OrderedAppend, Zenon
<1>11. Sound(g) /\ g.s = h.s
  BY SubmitSound
<1> QED
  BY <1>2, <1>4, <1>5, <1>6, <1>7, <1>9, <1>10, <1>11, Zenon DEF Submits

\* A change of the status of orders keeps what is asked.
LEMMA StatusAsks ==
  ASSUME NEW h, Sound(h), NEW g, Len(g.o) = Len(h.o), \A i \in 1 .. Len(h.o) : g.o[i].tag = h.o[i].tag,
         Asked(g.c, "submit") = Asked(h.c, "submit")
  PROVE  \A t \in {"ENTRY", "SL", "CLOSE"} : Tagged(g, t) = Tagged(h, t)
<1>1. \A i \in Asked(h.c, "submit") : g.o[i].tag = h.o[i].tag
  BY AskedExist, Zenon
<1> QED
  BY <1>1, Zenon DEF Tagged

\* cancel_all_orders.
LEMMA CancelAllAsks ==
  ASSUME NEW h, Sound(h), NEW g, g = cancel_all_orders(h)
  PROVE  Sweeps(h, g)
<1> DEFINE o == [i \in DOMAIN h.o |->
                   IF is_open(h.o[i]) THEN [h.o[i] EXCEPT !.status = "PENDING_CANCEL"]
                   ELSE h.o[i]]
<1>0. Sound(g) /\ g.s = h.s
  BY CancelAllSound, Zenon
<1>1. /\ h \in Handler /\ h.o \in Seq(Order) /\ Len(h.o) \in Nat /\ h.c \in Seq(Command)
      /\ DOMAIN h.o = 1 .. Len(h.o)
  BY DEF Sound, Handler
<1>2. ASSUME NEW i \in 1 .. Len(h.o)
      PROVE  /\ o[i].tag = h.o[i].tag /\ o[i].side = h.o[i].side /\ o[i].quantity = h.o[i].quantity
             /\ \/ o[i].status = h.o[i].status
                \/ is_open(h.o[i]) /\ o[i].status = "PENDING_CANCEL"
             /\ o[i] \in Order
  <2>1. h.o[i] \in Order
    BY <1>1, SoundType, Zenon
  <2>2. ASSUME NEW p, p = [h.o[i] EXCEPT !.status = "PENDING_CANCEL"]
        PROVE  /\ p.tag = h.o[i].tag /\ p.side = h.o[i].side /\ p.quantity = h.o[i].quantity
               /\ p.status = "PENDING_CANCEL" /\ p \in Order
    BY <2>1, <2>2, Zenon DEF Order
  <2> QED
    BY <1>1, <2>1, <2>2, Zenon
<1>3. Len(o) = Len(h.o)
  <2>1. o \in [1 .. Len(h.o) -> Order]
    BY <1>1, <1>2, Zenon
  <2> QED
    BY ONLY <1>1, <2>1
<1>4. CancelAll \in Command /\ CancelAll.id = 0 /\ CancelAll.do = "cancel_all"
  BY Zenon DEF Command, CancelAll, None
<1>5. CASE \A i \in DOMAIN h.o : ~is_open(h.o[i]) /\ h.o[i].status # "SUBMITTED"
  <2>1. g = h
    BY <1>5, Zenon DEF cancel_all_orders
  <2>2. \A i \in 1 .. Len(h.o) : h.o[i].status \notin {"SUBMITTED", "ACCEPTED", "PENDING_CANCEL"}
    BY <1>1, <1>5, Zenon DEF is_open
  <2>3. ASSUME Ordered(h, 3)
        PROVE  Ordered(h, 4)
    <3>1. \A k \in 1 .. Len(h.c) : Rank(h.o, h.c[k]) \in 1 .. 5 /\ Rank(h.o, h.c[k]) < 3
      BY <2>3, RankType, Zenon DEF Ordered
    <3> QED
      BY ONLY <2>3, <3>1 DEF Ordered
  <2>4. Keeps(h, h)
    BY ONLY <1>1 DEF Keeps
  <2> QED
    BY <1>0, <2>1, <2>2, <2>3, <2>4, Zenon DEF Sweeps
<1>6. CASE ~ \A i \in DOMAIN h.o : ~is_open(h.o[i]) /\ h.o[i].status # "SUBMITTED"
  <2>1. g = [h EXCEPT !.o = o, !.c = Append(h.c, CancelAll)]
    BY <1>1, <1>6, Zenon DEF cancel_all_orders, Handler
  <2> HIDE DEF o
  <2>2. g.o = o /\ g.c = Append(h.c, CancelAll) /\ g.n = h.n
    BY <1>1, <2>1, Zenon DEF Handler
  <2>3. Keeps(h, g) /\ Len(g.o) = Len(h.o)
    BY ONLY <1>1, <1>2, <1>3, <2>2 DEF Keeps
  <2>4. /\ Asked(g.c, "submit") = Asked(h.c, "submit")
        /\ Asked(g.c, "cancel") = Asked(h.c, "cancel")
        /\ Asked(g.c, "cancel_all") = Asked(h.c, "cancel_all") \cup {0}
    BY ONLY <1>1, <1>4, <2>2, AskedAppend
  <2>5. \A t \in {"ENTRY", "SL", "CLOSE"} : Tagged(g, t) = Tagged(h, t)
    BY <2>3, <2>4, StatusAsks, Zenon DEF Keeps
  <2>6. ASSUME Ordered(h, 3)
        PROVE  Ordered(g, 4)
    <3>1. Rank(g.o, CancelAll) = 3
      BY <1>4, RankType, Zenon
    <3>2. \A k \in 1 .. Len(h.c) : Rank(g.o, h.c[k]) = Rank(h.o, h.c[k])
      BY <2>3, SameRanks, Zenon DEF Keeps
    <3>3. Ordered(g, 3 + 1)
      BY <1>1, <1>4, <2>2, <2>6, <3>1, <3>2, OrderedAppend, Zenon
    <3> QED
      BY ONLY <3>3
  <2> QED
    BY <1>0, <2>2, <2>3, <2>4, <2>5, <2>6, Zenon DEF Sweeps
<1> QED
  BY <1>5, <1>6, Zenon

\* A lower bound is a bound.
LEMMA OrderedMore ==
  ASSUME NEW h, NEW r \in Int, NEW q \in Int, r <= q, Ordered(h, r)
  PROVE  Ordered(h, q)
<1>1. \A k \in 1 .. Len(h.c) : Rank(h.o, h.c[k]) \in Int
  BY ONLY RankType
<1>2. ASSUME NEW k \in 1 .. Len(h.c)
      PROVE  Rank(h.o, h.c[k]) < q
  <2>1. Rank(h.o, h.c[k]) < r /\ Rank(h.o, h.c[k]) \in Int
    BY <1>1, Zenon DEF Ordered
  <2> QED
    BY <2>1
<1> QED
  BY <1>2, Zenon DEF Ordered

\* The same orders and the same commands.
LEMMA SameAsks ==
  ASSUME NEW h, Sound(h), NEW g, g.o = h.o, g.c = h.c
  PROVE  /\ Keeps(h, g) /\ \A t \in {"ENTRY", "SL", "CLOSE"} : Tagged(g, t) = Tagged(h, t)
         /\ \A r : Ordered(h, r) => Ordered(g, r)
<1>1. Len(h.o) \in Nat
  BY SoundType, Zenon
<1> QED
  BY <1>1 DEF Keeps, Tagged, Ordered

\* close_all_positions: an order against the position, if there is one.
LEMMA CloseAsks ==
  ASSUME NEW h, Sound(h), NEW g, g = close_all_positions(h)
  PROVE  Closes(h, g)
<1>1. CASE h.n = 0
  <2>1. g = h
    BY <1>1 DEF close_all_positions
  <2>2. Keeps(h, h)
    BY SameAsks, Zenon
  <2>3. Ordered(h, 4) => Ordered(h, 5)
    BY ONLY OrderedMore
  <2> QED
    BY <1>1, <2>1, <2>2, <2>3 DEF Closes
<1>2. CASE h.n # 0
  <2>0. h.n \in Int
    BY Zenon DEF Sound, Handler
  <2>1. PICK d \in Side, q \in Nat :
          /\ g = submit_order(h, "CLOSE", d, q, 0)
          /\ h.n \in {-1, 1} => d = -h.n /\ q = 1
    <3>1. CASE h.n > 0
      <4>1. g = submit_order(h, "CLOSE", -1, h.n, 0) /\ h.n \in Nat
        BY <2>0, <3>1 DEF close_all_positions
      <4> QED
        BY ONLY <2>0, <3>1, <4>1 DEF Side
    <3>2. CASE h.n < 0
      <4>1. g = submit_order(h, "CLOSE", 1, -h.n, 0) /\ -h.n \in Nat
        BY <2>0, <3>2 DEF close_all_positions
      <4> QED
        BY ONLY <2>0, <3>2, <4>1 DEF Side
    <3> QED
      BY ONLY <1>2, <2>0, <3>1, <3>2
  <2>a. g = submit_order(h, "CLOSE", d, q, 0)
    BY <2>1, Zenon
  <2>2. Submits(h, g, "CLOSE", d, q)
    BY <2>a, SubmitAsks
  <2>3. TagRank("CLOSE") = 4
    BY Zenon DEF TagRank
  <2>4. Ordered(h, 4) => Ordered(g, 5)
    BY ONLY <2>2, <2>3 DEF Submits
  <2>5. h.n \in {-1, 1} => g.o[Len(h.o) + 1].side = -h.n /\ g.o[Len(h.o) + 1].quantity = 1
    BY <2>1, <2>2, Zenon DEF Submits
  <2>6. \A t \in {"ENTRY", "SL"} : Tagged(g, t) = Tagged(h, t)
    BY <2>2, Zenon DEF Submits
  <2> QED
    BY <1>2, <2>2, <2>4, <2>5, <2>6, Zenon DEF Closes, Submits
<1> QED
  BY <1>1, <1>2, Zenon

-----------------------------------------------------------------------------
\* The invariant that Protected rests on, of a handler h, the events ev on their
\* way, the stops w open at the venue, its position p and whether the strategy is
\* running.  An order is in one place: asked for, at the venue, or told of.
Lanes(h, ev, w, p) ==
    /\ Ordered(h, 6) /\ Apart(ev)
    /\ \A k \in 1 .. Len(ev) : ev[k].is = "Filled" => ev[k].quantity = 1
    /\ p \in {-1, 0, 1}
    /\ \A i, j \in w : i = j
    /\ \A i \in w : /\ h.o[i].tag = "SL" /\ h.o[i].side = -p
                    /\ h.o[i].status \in {"SUBMITTED", "ACCEPTED", "PENDING_CANCEL"}
                    /\ i \notin Asked(h.c, "submit") /\ i \notin Told(ev, "Rejected")
                    /\ i \notin Told(ev, "Canceled") /\ i \notin Told(ev, "Filled")
    /\ \A i \in Asked(h.c, "submit") :
          /\ h.o[i].status = "SUBMITTED"
          /\ i \notin Told(ev, "Accepted") /\ i \notin Told(ev, "Rejected")
          /\ i \notin Told(ev, "Canceled") /\ i \notin Told(ev, "Filled")
    /\ \A i \in Told(ev, "Rejected") :
          /\ h.o[i].status = "SUBMITTED"
          /\ i \notin Told(ev, "Accepted")
          /\ i \notin Told(ev, "Canceled") /\ i \notin Told(ev, "Filled")

\* The position of the cache is that of the venue but for the fills on their way,
\* of which there are two only when a close and an entry reverse a trade.
Accounted(h, ev, p) ==
    LET fills == Told(ev, "Filled")
    IN  \/ fills = {} /\ h.n = p
        \/ \E i \in fills : fills = {i} /\ p = h.n + h.o[i].side
        \/ \E i, j \in fills : /\ i # j /\ fills = {i, j} /\ h.o[i].side = h.o[j].side
                               /\ p = h.n + h.o[i].side + h.o[i].side

\* The ids the strategy waits for are those of an entry and of a stop.
Known(h, r) ==
    r => /\ h.s.entry_order_id # None => h.o[h.s.entry_order_id].tag = "ENTRY"
         /\ h.s.sl_order_id # None => h.o[h.s.sl_order_id].tag = "SL"

\* A position is about to be closed, or has a stop at the venue, asked for or just
\* refused, or comes from an entry the strategy has not been told of.
Covered(h, ev, w, p, r) ==
    LET sl == h.s.sl_order_id
    IN  p # 0 =>
          \/ /\ \E c \in Tagged(h, "CLOSE") : h.o[c].side = -p /\ h.o[c].quantity = 1
             /\ w # {} \/ Tagged(h, "SL") # {} => Asked(h.c, "cancel_all") # {}
          \/ /\ r /\ sl # None /\ h.s.entry_side = p /\ h.o[sl].side = -p
             /\ \/ w = {sl}
                \/ sl \in Tagged(h, "SL")
                \/ sl \in Told(ev, "Rejected") /\ w = {}
          \/ r /\ h.s.entry_order_id \in Told(ev, "Filled")

\* While the strategy waits for a stop it asks for nothing else, and the stop is
\* asked for, at the venue, or has ended as the strategy is about to be told.
Waits(h, ev, w, r) ==
    LET sl == h.s.sl_order_id
    IN  r /\ sl # None =>
          /\ Asked(h.c, "submit") \subseteq {sl} /\ Asked(h.c, "cancel_all") = {}
          /\ h.o[sl].status # "PENDING_CANCEL"
          /\ \/ sl \in Asked(h.c, "submit") \/ w = {sl}
             \/ sl \in Told(ev, "Filled") \/ sl \in Told(ev, "Rejected")

\* An entry is the last thing asked for, on the side of whatever closes the last
\* trade, and the only one.
Enters(h, ev, r) ==
    LET fills == Told(ev, "Filled")
    IN  \A i \in Tagged(h, "ENTRY") :
          /\ r /\ i = h.s.entry_order_id /\ h.o[i].side = h.s.entry_side
          /\ h.s.sl_order_id = None
          /\ \A f \in fills : h.o[f].side = h.o[i].side
          /\ \A f, g \in fills : f = g
          /\ \A c \in Tagged(h, "CLOSE") : h.o[c].side = h.o[i].side

\* The fill of an entry is the last of what was asked; a stop that has filled has
\* closed the position, and a refused one is told of after every fill.
Ends(h, ev, w, p, r) ==
    LET fills == Told(ev, "Filled")
        sl    == h.s.sl_order_id
    IN  /\ w # {} => fills = {}
        /\ r /\ h.s.entry_order_id \in fills
             => p = h.s.entry_side /\ p # 0 /\ w = {} /\ h.c = << >> /\ sl = None
        /\ r /\ sl \in fills => p = 0
        /\ r /\ sl \in Told(ev, "Rejected") /\ p # 0 => fills = {}

\* A stop is asked for only when the one before has been asked to be canceled, and
\* on the side that closes the position.
Replaces(h, w, p, r) ==
    /\ ~r => Tagged(h, "SL") = {}
    /\ Asked(h.c, "cancel") # {} => Tagged(h, "SL") # {} \/ Asked(h.c, "cancel_all") # {}
    /\ Tagged(h, "SL") # {} => w \subseteq Asked(h.c, "cancel")
    /\ p # 0 => \A i \in Tagged(h, "SL") : h.o[i].side = -p

Trade(h, ev, w, p, r) ==
    /\ Accounted(h, ev, p) /\ Known(h, r) /\ Covered(h, ev, w, p, r) /\ Waits(h, ev, w, r)
    /\ Enters(h, ev, r) /\ Ends(h, ev, w, p, r) /\ Replaces(h, w, p, r)

\* What is typed of the venue.
Venue(h, ev, w) == ev \in Seq(VenueEvent(Len(h.o))) /\ w \subseteq 1 .. Len(h.o)

Flow(h, ev, w, p, r) == Lanes(h, ev, w, p) /\ Trade(h, ev, w, p, r)

-----------------------------------------------------------------------------
\* An order that is told of exists.
LEMMA ToldExist ==
  ASSUME NEW n \in Nat, NEW ev \in Seq(VenueEvent(n)), NEW is, NEW i \in Told(ev, is)
  PROVE  i \in 1 .. n
<1>1. PICK k \in 1 .. Len(ev) : ev[k].id = i
  BY Zenon DEF Told
<1>2. ev[k] \in VenueEvent(n)
  OBVIOUS
<1> QED
  BY <1>1, <1>2, Zenon DEF VenueEvent

\* Without commands of any kind there is none.
LEMMA NoneAsked ==
  ASSUME NEW c \in Seq(Command), Asked(c, "submit") = {}, Asked(c, "cancel") = {},
         Asked(c, "cancel_all") = {}
  PROVE  c = << >>
<1>1. SUFFICES ASSUME c # << >>
               PROVE  FALSE
  BY Zenon
<1>2. 1 \in 1 .. Len(c) /\ c[1] \in Command
  BY ONLY <1>1
<1>3. c[1].do \in {"submit", "cancel", "cancel_all"}
  BY ONLY <1>2 DEF Command, CancelAll
<1>4. c[1].id \in Asked(c, c[1].do)
  BY <1>2, Zenon DEF Asked
<1> QED
  BY <1>3, <1>4, Zenon

\* The lanes stay apart when orders are added and asked for.
LEMMA LanesKept ==
  ASSUME NEW h, NEW g, Sound(h), Sound(g), Keeps(h, g), Ordered(g, 6),
         NEW ev, NEW w, NEW p, Venue(h, ev, w), Lanes(h, ev, w, p),
         \A i \in Asked(g.c, "submit") :
            i \in Asked(h.c, "submit") \/ (i > Len(h.o) /\ g.o[i].status = "SUBMITTED")
  PROVE  Lanes(g, ev, w, p)
<1>0. Len(h.o) \in Nat /\ Len(g.o) \in Nat
  BY SoundType, Zenon
<1>1. \A is : \A i \in Told(ev, is) : i \in 1 .. Len(h.o)
  BY <1>0, ToldExist, Zenon DEF Venue
<1>2. \A i \in Asked(h.c, "submit") : i \in 1 .. Len(h.o)
  BY AskedExist, Zenon
<1>3. ASSUME NEW i \in w
      PROVE  /\ g.o[i].tag = "SL" /\ g.o[i].side = -p
             /\ g.o[i].status \in {"SUBMITTED", "ACCEPTED", "PENDING_CANCEL"}
             /\ i \notin Asked(g.c, "submit") /\ i \notin Told(ev, "Rejected")
             /\ i \notin Told(ev, "Canceled") /\ i \notin Told(ev, "Filled")
  <2>1. i \in 1 .. Len(h.o)
    BY Zenon DEF Venue
  <2>2. g.o[i].tag = h.o[i].tag /\ g.o[i].side = h.o[i].side
        /\ g.o[i].status \in {h.o[i].status, "PENDING_CANCEL"}
    BY <2>1, Zenon DEF Keeps
  <2>3. i \notin Asked(g.c, "submit")
    BY <1>0, <2>1 DEF Lanes
  <2> QED
    BY <2>2, <2>3, Zenon DEF Lanes
<1>4. ASSUME NEW i \in Asked(g.c, "submit")
      PROVE  /\ g.o[i].status = "SUBMITTED"
             /\ i \notin Told(ev, "Accepted") /\ i \notin Told(ev, "Rejected")
             /\ i \notin Told(ev, "Canceled") /\ i \notin Told(ev, "Filled")
  <2>1. CASE i \in Asked(h.c, "submit")
    <3>1. i \in 1 .. Len(h.o) /\ h.o[i].status = "SUBMITTED"
      BY <1>2, <2>1, Zenon DEF Lanes
    <3>2. g.o[i].status = "SUBMITTED"
      BY <3>1, Zenon DEF Keeps, is_open
    <3> QED
      BY <2>1, <3>2, Zenon DEF Lanes
  <2>2. CASE i > Len(h.o) /\ g.o[i].status = "SUBMITTED"
    <3>1. i \notin 1 .. Len(h.o)
      BY ONLY <1>0, <2>2
    <3> QED
      BY <1>1, <2>2, <3>1, Zenon
  <2> QED
    BY <2>1, <2>2, Zenon
<1>5. ASSUME NEW i \in Told(ev, "Rejected")
      PROVE  /\ g.o[i].status = "SUBMITTED"
             /\ i \notin Told(ev, "Accepted")
             /\ i \notin Told(ev, "Canceled") /\ i \notin Told(ev, "Filled")
  <2>1. i \in 1 .. Len(h.o) /\ h.o[i].status = "SUBMITTED"
    BY <1>1, Zenon DEF Lanes
  <2>2. g.o[i].status = "SUBMITTED"
    BY <2>1, Zenon DEF Keeps, is_open
  <2> QED
    BY <2>2, Zenon DEF Lanes
<1> QED
  BY <1>3, <1>4, <1>5, Zenon DEF Lanes

\* Fills keep their sides.
LEMMA AccountedKept ==
  ASSUME NEW h, NEW g, Sound(h), Keeps(h, g), g.n = h.n,
         NEW ev, NEW w, NEW p, Venue(h, ev, w), Accounted(h, ev, p)
  PROVE  Accounted(g, ev, p)
<1>0. Len(h.o) \in Nat
  BY SoundType, Zenon
<1>1. \A i \in Told(ev, "Filled") : i \in 1 .. Len(h.o)
  BY <1>0, ToldExist, Zenon DEF Venue
<1>2. \A i \in Told(ev, "Filled") : g.o[i].side = h.o[i].side
  BY <1>1, Zenon DEF Keeps
<1> QED
  BY <1>2, Zenon DEF Accounted

-----------------------------------------------------------------------------
\* Sides are not 0, so that a stop at the venue means a position.
LEMMA StopMeansPosition ==
  ASSUME NEW h, Sound(h), NEW ev, NEW w, NEW p, Venue(h, ev, w), Lanes(h, ev, w, p), w # {}
  PROVE  p # 0
<1>1. PICK i \in w : TRUE
  BY Zenon
<1>2. h.o \in Seq(Order) /\ i \in 1 .. Len(h.o)
  BY Zenon DEF Sound, Handler, Venue
<1>3. h.o[i] \in Order
  BY <1>2, SoundType, Zenon
<1>4. h.o[i].side \in {1, -1} /\ h.o[i].side = -p
  BY <1>3, Zenon DEF Order, Side, Lanes
<1> QED
  BY ONLY <1>4

\* A stop that is waited for and not asked for is alone.
LEMMA StopAlone ==
  ASSUME NEW h, Sound(h), NEW ev, NEW w, NEW p, Flow(h, ev, w, p, TRUE),
         h.s.sl_order_id # None, h.s.sl_order_id \notin Asked(h.c, "submit")
  PROVE  /\ h.c = << >> /\ Asked(h.c, "submit") = {} /\ Asked(h.c, "cancel") = {}
         /\ Asked(h.c, "cancel_all") = {}
         /\ \A t \in {"ENTRY", "SL", "CLOSE"} : Tagged(h, t) = {}
<1>1. Asked(h.c, "submit") = {} /\ Asked(h.c, "cancel_all") = {}
  BY Zenon DEF Flow, Trade, Waits
<1>2. \A t \in {"ENTRY", "SL", "CLOSE"} : Tagged(h, t) = {}
  BY <1>1, Zenon DEF Tagged
<1>3. Asked(h.c, "cancel") = {}
  BY <1>1, <1>2, Zenon DEF Flow, Trade, Replaces
<1>4. h.c \in Seq(Command)
  BY Zenon DEF Sound, Handler
<1> QED
  BY <1>1, <1>2, <1>3, <1>4, NoneAsked, Zenon

\* What a bar does to the stop: the flow goes on, and commands are given only for
\* a stop that is waited for.
Trails(h, g, ev, w, p) ==
    /\ Flow(g, ev, w, p, TRUE) /\ Keeps(h, g) /\ g.n = h.n
    /\ \/ g.c = h.c
       \/ g.s.sl_order_id # None /\ (w # {} \/ Told(ev, "Filled") # {})

\* cancel_all_orders and close_all_positions one after the other, and _enter.
Quits(h, g) ==
    LET N == Len(h.o) + 1
    IN  /\ g.s = h.s /\ g.n = h.n /\ Sound(g) /\ Keeps(h, g)
        /\ Asked(g.c, "cancel") = Asked(h.c, "cancel")
        /\ (\E i \in 1 .. Len(h.o) : h.o[i].status \in {"SUBMITTED", "ACCEPTED", "PENDING_CANCEL"})
             => Asked(g.c, "cancel_all") # {}
        /\ \A t \in {"ENTRY", "SL"} : Tagged(g, t) = Tagged(h, t)
        /\ Ordered(h, 3) => Ordered(g, 5)
        /\ h.n = 0 => /\ Len(g.o) = Len(h.o) /\ Tagged(g, "CLOSE") = Tagged(h, "CLOSE")
                      /\ Asked(g.c, "submit") = Asked(h.c, "submit")
        /\ h.n # 0 => /\ Len(g.o) = N
                      /\ g.o[N].tag = "CLOSE" /\ g.o[N].status = "SUBMITTED"
                      /\ Asked(g.c, "submit") = Asked(h.c, "submit") \cup {N}
                      /\ Tagged(g, "CLOSE") = Tagged(h, "CLOSE") \cup {N}
        /\ h.n \in {-1, 1} => g.o[N].side = -h.n /\ g.o[N].quantity = 1

Opens(h, g, side) ==
    LET N == Len(h.o) + 1
    IN  /\ g.s.entry_order_id = N /\ g.s.entry_side = side /\ g.s.sl_order_id = h.s.sl_order_id
        /\ g.n = h.n /\ Sound(g) /\ Keeps(h, g) /\ Len(g.o) = N
        /\ g.o[N].tag = "ENTRY" /\ g.o[N].side = side /\ g.o[N].status = "SUBMITTED"
        /\ Asked(g.c, "submit") = Asked(h.c, "submit") \cup {N}
        /\ Asked(g.c, "cancel") = Asked(h.c, "cancel")
        /\ Asked(g.c, "cancel_all") = Asked(h.c, "cancel_all")
        /\ Tagged(g, "ENTRY") = Tagged(h, "ENTRY") \cup {N}
        /\ \A t \in {"SL", "CLOSE"} : Tagged(g, t) = Tagged(h, t)
        /\ Ordered(h, 5) => Ordered(g, 6)

\* The first of the two.
LEMMA QuitAsks ==
  ASSUME NEW h, Sound(h), NEW g, g = close_all_positions(cancel_all_orders(h))
  PROVE  Quits(h, g)
<1> DEFINE q == cancel_all_orders(h)
<1>1. Sweeps(h, q)
  BY CancelAllAsks, Zenon
<1>2. Sound(q)
  BY <1>1, Zenon DEF Sweeps
<1>3. Closes(q, g)
  BY <1>2, CloseAsks, Zenon
<1> HIDE DEF q
<1>4. /\ q.s = h.s /\ q.n = h.n /\ Keeps(h, q) /\ Len(q.o) = Len(h.o)
      /\ Asked(q.c, "submit") = Asked(h.c, "submit")
      /\ Asked(q.c, "cancel") = Asked(h.c, "cancel")
      /\ (\E i \in 1 .. Len(h.o) : h.o[i].status \in {"SUBMITTED", "ACCEPTED", "PENDING_CANCEL"})
           => Asked(q.c, "cancel_all") # {}
      /\ \A t \in {"ENTRY", "SL", "CLOSE"} : Tagged(q, t) = Tagged(h, t)
      /\ Ordered(h, 3) => Ordered(q, 4)
  BY <1>1, Zenon DEF Sweeps
<1>5. /\ g.s = h.s /\ g.n = h.n /\ Sound(g) /\ Keeps(q, g)
      /\ Asked(g.c, "cancel") = Asked(h.c, "cancel")
      /\ Asked(g.c, "cancel_all") = Asked(q.c, "cancel_all")
      /\ \A t \in {"ENTRY", "SL"} : Tagged(g, t) = Tagged(h, t)
      /\ Ordered(q, 4) => Ordered(g, 5)
  BY <1>3, <1>4, Zenon DEF Closes
<1>6. Keeps(h, g)
  BY <1>2, <1>4, <1>5, KeepsOn, Zenon
<1>7. ASSUME h.n = 0
      PROVE  /\ Len(g.o) = Len(h.o) /\ Tagged(g, "CLOSE") = Tagged(h, "CLOSE")
             /\ Asked(g.c, "submit") = Asked(h.c, "submit")
  <2>1. g = q
    BY <1>3, <1>4, <1>7, Zenon DEF Closes
  <2> QED
    BY <1>4, <2>1, Zenon
<1>8. ASSUME h.n # 0
      PROVE  LET N == Len(h.o) + 1
             IN  /\ Len(g.o) = N
                 /\ g.o[N].tag = "CLOSE" /\ g.o[N].status = "SUBMITTED"
                 /\ Asked(g.c, "submit") = Asked(h.c, "submit") \cup {N}
                 /\ Tagged(g, "CLOSE") = Tagged(h, "CLOSE") \cup {N}
  BY <1>3, <1>4, <1>8, Zenon DEF Closes
<1>9. h.n \in {-1, 1} => LET N == Len(h.o) + 1 IN g.o[N].side = -h.n /\ g.o[N].quantity = 1
  BY <1>3, <1>4, Zenon DEF Closes
<1> QED
  BY <1>4, <1>5, <1>6, <1>7, <1>8, <1>9, Zenon DEF Quits

\* Nothing is asked for and no command is out of order when there is none.
LEMMA Idle ==
  ASSUME NEW h, h.c = << >>
  PROVE  /\ \A do : Asked(h.c, do) = {}
         /\ \A t \in {"ENTRY", "SL", "CLOSE"} : Tagged(h, t) = {}
         /\ \A r : Ordered(h, r)
<1>1. \A do : Asked(h.c, do) = {}
  BY NothingAsked, Zenon
<1>2. \A t \in {"ENTRY", "SL", "CLOSE"} : Tagged(h, t) = {}
  BY <1>1, Zenon DEF Tagged
<1>3. \A r : Ordered(h, r)
  BY DEF Ordered
<1> QED
  BY <1>1, <1>2, <1>3, Zenon

\* The first step of _exit_and_reverse: the stop that is open is asked to be
\* canceled.
Drops(h, k) ==
    /\ k.s = h.s /\ k.n = h.n /\ Sound(k) /\ Keeps(h, k) /\ Len(k.o) = Len(h.o)
    /\ Asked(k.c, "submit") = Asked(h.c, "submit")
    /\ Asked(h.c, "cancel") \subseteq Asked(k.c, "cancel")
    /\ \A t \in {"ENTRY", "SL", "CLOSE"} : Tagged(k, t) = Tagged(h, t)
    /\ Ordered(k, 3)

\* The end of a trade, of which on_event and _exit_and_reverse clear the fields.
LEMMA OverAsks ==
  ASSUME NEW h, Sound(h), NEW g, g = [h EXCEPT !.s = trade_over(@)]
  PROVE  /\ Sound(g) /\ g.o = h.o /\ g.n = h.n /\ g.c = h.c
         /\ g.s.sl_order_id = None /\ g.s.entry_order_id = h.s.entry_order_id
<1>1. Sound(g)
  BY TradeOverSound, Zenon
<1>2. h \in Handler /\ h.s \in Fields
  BY Zenon DEF Sound, Handler
<1>3. g.o = h.o /\ g.n = h.n /\ g.c = h.c /\ g.s = trade_over(h.s)
  BY <1>2, Zenon DEF Handler
<1>4. trade_over(h.s).sl_order_id = None /\ trade_over(h.s).entry_order_id = h.s.entry_order_id
  BY <1>2, Zenon DEF Fields, trade_over
<1> QED
  BY <1>1, <1>3, <1>4, Zenon

\* All of it: what was asked for is swept, the position is asked to be closed, and
\* the next entry is asked for.
Reverses(h, g, side) ==
    LET N == Len(h.o) + 1
    IN  /\ g.s.entry_order_id = N + 1 /\ g.s.entry_side = side /\ g.s.sl_order_id = None
        /\ g.n = h.n /\ Sound(g) /\ Keeps(h, g)
        /\ g.o[N].tag = "CLOSE" /\ g.o[N].side = -h.n /\ g.o[N].quantity = 1
        /\ g.o[N].status = "SUBMITTED"
        /\ g.o[N + 1].tag = "ENTRY" /\ g.o[N + 1].side = side /\ g.o[N + 1].status = "SUBMITTED"
        /\ Asked(g.c, "submit") = Asked(h.c, "submit") \cup {N, N + 1}
        /\ Asked(h.c, "cancel") \subseteq Asked(g.c, "cancel")
        /\ Asked(g.c, "cancel_all") # {}
        /\ Tagged(g, "SL") = Tagged(h, "SL") /\ Tagged(g, "CLOSE") = {N} /\ Tagged(g, "ENTRY") = {N + 1}
        /\ Ordered(g, 6)

\* The invariant that Protected follows from.
FlowInv ==
    /\ IInv /\ running \in BOOLEAN /\ overtaken \in BOOLEAN
    /\ ~overtaken => Flow(Now, events, working, position, running)

\* What an action of the strategy leaves is a handler.
LEMMA BecomesFlow ==
  ASSUME IInv, NEW g, Sound(g), Becomes(g), NEW r, NEW ev,
         Flow(g, ev, working, position, r), running' = r, events' = ev, VenueUnchanged
  PROVE  Flow(Now, events, working, position, running)'
<1>1. g = [s |-> g.s, o |-> g.o, n |-> g.n, c |-> g.c]
  BY Zenon DEF Sound, Handler
<1>2. Now' = g
  BY <1>1, Zenon DEF Now, Becomes
<1>3. working' = working /\ position' = position
  BY Zenon DEF VenueUnchanged
<1> QED
  BY <1>2, <1>3, Zenon

\* on_bar.
LEMMA on_barFlow ==
  ASSUME FlowInv, on_bar, ~overtaken'
  PROVE  Flow(Now, events, working, position, running)'

\* cancel_order of an order that is open and not asked to be canceled yet.
<1>CancelAsks. ASSUME NEW h, Sound(h), NEW id \in 1 .. Len(h.o), h.o[id].status = "ACCEPTED",
                      NEW g, g = cancel_order(h, id)
               PROVE  Withdraws(h, g, id)
  <2> USE <1>CancelAsks
  <2> DEFINE order == [h.o[id] EXCEPT !.status = "PENDING_CANCEL"]
             x == [do |-> "cancel", id |-> id]
  <2>0. /\ h \in Handler /\ h.o \in Seq(Order) /\ Len(h.o) \in Nat /\ h.c \in Seq(Command)
        /\ h.o[id] \in Order
    BY SoundType, Zenon
  <2>1. g = [h EXCEPT !.o = [h.o EXCEPT ![id] = order], !.c = Append(h.c, x)]
    BY <2>0, Zenon DEF cancel_order, Handler
  <2>2. /\ order.tag = h.o[id].tag /\ order.side = h.o[id].side /\ order.quantity = h.o[id].quantity
        /\ order.status = "PENDING_CANCEL" /\ order \in Order
    BY <2>0, Zenon DEF Order
  <2>3. x \in Command /\ x.id = id /\ x.do = "cancel"
    BY ONLY <2>0 DEF Command
  <2> HIDE DEF order, x
  <2>4. g.o = [h.o EXCEPT ![id] = order] /\ g.c = Append(h.c, x) /\ g.n = h.n
    BY <2>0, <2>1, Zenon DEF Handler
  <2>5. /\ Len(g.o) = Len(h.o) /\ g.o[id] = order
        /\ \A i \in 1 .. Len(h.o) : i # id => g.o[i] = h.o[i]
    BY ONLY <2>0, <2>2, <2>4
  <2>6. Keeps(h, g)
    BY <2>0, <2>2, <2>5 DEF Keeps, is_open
  <2>7. /\ Asked(g.c, "submit") = Asked(h.c, "submit")
        /\ Asked(g.c, "cancel") = Asked(h.c, "cancel") \cup {id}
        /\ Asked(g.c, "cancel_all") = Asked(h.c, "cancel_all")
    BY ONLY <2>0, <2>3, <2>4, AskedAppend
  <2>8. \A t \in {"ENTRY", "SL", "CLOSE"} : Tagged(g, t) = Tagged(h, t)
    BY <2>5, <2>6, <2>7, StatusAsks, SoundType, Zenon DEF Keeps
  <2>9. ASSUME Ordered(h, 1)
        PROVE  Ordered(g, 2)
    <3>1. Rank(g.o, x) = 1
      BY <2>3, RankType, Zenon
    <3>2. \A k \in 1 .. Len(h.c) : Rank(g.o, h.c[k]) = Rank(h.o, h.c[k])
      BY <2>6, SameRanks DEF Keeps
    <3>3. Ordered(g, 1 + 1)
      BY <2>0, <2>3, <2>4, <2>9, <3>1, <3>2, OrderedAppend, Zenon
    <3> QED
      BY ONLY <3>3
  <2>10. Sound(g) /\ g.s = h.s
    BY CancelSound, Zenon
  <2> QED
    BY <2>2, <2>4, <2>5, <2>6, <2>7, <2>8, <2>9, <2>10, SoundType, Zenon DEF Withdraws

\* An assignment to fields that names no other order.
<1>FieldsFlow. ASSUME NEW h, Sound(h), NEW g, g.o = h.o, g.n = h.n, g.c = h.c,
                      g.s.sl_order_id = h.s.sl_order_id, g.s.entry_order_id = h.s.entry_order_id,
                      g.s.entry_side = h.s.entry_side,
                      NEW ev, NEW w, NEW p, NEW r, Flow(h, ev, w, p, r)
               PROVE  Flow(g, ev, w, p, r)
  <2> USE <1>FieldsFlow
  <2>1. \A t \in {"ENTRY", "SL", "CLOSE"} : Tagged(g, t) = Tagged(h, t)
    BY SameAsks, Zenon
  <2>2. Ordered(g, 6)
    BY SameAsks DEF Flow, Lanes
  <2>3. Lanes(g, ev, w, p)
    BY <2>2 DEF Flow, Lanes
  <2>4. Accounted(g, ev, p) /\ Known(g, r) /\ Waits(g, ev, w, r)
    BY DEF Flow, Trade, Accounted, Known, Waits
  <2>5. Covered(g, ev, w, p, r)
    BY <2>1, Zenon DEF Flow, Trade, Covered
  <2>6. Enters(g, ev, r) /\ Ends(g, ev, w, p, r)
    BY <2>1 DEF Flow, Trade, Enters, Ends
  <2>7. Replaces(g, w, p, r)
    BY <2>1, Zenon DEF Flow, Trade, Replaces
  <2> QED
    BY <2>3, <2>4, <2>5, <2>6, <2>7, Zenon DEF Flow, Trade

\* _update_trailing_sl: the stop that is open is replaced.
<1>MoveFlow. ASSUME NEW h, Sound(h), NEW ev, NEW w, NEW p, Venue(h, ev, w), Flow(h, ev, w, p, TRUE),
                    h.s.sl_order_id # None, is_open(h.o[h.s.sl_order_id]), h.s.entry_side \in Side,
                    NEW k, k = cancel_order(h, h.s.sl_order_id),
                    NEW trigger \in Int,
                    NEW m, m = submit_order(k, "SL", -h.s.entry_side, 1, trigger),
                    NEW g, Sound(g), g.o = m.o, g.n = m.n, g.c = m.c,
                    g.s.sl_order_id = Len(m.o), g.s.entry_order_id = h.s.entry_order_id,
                    g.s.entry_side = h.s.entry_side
             PROVE  Trails(h, g, ev, w, p)
  <2> USE <1>MoveFlow
  <2> DEFINE sl == h.s.sl_order_id
             N == Len(h.o) + 1
  <2>0. /\ Len(h.o) \in Nat /\ sl \in 1 .. Len(h.o) /\ -h.s.entry_side \in Side
    <3>1. h.s \in Fields /\ Len(h.o) \in Nat /\ sl <= Len(h.o)
      BY SoundType, Zenon
    <3>2. sl \in Nat
      BY <3>1, Zenon DEF Fields
    <3>3. sl # None /\ h.s.entry_side \in Side
      BY Zenon
    <3> QED
      BY ONLY <3>1, <3>2, <3>3 DEF None, Side
  <2>1. h.o[sl].status = "ACCEPTED"
    BY Zenon DEF is_open, Flow, Trade, Waits
  <2>2. /\ sl \notin Asked(h.c, "submit") /\ sl \notin Told(ev, "Rejected")
        /\ (w = {sl} \/ sl \in Told(ev, "Filled"))
    BY <2>1, Zenon DEF Flow, Lanes, Trade, Waits
  <2>3. /\ h.c = << >> /\ Asked(h.c, "submit") = {} /\ Asked(h.c, "cancel") = {}
        /\ Asked(h.c, "cancel_all") = {}
        /\ \A t \in {"ENTRY", "SL", "CLOSE"} : Tagged(h, t) = {}
    BY <2>2, StopAlone, Zenon
  <2>4. Withdraws(h, k, sl)
    BY <2>0, <2>1, <1>CancelAsks, Zenon
  <2>5. Submits(k, m, "SL", -h.s.entry_side, 1)
    BY <2>0, <2>4, SubmitAsks, Zenon DEF Withdraws
  <2>6. /\ Sound(k) /\ Sound(m) /\ Keeps(h, k) /\ Keeps(k, m) /\ Len(k.o) = Len(h.o) /\ m.n = h.n
        /\ Len(m.o) = N
    BY <2>4, <2>5, Zenon DEF Withdraws, Submits
  <2>7. Keeps(h, g) /\ g.n = h.n
    <3>1. Keeps(h, m)
      BY <2>6, KeepsOn, Zenon
    <3>2. Keeps(h, g)
      BY <3>1, Zenon DEF Keeps
    <3> QED
      BY <2>6, <3>2, Zenon
  <2>8. /\ g.o[N].tag = "SL" /\ g.o[N].side = -h.s.entry_side /\ g.o[N].status = "SUBMITTED"
        /\ Asked(g.c, "submit") = {N} /\ Asked(g.c, "cancel") = {sl} /\ Asked(g.c, "cancel_all") = {}
    BY <2>3, <2>4, <2>5, <2>6, Zenon DEF Withdraws, Submits
  <2>9. Tagged(g, "SL") = {N} /\ Tagged(g, "CLOSE") = {} /\ Tagged(g, "ENTRY") = {}
    <3>1. Tagged(m, "SL") = {N} /\ Tagged(m, "CLOSE") = {} /\ Tagged(m, "ENTRY") = {}
      BY <2>3, <2>4, <2>5, <2>6, Zenon DEF Withdraws, Submits
    <3>2. \A t \in {"ENTRY", "SL", "CLOSE"} : Tagged(g, t) = Tagged(m, t)
      <4>1. Sound(m) /\ g.o = m.o /\ g.c = m.c
        BY <2>6, Zenon
      <4> QED
        BY ONLY <4>1, SameAsks, Zenon
    <3> QED
      BY <3>1, <3>2, Zenon
  <2>10. Ordered(g, 6)
    <3>1. Ordered(h, 1)
      BY <2>3, Idle, Zenon
    <3>2. Ordered(k, 2)
      BY <2>4, <3>1, Zenon DEF Withdraws
    <3>t. TagRank("SL") = 2
      BY Zenon DEF TagRank
    <3>s. Ordered(k, TagRank("SL")) => Ordered(m, TagRank("SL") + 1)
      BY <2>5, Zenon DEF Submits
    <3>3. Ordered(m, 3)
      BY ONLY <3>2, <3>t, <3>s
    <3>4. Ordered(m, 6)
      BY ONLY <3>3, OrderedMore, SMTT(30)
    <3> QED
      BY <3>4, SoundType, Zenon DEF Ordered
  <2>11. Lanes(g, ev, w, p)
    <3>1. N > Len(h.o)
      BY ONLY <2>0
    <3>2. \A i \in Asked(g.c, "submit") : i > Len(h.o) /\ g.o[i].status = "SUBMITTED"
      BY <2>8, <3>1, Zenon
    <3>3. Lanes(h, ev, w, p)
      BY Zenon DEF Flow
    <3> QED
      BY <2>7, <2>10, <3>2, <3>3, LanesKept, Zenon
  <2>12. Accounted(g, ev, p)
    BY <2>7, AccountedKept, Zenon DEF Flow, Trade
  <2>13. N \notin Told(ev, "Filled") /\ N \notin Told(ev, "Rejected") /\ N # None
    <3>1. ev \in Seq(VenueEvent(Len(h.o)))
      BY Zenon DEF Venue
    <3> QED
      BY ONLY <2>0, <3>1, ToldExist DEF None
  <2>14. h.s.entry_order_id \notin Told(ev, "Filled")
    BY Zenon DEF Flow, Trade, Ends
  <2>15. p # 0 => h.s.entry_side = p
    BY <2>3, <2>14, Zenon DEF Flow, Trade, Covered
  <2>16. Known(g, TRUE)
    <3>1. h.s.entry_order_id \in 0 .. Len(h.o)
      BY SoundType, Zenon
    <3>2. ASSUME h.s.entry_order_id # None
          PROVE  g.o[h.s.entry_order_id].tag = "ENTRY"
      <4>1. h.s.entry_order_id \in 1 .. Len(h.o)
        BY ONLY <3>1, <3>2 DEF None
      <4>2. h.o[h.s.entry_order_id].tag = "ENTRY"
        BY <3>2, Zenon DEF Flow, Trade, Known
      <4> QED
        BY <2>7, <4>1, <4>2, Zenon DEF Keeps
    <3> QED
      BY <2>6, <2>8, <3>2, Zenon DEF Known
  <2>17. Covered(g, ev, w, p, TRUE)
    BY <2>6, <2>8, <2>9, <2>13, <2>15, Zenon DEF Covered
  <2>18. Waits(g, ev, w, TRUE)
    BY <2>6, <2>8, Zenon DEF Waits
  <2>19. Enters(g, ev, TRUE)
    BY <2>9, Zenon DEF Enters
  <2>20. Ends(g, ev, w, p, TRUE)
    BY <2>6, <2>13, <2>14, Zenon DEF Ends, Flow, Trade
  <2>21. w = {} \/ w = {sl}
    BY <2>2, Zenon DEF Flow, Trade, Ends
  <2>22. Replaces(g, w, p, TRUE)
    BY <2>8, <2>9, <2>15, <2>21, Zenon DEF Replaces
  <2>23. w # {} \/ Told(ev, "Filled") # {}
    BY <2>2, Zenon
  <2>24. Flow(g, ev, w, p, TRUE)
    BY <2>11, <2>12, <2>16, <2>17, <2>18, <2>19, <2>20, <2>22, Zenon DEF Flow, Trade
  <2> QED
    BY <2>6, <2>7, <2>13, <2>23, <2>24, Zenon DEF Trails

\* _update_trailing_sl: the stop stays, or the one that is open is replaced.
<1>UpdateFlow.
     ASSUME NEW h, Sound(h), NEW ev, NEW w, NEW p, Venue(h, ev, w), Flow(h, ev, w, p, TRUE),
            h.s.sl_order_id # None, h.s.entry_side \in Side, NEW px \in Int,
            NEW g, g = _update_trailing_sl(h, px)
     PROVE  Trails(h, g, ev, w, p)
  <2> USE <1>UpdateFlow
  <2> DEFINE k == cancel_order(h, h.s.sl_order_id)
             m == submit_order(k, "SL", -h.s.entry_side, 1, Price(px))
  <2>0. Sound(g)
    BY UpdateSound, Zenon DEF None
  <2>1. CASE ~is_open(h.o[h.s.sl_order_id])
    <3>1. g = h
      BY <2>1, Zenon DEF _update_trailing_sl
    <3> QED
      BY <3>1, SameAsks, Zenon DEF Trails
  <2>2. CASE is_open(h.o[h.s.sl_order_id])
    <3>1. g = [m EXCEPT !.s.sl_order_id = Len(m.o), !.s.trail_px = px]
      BY <2>2, Zenon DEF _update_trailing_sl
    <3>2. Price(px) \in Int
      BY PriceInt, Zenon
    <3>3. h.s.sl_order_id \in 1 .. Len(h.o) /\ -h.s.entry_side \in Side
      <4>1. h.s \in Fields /\ Len(h.o) \in Nat /\ h.s.sl_order_id <= Len(h.o)
        BY SoundType, Zenon
      <4>2. h.s.sl_order_id \in Nat
        BY <4>1, Zenon DEF Fields
      <4> QED
        BY <4>1, <4>2 DEF None, Side
    <3>4. Sound(k) /\ k.s = h.s
      BY <3>3, CancelSound, Zenon
    <3>k. k = cancel_order(h, h.s.sl_order_id) /\ m = submit_order(k, "SL", -h.s.entry_side, 1, Price(px))
      BY Zenon
    <3> HIDE DEF k, m
    <3>5. Sound(m) /\ m.s = k.s
      <4>1. Submits(k, m, "SL", -h.s.entry_side, 1)
        BY <3>2, <3>3, <3>4, <3>k, SubmitAsks, Zenon
      <4> QED
        BY <4>1, Zenon DEF Submits
    <3>6. /\ g.o = m.o /\ g.n = m.n /\ g.c = m.c /\ g.s.sl_order_id = Len(m.o)
          /\ g.s.entry_order_id = h.s.entry_order_id /\ g.s.entry_side = h.s.entry_side
      <4>1. m \in Handler /\ m.s \in Fields
        BY <3>5, Zenon DEF Sound, Handler
      <4>2. /\ g.o = m.o /\ g.n = m.n /\ g.c = m.c
            /\ g.s = [m.s EXCEPT !.sl_order_id = Len(m.o), !.trail_px = px]
        BY <3>1, <4>1, Zenon DEF Handler
      <4>3. /\ g.s.sl_order_id = Len(m.o) /\ g.s.entry_order_id = m.s.entry_order_id
            /\ g.s.entry_side = m.s.entry_side
        BY <4>1, <4>2, Zenon DEF Fields
      <4> QED
        BY <3>4, <3>5, <4>2, <4>3, Zenon
    <3> QED
      BY <2>0, <2>2, <3>2, <3>6, <3>k, <1>MoveFlow, Zenon
  <2> QED
    BY <2>1, <2>2, Zenon

\* trail: the same.
<1>TrailFlow. ASSUME NEW h, Sound(h), NEW px \in Int, NEW ev, NEW w, NEW p, Venue(h, ev, w),
                     Flow(h, ev, w, p, TRUE), NEW g, g = trail(h, px)
              PROVE  Trails(h, g, ev, w, p)
  <2> USE <1>TrailFlow
  <2>0. /\ h \in Handler /\ h.s \in Fields /\ Len(h.o) \in Nat
        /\ h.s.entry_side \in Side \cup {None} /\ h.s.entry_side \in Int
        /\ h.s.peak_px \in Int /\ h.s.trail_px \in Int /\ h.s.entry_px \in Int
        /\ h.s.sl_distance \in Int /\ h.s.trail_active \in BOOLEAN
    BY SoundType, Zenon DEF Side, None
  <2>1. CASE h.s.sl_order_id = None \/ h.s.entry_side = None \/ h.s.peak_px = 0
    <3>1. g = h
      BY <2>1, Zenon DEF trail
    <3> QED
      BY <3>1, SameAsks, Zenon DEF Trails
  <2>2. CASE ~(h.s.sl_order_id = None \/ h.s.entry_side = None \/ h.s.peak_px = 0)
    <3> DEFINE side == h.s.entry_side
               active == h.s.trail_active \/ side * (px - h.s.entry_px) >= h.s.sl_distance
               new_peak == IF side * (px - h.s.peak_px) > 0 THEN px ELSE h.s.peak_px
               new_trail == new_peak - side * h.s.sl_distance
               activated == [h EXCEPT !.s.trail_active = active]
               f == [h.s EXCEPT !.trail_active = active]
               raised == [activated EXCEPT !.s.peak_px = new_peak]
               k == [f EXCEPT !.peak_px = new_peak]
    <3>1. \/ g = _update_trailing_sl(raised, new_trail)
          \/ g = activated
      BY <2>2, Zenon DEF trail
    <3>0. /\ side \in Side /\ active \in BOOLEAN
          /\ new_peak \in Int /\ new_trail \in Int
      <4>1. side \in Side /\ side \in Int
        BY <2>0, <2>2, Zenon DEF Side, None
      <4> HIDE DEF side
      <4>2. active \in BOOLEAN
        BY <2>0, Zenon
      <4>3. new_peak \in Int
        BY <2>0, Zenon
      <4> HIDE DEF new_peak
      <4>4. new_trail \in Int
        BY ONLY <2>0, <4>1, <4>3
      <4> QED
        BY <4>1, <4>2, <4>3, <4>4, Zenon
    <3> HIDE DEF active, new_peak, new_trail
    <3>2. /\ f \in Fields /\ f.entry_order_id = h.s.entry_order_id
          /\ f.sl_order_id = h.s.sl_order_id /\ f.trail_px = h.s.trail_px
          /\ f.entry_side = h.s.entry_side
      BY <2>0, <3>0, Zenon DEF Fields
    <3>3. activated \in [s : {f}, o : {h.o}, n : {h.n}, c : {h.c}]
      BY <2>0, Zenon DEF Handler
    <3> HIDE DEF f
    <3>4. /\ k \in Fields /\ k.entry_order_id = h.s.entry_order_id
          /\ k.sl_order_id = h.s.sl_order_id /\ k.trail_px = h.s.trail_px
          /\ k.entry_side = h.s.entry_side
      BY <3>0, <3>2, Zenon DEF Fields
    <3>5. raised \in [s : {k}, o : {h.o}, n : {h.n}, c : {h.c}]
      BY <3>3, Zenon
    <3> HIDE DEF activated, raised, k
    <3>6. CASE g = activated
      <4>1. g.s = f /\ g.o = h.o /\ g.n = h.n /\ g.c = h.c
        BY <3>3, <3>6, Zenon
      <4>2. Flow(g, ev, w, p, TRUE)
        BY <3>2, <4>1, <1>FieldsFlow, Zenon
      <4> QED
        BY <4>1, <4>2, SameAsks, Zenon DEF Trails
    <3>7. CASE g = _update_trailing_sl(raised, new_trail)
      <4>1. raised.s = k /\ raised.o = h.o /\ raised.n = h.n /\ raised.c = h.c
        BY <3>5, Zenon
      <4>2. Flow(raised, ev, w, p, TRUE)
        BY <3>4, <4>1, <1>FieldsFlow, Zenon
      <4>3. Sound(raised)
        BY <3>4, <3>5, FieldsSound DEF Sound
      <4>4. Venue(raised, ev, w)
        BY <4>1, Zenon DEF Venue
      <4>5. raised.s.sl_order_id # None /\ raised.s.entry_side \in Side
        BY <2>2, <3>0, <3>4, <4>1, Zenon
      <4>6. Trails(raised, g, ev, w, p)
        BY <3>0, <3>7, <4>2, <4>3, <4>4, <4>5, <1>UpdateFlow, Zenon
      <4>7. Keeps(h, g)
        BY ONLY <4>1, <4>6 DEF Trails, Keeps
      <4> QED
        BY <4>1, <4>6, <4>7, Zenon DEF Trails
    <3> QED
      BY <3>1, <3>6, <3>7, Zenon
  <2> QED
    BY <2>1, <2>2, Zenon

\* The second.
<1>EnterAsks. ASSUME NEW h, Sound(h), NEW side \in Side, NEW g, g = _enter(h, side)
              PROVE  Opens(h, g, side)
  <2> USE <1>EnterAsks
  <2> DEFINE m == submit_order(h, "ENTRY", side, 1, 0)
             N == Len(h.o) + 1
  <2>0. Sound(g)
    BY EnterSound, Zenon
  <2>1. Submits(h, m, "ENTRY", side, 1)
    BY SubmitAsks
  <2>2. g = [m EXCEPT !.s.entry_order_id = Len(m.o), !.s.entry_side = side]
    BY Zenon DEF _enter
  <2> HIDE DEF m
  <2>3. Sound(m) /\ m \in Handler /\ m.s \in Fields /\ m.s = h.s /\ Len(m.o) = N
    BY <2>1, Zenon DEF Submits, Sound, Handler
  <2>4. /\ g.o = m.o /\ g.n = m.n /\ g.c = m.c
        /\ g.s = [m.s EXCEPT !.entry_order_id = Len(m.o), !.entry_side = side]
    BY <2>2, <2>3, Zenon DEF Handler
  <2>5. g.s.entry_order_id = N /\ g.s.entry_side = side /\ g.s.sl_order_id = h.s.sl_order_id
    BY ONLY <2>3, <2>4 DEF Fields
  <2>6. /\ \A t \in {"ENTRY", "SL", "CLOSE"} : Tagged(g, t) = Tagged(m, t)
        /\ \A r : Ordered(m, r) => Ordered(g, r)
    BY ONLY <2>3, <2>4, SameAsks
  <2>7. /\ m.n = h.n /\ Keeps(h, m) /\ m.o[N].tag = "ENTRY" /\ m.o[N].side = side
        /\ m.o[N].status = "SUBMITTED"
        /\ Asked(m.c, "submit") = Asked(h.c, "submit") \cup {N}
        /\ Asked(m.c, "cancel") = Asked(h.c, "cancel")
        /\ Asked(m.c, "cancel_all") = Asked(h.c, "cancel_all")
        /\ Tagged(m, "ENTRY") = Tagged(h, "ENTRY") \cup {N}
        /\ \A t \in {"SL", "CLOSE"} : Tagged(m, t) = Tagged(h, t)
    BY <2>1, Zenon DEF Submits
  <2>8. Ordered(h, 5) => Ordered(g, 6)
    <3>1. TagRank("ENTRY") = 5
      BY Zenon DEF TagRank
    <3>2. Ordered(h, TagRank("ENTRY")) => Ordered(m, TagRank("ENTRY") + 1)
      BY <2>1, Zenon DEF Submits
    <3>3. Ordered(h, 5) => Ordered(m, 6)
      BY ONLY <3>1, <3>2
    <3> QED
      BY <2>6, <3>3, Zenon
  <2>9. Keeps(h, g)
    BY ONLY <2>4, <2>7 DEF Keeps
  <2> QED
    BY ONLY <2>0, <2>3, <2>4, <2>5, <2>6, <2>7, <2>8, <2>9 DEF Opens

\* _enter on a bar when nothing is on its way: there was no position and no stop.
<1>EnterFlow.
     ASSUME NEW h, Sound(h), NEW ev, ev = << >>, NEW w, NEW p, Venue(h, ev, w), Flow(h, ev, w, p, TRUE),
            h.c = << >> \/ w # {}, h.n = 0, NEW side \in Side, NEW g, g = _enter(h, side)
     PROVE  Flow(g, ev, w, p, TRUE)
  <2> USE <1>EnterFlow
  <2> DEFINE N == Len(h.o) + 1
  <2>0. Len(h.o) \in Nat /\ \A is : Told(ev, is) = {}
    BY NothingAsked, SoundType, Zenon
  <2>1. p = 0
    BY <2>0, Zenon DEF Flow, Trade, Accounted
  <2>2. w = {}
    BY <2>1, StopMeansPosition, Zenon DEF Flow
  <2>3. /\ \A do : Asked(h.c, do) = {} /\ \A t \in {"ENTRY", "SL", "CLOSE"} : Tagged(h, t) = {}
        /\ Ordered(h, 5)
    BY <2>2, Idle, Zenon
  <2>4. h.s.sl_order_id = None
    BY <2>0, <2>2, <2>3, Zenon DEF Flow, Trade, Waits
  <2>5. Opens(h, g, side)
    BY <1>EnterAsks, Zenon
  <2>6. /\ g.s.entry_order_id = N /\ g.s.entry_side = side /\ g.s.sl_order_id = None
        /\ g.n = h.n /\ Sound(g) /\ Keeps(h, g)
        /\ g.o[N].tag = "ENTRY" /\ g.o[N].side = side /\ g.o[N].status = "SUBMITTED"
        /\ Asked(g.c, "submit") = {N} /\ Asked(g.c, "cancel") = {} /\ Asked(g.c, "cancel_all") = {}
        /\ Tagged(g, "ENTRY") = {N} /\ Tagged(g, "SL") = {} /\ Tagged(g, "CLOSE") = {}
        /\ Ordered(g, 6)
    BY <2>3, <2>4, <2>5, Zenon DEF Opens
  <2>7. Lanes(g, ev, w, p)
    BY <2>0, <2>6, LanesKept DEF Flow
  <2>8. Accounted(g, ev, p)
    BY <2>6, AccountedKept, Zenon DEF Flow, Trade
  <2>9. Known(g, TRUE) /\ Covered(g, ev, w, p, TRUE) /\ Waits(g, ev, w, TRUE)
    BY <2>1, <2>6, Zenon DEF Known, Covered, Waits
  <2>10. Enters(g, ev, TRUE)
    BY <2>0, <2>6, Zenon DEF Enters
  <2>11. Ends(g, ev, w, p, TRUE)
    BY <2>0, <2>2, Zenon DEF Ends
  <2>12. Replaces(g, w, p, TRUE)
    BY <2>1, <2>6, Zenon DEF Replaces
  <2> QED
    BY <2>7, <2>8, <2>9, <2>10, <2>11, <2>12, Zenon DEF Flow, Trade

\* While a stop is waited for, only a stop is asked for.
<1>OnlyStop.
     ASSUME NEW h, Sound(h), NEW ev, NEW w, NEW p, Flow(h, ev, w, p, TRUE), h.s.sl_order_id # None
     PROVE  Ordered(h, 3) /\ Tagged(h, "CLOSE") = {} /\ Tagged(h, "ENTRY") = {}
  <2> USE <1>OnlyStop
  <2> DEFINE sl == h.s.sl_order_id
  <2>1. /\ Asked(h.c, "submit") \subseteq {sl} /\ Asked(h.c, "cancel_all") = {} /\ h.o[sl].tag = "SL"
    BY Zenon DEF Flow, Trade, Waits, Known
  <2>2. Tagged(h, "CLOSE") = {} /\ Tagged(h, "ENTRY") = {}
    BY <2>1, Zenon DEF Tagged
  <2>3. ASSUME NEW k \in 1 .. Len(h.c)
        PROVE  Rank(h.o, h.c[k]) < 3
    <3>1. h.c[k] \in Command
      BY SoundType, Zenon
    <3>2. h.c[k].id \in Asked(h.c, h.c[k].do)
      BY Zenon DEF Asked
    <3>3. CASE h.c[k].do = "cancel"
      BY ONLY <3>3, RankType
    <3>4. CASE h.c[k].do = "cancel_all"
      BY <2>1, <3>2, <3>4, Zenon
    <3>5. CASE h.c[k].do = "submit"
      <4>1. h.o[h.c[k].id].tag = "SL"
        BY <2>1, <3>2, <3>5, Zenon
      <4>2. Rank(h.o, h.c[k]) = TagRank("SL")
        BY ONLY <3>5, <4>1, RankType
      <4> QED
        BY ONLY <4>2 DEF TagRank
    <3> QED
      BY ONLY <3>1, <3>3, <3>4, <3>5 DEF Command, CancelAll
  <2>4. Ordered(h, 3)
    BY <2>3, Zenon DEF Flow, Lanes, Ordered
  <2> QED
    BY <2>2, <2>4, Zenon

\* _exit_and_reverse does so, and nothing but cancels and a stop is before it.
<1>DropAsks.
     ASSUME NEW h, Sound(h), NEW ev, NEW w, NEW p, Flow(h, ev, w, p, TRUE), h.s.sl_order_id # None,
            NEW k, k = IF is_open(h.o[h.s.sl_order_id]) THEN cancel_order(h, h.s.sl_order_id) ELSE h
     PROVE  Drops(h, k)
  <2> USE <1>DropAsks
  <2> DEFINE sl == h.s.sl_order_id
  <2>1. sl \in 1 .. Len(h.o)
    <3>1. h.s \in Fields /\ Len(h.o) \in Nat /\ sl <= Len(h.o)
      BY SoundType, Zenon
    <3>2. sl \in Nat
      BY <3>1, Zenon DEF Fields
    <3> QED
      BY <3>1, <3>2 DEF None
  <2>2. CASE ~is_open(h.o[sl])
    <3>1. k = h
      BY <2>2, Zenon
    <3> QED
      BY <3>1, <1>OnlyStop, SameAsks, Zenon DEF Drops
  <2>3. CASE is_open(h.o[sl])
    <3>1. k = cancel_order(h, sl)
      BY <2>3, Zenon
    <3>2. h.o[sl].status = "ACCEPTED"
      BY <2>3, Zenon DEF is_open, Flow, Trade, Waits
    <3>3. sl \notin Asked(h.c, "submit")
      BY <3>2, Zenon DEF Flow, Lanes
    <3>4. h.c = << >>
      BY <3>3, StopAlone, Zenon
    <3>5. Ordered(h, 1)
      BY <3>4, Idle, Zenon
    <3>6. Withdraws(h, k, sl)
      BY <2>1, <3>1, <3>2, <1>CancelAsks, Zenon
    <3>7. Ordered(k, 2)
      BY <3>5, <3>6, Zenon DEF Withdraws
    <3>8. Ordered(k, 3)
      BY ONLY <3>7, OrderedMore
    <3> QED
      BY <3>6, <3>8, Zenon DEF Withdraws, Drops
  <2> QED
    BY <2>2, <2>3, Zenon

\* _exit_and_reverse after that cancel gives its commands in order.
<1>ReverseAsks.
     ASSUME NEW h, Sound(h), NEW ev, NEW w, NEW p, Flow(h, ev, w, p, TRUE), h.s.sl_order_id # None,
            h.n \in {-1, 1}, h.o[h.s.sl_order_id].status \in {"SUBMITTED", "ACCEPTED", "PENDING_CANCEL"},
            NEW side \in Side, NEW g, g = _exit_and_reverse(h, side)
     PROVE  Reverses(h, g, side)
  <2> USE <1>ReverseAsks
  <2> DEFINE sl == h.s.sl_order_id
             N  == Len(h.o) + 1
             k  == IF is_open(h.o[sl]) THEN cancel_order(h, sl) ELSE h
             q  == close_all_positions(cancel_all_orders(k))
             t  == [q EXCEPT !.s = trade_over(@)]
  <2>0. sl \in 1 .. Len(h.o) /\ Len(h.o) \in Nat
    <3>1. h.s \in Fields /\ Len(h.o) \in Nat /\ sl <= Len(h.o)
      BY SoundType, Zenon
    <3>2. sl \in Nat
      BY <3>1, Zenon DEF Fields
    <3> QED
      BY <3>1, <3>2 DEF None
  <2>1. g = _enter(t, side)
    BY Zenon DEF _exit_and_reverse
  <2>2. Drops(h, k)
    BY <1>DropAsks, Zenon
  <2>3. Sound(k)
    BY <2>2, Zenon DEF Drops
  <2> HIDE DEF k
  <2>4. Quits(k, q)
    BY <2>3, QuitAsks, Zenon
  <2>5. Sound(q)
    BY <2>4, Zenon DEF Quits
  <2> HIDE DEF q
  <2>6. /\ Sound(t) /\ t.o = q.o /\ t.n = q.n /\ t.c = q.c
        /\ t.s.sl_order_id = None /\ t.s.entry_order_id = q.s.entry_order_id
    BY <2>5, OverAsks, Zenon
  <2> HIDE DEF t
  <2>7. Opens(t, g, side)
    BY <2>1, <2>6, <1>EnterAsks, Zenon
  <2>8. /\ Keeps(q, t) /\ \A x \in {"ENTRY", "SL", "CLOSE"} : Tagged(t, x) = Tagged(q, x)
        /\ Ordered(q, 5) => Ordered(t, 5)
    BY ONLY <2>5, <2>6, SameAsks
  <2>9. /\ k.n = h.n /\ Keeps(h, k) /\ Len(k.o) = Len(h.o) /\ Asked(k.c, "submit") = Asked(h.c, "submit")
        /\ Asked(h.c, "cancel") \subseteq Asked(k.c, "cancel") /\ Ordered(k, 3)
        /\ Tagged(k, "SL") = Tagged(h, "SL") /\ Tagged(k, "CLOSE") = {} /\ Tagged(k, "ENTRY") = {}
    BY <2>2, <1>OnlyStop, Zenon DEF Drops
  <2>10. k.o[sl].status \in {"SUBMITTED", "ACCEPTED", "PENDING_CANCEL"}
    BY <2>0, <2>9, Zenon DEF Keeps
  <2>11. /\ q.n = h.n /\ Keeps(k, q) /\ Len(q.o) = N
         /\ q.o[N].tag = "CLOSE" /\ q.o[N].status = "SUBMITTED" /\ q.o[N].side = -h.n
         /\ q.o[N].quantity = 1
         /\ Asked(q.c, "submit") = Asked(h.c, "submit") \cup {N}
         /\ Asked(h.c, "cancel") \subseteq Asked(q.c, "cancel")
         /\ Asked(q.c, "cancel_all") # {} /\ Ordered(q, 5)
         /\ Tagged(q, "SL") = Tagged(h, "SL") /\ Tagged(q, "CLOSE") = {N} /\ Tagged(q, "ENTRY") = {}
    <3>1. h.n # 0
      OBVIOUS
    <3>2. /\ q.n = k.n /\ Keeps(k, q) /\ Asked(q.c, "cancel") = Asked(k.c, "cancel")
          /\ Asked(q.c, "cancel_all") # {} /\ Ordered(q, 5)
          /\ Tagged(q, "SL") = Tagged(k, "SL") /\ Tagged(q, "ENTRY") = Tagged(k, "ENTRY")
      BY <2>0, <2>4, <2>9, <2>10, Zenon DEF Quits
    <3>3. /\ Len(q.o) = N /\ q.o[N].tag = "CLOSE" /\ q.o[N].status = "SUBMITTED"
          /\ q.o[N].side = -h.n /\ q.o[N].quantity = 1
          /\ Asked(q.c, "submit") = Asked(h.c, "submit") \cup {N}
          /\ Tagged(q, "CLOSE") = Tagged(k, "CLOSE") \cup {N}
      BY <2>4, <2>9, <3>1, Zenon DEF Quits
    <3>4. Tagged(q, "CLOSE") = {N}
      BY <2>9, <3>3, Zenon
    <3> QED
      BY <2>9, <3>2, <3>3, <3>4, Zenon
  <2>12. Keeps(h, t) /\ Len(t.o) = N
    <3>1. Keeps(h, q)
      BY <2>3, <2>5, <2>9, <2>11, KeepsOn, Zenon
    <3> QED
      BY ONLY <2>6, <2>11, <3>1 DEF Keeps
  <2>13. /\ g.n = h.n /\ Sound(g) /\ Keeps(t, g)
         /\ g.s.entry_order_id = N + 1 /\ g.s.entry_side = side /\ g.s.sl_order_id = None
         /\ g.o[N + 1].tag = "ENTRY" /\ g.o[N + 1].side = side /\ g.o[N + 1].status = "SUBMITTED"
         /\ Asked(g.c, "submit") = Asked(t.c, "submit") \cup {N + 1}
         /\ Asked(g.c, "cancel") = Asked(t.c, "cancel")
         /\ Asked(g.c, "cancel_all") = Asked(t.c, "cancel_all")
         /\ Tagged(g, "ENTRY") = Tagged(t, "ENTRY") \cup {N + 1}
         /\ Tagged(g, "SL") = Tagged(t, "SL") /\ Tagged(g, "CLOSE") = Tagged(t, "CLOSE")
         /\ Ordered(t, 5) => Ordered(g, 6)
    BY <2>6, <2>7, <2>11, <2>12, Zenon DEF Opens
  <2>14. Keeps(h, g)
    BY <2>6, <2>12, <2>13, KeepsOn, Zenon
  <2>15. /\ g.o[N].tag = "CLOSE" /\ g.o[N].side = -h.n /\ g.o[N].quantity = 1
         /\ g.o[N].status = "SUBMITTED"
    <3>1. /\ t.o[N].tag = "CLOSE" /\ t.o[N].side = -h.n /\ t.o[N].quantity = 1
          /\ t.o[N].status = "SUBMITTED" /\ N \in 1 .. Len(t.o)
      BY ONLY <2>0, <2>6, <2>11, <2>12
    <3> QED
      BY <2>13, <3>1, SoundType, Zenon DEF Keeps, is_open
  <2>16. Asked(g.c, "submit") = Asked(h.c, "submit") \cup {N, N + 1}
    BY <2>6, <2>11, <2>13, SoundType, Zenon
  <2>17. Asked(h.c, "cancel") \subseteq Asked(g.c, "cancel") /\ Asked(g.c, "cancel_all") # {}
    BY <2>6, <2>11, <2>13, Zenon
  <2>18. Tagged(g, "SL") = Tagged(h, "SL") /\ Tagged(g, "CLOSE") = {N} /\ Tagged(g, "ENTRY") = {N + 1}
    BY <2>8, <2>11, <2>13, Zenon
  <2>19. Ordered(g, 6)
    BY <2>8, <2>11, <2>13, Zenon
  <2> QED
    BY <2>13, <2>14, <2>15, <2>16, <2>17, <2>18, <2>19, Zenon DEF Reverses

\* With nothing on its way but the replacement of the stop at the venue, a position
\* has the stop that is waited for.
<1>QuietStop. ASSUME NEW h, Sound(h), NEW ev, ev = << >>, NEW w, NEW p, Flow(h, ev, w, p, TRUE),
                     h.c = << >> \/ (h.s.sl_order_id # None /\ w # {}), h.n # 0
              PROVE  /\ h.n = p /\ p \in {-1, 1} /\ h.s.sl_order_id # None
                     /\ h.o[h.s.sl_order_id].status \in {"SUBMITTED", "ACCEPTED", "PENDING_CANCEL"}
  <2> USE <1>QuietStop
  <2> DEFINE sl == h.s.sl_order_id
  <2>0. \A is : Told(ev, is) = {}
    BY NothingAsked, Zenon
  <2>1. h.n = p /\ p \in {-1, 1}
    BY <2>0, SoundType, Zenon DEF Flow, Lanes, Trade, Accounted
  <2>2. Tagged(h, "CLOSE") = {}
    BY Idle, <1>OnlyStop, Zenon
  <2>3. sl # None /\ (w = {sl} \/ sl \in Tagged(h, "SL"))
    BY <2>0, <2>1, <2>2, Zenon DEF Flow, Trade, Covered
  <2>4. h.o[sl].status \in {"SUBMITTED", "ACCEPTED", "PENDING_CANCEL"}
    <3>1. CASE w = {sl}
      BY <3>1, Zenon DEF Flow, Lanes
    <3>2. CASE sl \in Tagged(h, "SL")
      BY <3>2, Zenon DEF Flow, Lanes, Tagged
    <3> QED
      BY <2>3, <3>1, <3>2, Zenon
  <2> QED
    BY <2>1, <2>3, <2>4, Zenon

\* _exit_and_reverse on a bar when nothing else is on its way.
<1>ReverseFlow.
     ASSUME NEW h, Sound(h), NEW ev, ev = << >>, NEW w, NEW p, Venue(h, ev, w), Flow(h, ev, w, p, TRUE),
            h.c = << >> \/ (h.s.sl_order_id # None /\ w # {}),
            NEW side \in Side, side * h.n < 0, NEW g, g = _exit_and_reverse(h, side)
     PROVE  Flow(g, ev, w, p, TRUE)
  <2> USE <1>ReverseFlow
  <2> DEFINE N == Len(h.o) + 1
  <2>0. Len(h.o) \in Nat /\ h.n \in Int /\ \A is : Told(ev, is) = {}
    BY NothingAsked, SoundType, Zenon
  <2>1. h.n # 0
    BY <2>0 DEF Side
  <2>2. /\ h.n = p /\ p \in {-1, 1} /\ h.s.sl_order_id # None
        /\ h.o[h.s.sl_order_id].status \in {"SUBMITTED", "ACCEPTED", "PENDING_CANCEL"}
    BY <2>1, <1>QuietStop, Zenon
  <2>3. side = -p
    BY <2>2 DEF Side
  <2>4. Reverses(h, g, side)
    BY <2>2, <1>ReverseAsks, Zenon
  <2>5. /\ g.s.entry_order_id = N + 1 /\ g.s.entry_side = side /\ g.s.sl_order_id = None
        /\ g.n = h.n /\ Sound(g) /\ Keeps(h, g) /\ Ordered(g, 6)
    BY <2>4, Zenon DEF Reverses
  <2>6. /\ g.o[N].tag = "CLOSE" /\ g.o[N].side = -p /\ g.o[N].quantity = 1
        /\ g.o[N].status = "SUBMITTED"
        /\ g.o[N + 1].tag = "ENTRY" /\ g.o[N + 1].side = side /\ g.o[N + 1].status = "SUBMITTED"
    BY <2>2, <2>4, Zenon DEF Reverses
  <2>7. /\ Asked(g.c, "submit") = Asked(h.c, "submit") \cup {N, N + 1}
        /\ Asked(h.c, "cancel") \subseteq Asked(g.c, "cancel")
        /\ Asked(g.c, "cancel_all") # {}
        /\ Tagged(g, "SL") = Tagged(h, "SL") /\ Tagged(g, "CLOSE") = {N} /\ Tagged(g, "ENTRY") = {N + 1}
    BY <2>4, Zenon DEF Reverses
  <2>8. Lanes(g, ev, w, p)
    <3>1. \A i \in Asked(g.c, "submit") :
              i \in Asked(h.c, "submit") \/ (i > Len(h.o) /\ g.o[i].status = "SUBMITTED")
      BY ONLY <2>0, <2>6, <2>7
    <3> QED
      BY <2>5, <3>1, LanesKept, Zenon DEF Flow
  <2>9. Accounted(g, ev, p)
    BY <2>5, AccountedKept, Zenon DEF Flow, Trade
  <2>10. Known(g, TRUE) /\ Waits(g, ev, w, TRUE)
    BY <2>5, <2>6, Zenon DEF Known, Waits
  <2>11. Covered(g, ev, w, p, TRUE)
    BY <2>6, <2>7, Zenon DEF Covered
  <2>12. Enters(g, ev, TRUE)
    BY ONLY <2>0, <2>3, <2>5, <2>6, <2>7 DEF Enters
  <2>13. Ends(g, ev, w, p, TRUE)
    BY <2>0, Zenon DEF Ends
  <2>14. Replaces(g, w, p, TRUE)
    <3>1. \A i \in Tagged(h, "SL") : i \in 1 .. Len(h.o) /\ h.o[i].side = -p
      BY <2>2, AskedExist DEF Flow, Trade, Replaces, Tagged
    <3>2. \A i \in Tagged(h, "SL") : g.o[i].side = -p
      BY <2>5, <3>1, Zenon DEF Keeps
    <3>3. Tagged(h, "SL") # {} => w \subseteq Asked(h.c, "cancel")
      BY Zenon DEF Flow, Trade, Replaces
    <3> QED
      BY <2>7, <3>2, <3>3, Zenon DEF Replaces
  <2> QED
    BY <2>8, <2>9, <2>10, <2>11, <2>12, <2>13, <2>14, Zenon DEF Flow, Trade

\* cross: the trade goes on, or an order is made when nothing else is on its way.
<1>CrossFlow.
     ASSUME NEW h, Sound(h), NEW ev, NEW w, NEW p, Venue(h, ev, w), Flow(h, ev, w, p, TRUE),
            NEW bullish \in {"Bullish", "Bearish"}, NEW g, g = cross(h, bullish),
            g.o # h.o => ev = << >> /\ (h.c = << >> \/ (h.s.sl_order_id # None /\ w # {}))
     PROVE  Flow(g, ev, w, p, TRUE)
  <2> USE <1>CrossFlow
  <2> DEFINE side == IF bullish = "Bullish" THEN 1 ELSE -1
             f    == [h.s EXCEPT !.prev_bullish = bullish]
             seen == [h EXCEPT !.s.prev_bullish = bullish]
  <2>0. h \in Handler /\ h.s \in Fields /\ Len(h.o) \in Nat /\ h.n \in Int
    BY SoundType, Zenon
  <2>1. side \in Side
    BY Zenon DEF Side
  <2>2. \/ g = seen
        \/ g = _enter(seen, side) /\ h.n = 0
        \/ g = _exit_and_reverse(seen, side) /\ side * h.n < 0
    BY DEF cross
  <2> HIDE DEF side
  <2>3. /\ f \in Fields /\ f.sl_order_id = h.s.sl_order_id /\ f.entry_order_id = h.s.entry_order_id
        /\ f.entry_side = h.s.entry_side /\ f.trail_px = h.s.trail_px
    BY <2>0, Zenon DEF Fields
  <2>4. seen \in [s : {f}, o : {h.o}, n : {h.n}, c : {h.c}]
    BY <2>0, Zenon DEF Handler
  <2> HIDE DEF f, seen
  <2>5. seen.s = f /\ seen.o = h.o /\ seen.n = h.n /\ seen.c = h.c
    BY <2>4, Zenon
  <2>6. Sound(seen)
    BY <2>3, <2>4, FieldsSound DEF Sound
  <2>7. Flow(seen, ev, w, p, TRUE) /\ Venue(seen, ev, w)
    BY <2>3, <2>5, <1>FieldsFlow, Zenon DEF Venue
  <2>8. seen.s.sl_order_id = h.s.sl_order_id
    BY <2>3, <2>5, Zenon
  <2>9. CASE g = _enter(seen, side) /\ h.n = 0
    <3>1. Opens(seen, g, side)
      BY <2>1, <2>6, <2>9, <1>EnterAsks, Zenon
    <3>2. Len(g.o) = Len(h.o) + 1
      BY <2>5, <3>1, Zenon DEF Opens
    <3>3. g.o # h.o
      BY ONLY <2>0, <3>2
    <3> QED
      BY <2>1, <2>5, <2>6, <2>7, <2>9, <3>3, <1>EnterFlow, Zenon
  <2>10. CASE g = _exit_and_reverse(seen, side) /\ side * h.n < 0
    <3>1. Sound(g) /\ g.s.entry_order_id > Len(h.o)
      BY <2>1, <2>5, <2>6, <2>10, ReverseSound, Zenon
    <3>2. g.s.entry_order_id <= Len(g.o)
      BY <3>1, Zenon DEF Sound
    <3>3. g.s.entry_order_id \in Nat /\ Len(g.o) \in Nat
      <4>1. g.s \in Fields /\ Len(g.o) \in Nat
        BY <3>1, SoundType, Zenon
      <4> QED
        BY <4>1, Zenon DEF Fields
    <3>4. g.o # h.o
      BY ONLY <2>0, <3>1, <3>2, <3>3
    <3> QED
      BY <2>1, <2>5, <2>6, <2>7, <2>8, <2>10, <3>4, <1>ReverseFlow, Zenon
  <2> QED
    BY <2>2, <2>7, <2>9, <2>10, Zenon
<1>1. PICK px \in Prices, bullish \in {"Bullish", "Bearish"} :
         /\ Becomes(cross(trail(Now, px), bullish))
         /\ overtaken' = (overtaken \/ (~Quiet /\ cross(trail(Now, px), bullish).o # trail(Now, px).o))
  BY Zenon DEF on_bar
<1> DEFINE moved  == trail(Now, px)
           traded == cross(moved, bullish)
<1>2. ~overtaken /\ running = TRUE /\ (Quiet \/ traded.o = moved.o)
  BY <1>1, Zenon DEF FlowInv, on_bar
<1>3. px \in Int
  BY ONLY EmaAssumption
<1>4. Sound(Now) /\ Venue(Now, events, working) /\ Flow(Now, events, working, position, TRUE)
  <2>1. Sound(Now) /\ Now.o = orders
    BY NowSound, Zenon DEF FlowInv, IInv
  <2> QED
    BY <1>2, <2>1, Zenon DEF FlowInv, IInv, Venue, OrderIds
<1>5. Sound(moved)
  BY <1>3, <1>4, TrailSound, Zenon
<1>6. Sound(traded)
  BY <1>5, CrossSound, Zenon
<1>7. Trails(Now, moved, events, working, position)
  BY <1>3, <1>4, <1>TrailFlow, Zenon
<1> HIDE DEF moved
<1>8. Flow(moved, events, working, position, TRUE) /\ Venue(moved, events, working)
  <2>1. Flow(moved, events, working, position, TRUE) /\ Len(Now.o) <= Len(moved.o)
    BY <1>7, Zenon DEF Trails, Keeps
  <2>2. Len(Now.o) \in Nat /\ Len(moved.o) \in Nat
    BY <1>4, <1>5, SoundType, Zenon
  <2>3. 1 .. Len(Now.o) \subseteq 1 .. Len(moved.o)
    BY ONLY <2>1, <2>2
  <2>4. VenueEvent(Len(Now.o)) \subseteq VenueEvent(Len(moved.o))
    BY <2>3, Zenon DEF VenueEvent
  <2>5. events \in Seq(VenueEvent(Len(moved.o)))
    BY ONLY <1>4, <2>4 DEF Venue
  <2> QED
    BY <1>4, <2>1, <2>3, <2>5, Zenon DEF Venue
<1>9. ASSUME traded.o # moved.o
      PROVE  /\ events = << >>
             /\ moved.c = << >> \/ (moved.s.sl_order_id # None /\ working # {})
  <2>1. events = << >> /\ Now.c = << >>
    BY <1>2, <1>9, Zenon DEF Quiet, Now
  <2>2. Told(events, "Filled") = {}
    BY <2>1, NothingAsked, Zenon
  <2> QED
    BY <1>7, <2>1, <2>2, Zenon DEF Trails
<1>10. Flow(traded, events, working, position, TRUE)
  BY <1>5, <1>8, <1>9, <1>CrossFlow, Zenon
<1> HIDE DEF traded
<1>11. Becomes(traded)
  BY <1>1, Zenon DEF traded, moved
<1>12. running' = TRUE /\ events' = events /\ VenueUnchanged
  BY <1>2, Zenon DEF on_bar
<1>13. IInv
  BY Zenon DEF FlowInv
<1> QED
  BY <1>6, <1>10, <1>11, <1>12, <1>13, BecomesFlow, Zenon

\* on_stop.
LEMMA on_stopFlow ==
  ASSUME FlowInv, on_stop, ~overtaken'
  PROVE  Flow(Now, events, working, position, running)'

\* on_stop when nothing is on its way: the stop is swept and the position closed.
<1>StopFlow. ASSUME NEW h, Sound(h), h.c = << >>, NEW ev, ev = << >>, NEW w, NEW p, Venue(h, ev, w),
                    Flow(h, ev, w, p, TRUE), NEW g, g = close_all_positions(cancel_all_orders(h))
             PROVE  Flow(g, ev, w, p, FALSE)
  <2> USE <1>StopFlow
  <2> DEFINE N == Len(h.o) + 1
  <2>0. Len(h.o) \in Nat /\ \A is : Told(ev, is) = {}
    BY NothingAsked, SoundType, Zenon
  <2>1. h.n = p /\ p \in {-1, 0, 1}
    BY <2>0, Zenon DEF Flow, Lanes, Trade, Accounted
  <2>2. /\ \A do : Asked(h.c, do) = {} /\ \A t \in {"ENTRY", "SL", "CLOSE"} : Tagged(h, t) = {}
        /\ Ordered(h, 3)
    BY Idle, Zenon
  <2>3. Quits(h, g)
    BY QuitAsks, Zenon
  <2>4. /\ g.n = h.n /\ Sound(g) /\ Keeps(h, g) /\ Asked(g.c, "cancel") = {}
        /\ Tagged(g, "ENTRY") = {} /\ Tagged(g, "SL") = {} /\ Ordered(g, 5)
    BY <2>2, <2>3, Zenon DEF Quits
  <2>5. Ordered(g, 6)
    BY ONLY <2>4, OrderedMore
  <2>6. \A i \in Asked(g.c, "submit") : i > Len(h.o) /\ g.o[i].status = "SUBMITTED"
    BY <2>0, <2>2, <2>3, Zenon DEF Quits
  <2>7. Lanes(g, ev, w, p)
    BY <2>4, <2>5, <2>6, LanesKept, Zenon DEF Flow
  <2>8. Accounted(g, ev, p)
    BY <2>4, AccountedKept, Zenon DEF Flow, Trade
  <2>9. Known(g, FALSE) /\ Waits(g, ev, w, FALSE)
    BY Zenon DEF Known, Waits
  <2>10. Covered(g, ev, w, p, FALSE)
    <3>1. ASSUME p # 0
          PROVE  N \in Tagged(g, "CLOSE") /\ g.o[N].side = -p /\ g.o[N].quantity = 1
      BY <2>1, <2>3, <3>1, Zenon DEF Quits
    <3>2. ASSUME w # {}
          PROVE  Asked(g.c, "cancel_all") # {}
      <4>1. PICK i \in w : i \in 1 .. Len(h.o)
        BY <3>2, Zenon DEF Venue
      <4>2. h.o[i].status \in {"SUBMITTED", "ACCEPTED", "PENDING_CANCEL"}
        BY Zenon DEF Flow, Lanes
      <4> QED
        BY <2>3, <4>1, <4>2, Zenon DEF Quits
    <3> QED
      BY <2>4, <3>1, <3>2, Zenon DEF Covered
  <2>11. Enters(g, ev, FALSE) /\ Ends(g, ev, w, p, FALSE) /\ Replaces(g, w, p, FALSE)
    BY <2>0, <2>4, Zenon DEF Enters, Ends, Replaces
  <2> QED
    BY <2>7, <2>8, <2>9, <2>10, <2>11, Zenon DEF Flow, Trade
<1> DEFINE g == close_all_positions(cancel_all_orders(Now))
<1>1. ~overtaken /\ Quiet /\ running = TRUE
  BY Zenon DEF FlowInv, on_stop
<1>2. Sound(Now) /\ Venue(Now, events, working) /\ Flow(Now, events, working, position, TRUE)
  <2>1. Sound(Now) /\ Now.o = orders
    BY NowSound, Zenon DEF FlowInv, IInv
  <2> QED
    BY <1>1, <2>1, Zenon DEF FlowInv, IInv, Venue, OrderIds
<1>3. events = << >> /\ Now.c = << >>
  BY <1>1, Zenon DEF Quiet, Now
<1>4. Flow(g, events, working, position, FALSE)
  BY <1>2, <1>3, <1>StopFlow, Zenon
<1>5. Quits(Now, g)
  BY <1>2, QuitAsks, Zenon
<1>6. Sound(g)
  BY <1>5, Zenon DEF Quits
<1>7. Becomes(g) /\ running' = FALSE /\ events' = events /\ VenueUnchanged
  BY Zenon DEF on_stop
<1>8. IInv
  BY Zenon DEF FlowInv
<1> HIDE DEF g
<1> QED
  BY <1>4, <1>6, <1>7, <1>8, BecomesFlow, Zenon

\* on_reset.
LEMMA on_resetFlow ==
  ASSUME FlowInv, on_reset, ~overtaken'
  PROVE  Flow(Now, events, working, position, running)'

\* A strategy that does not run waits for nothing, whatever its fields say.
<1>ResetFlow. ASSUME NEW h, Sound(h), NEW g, g.o = h.o, g.n = h.n, g.c = h.c, NEW ev, NEW w, NEW p,
                     Flow(h, ev, w, p, FALSE)
              PROVE  Flow(g, ev, w, p, FALSE)
  <2> USE <1>ResetFlow
  <2>1. /\ \A t \in {"ENTRY", "SL", "CLOSE"} : Tagged(g, t) = Tagged(h, t)
        /\ Ordered(h, 6) => Ordered(g, 6)
    BY SameAsks
  <2>2. Lanes(g, ev, w, p)
    BY <2>1 DEF Flow, Lanes
  <2>3. Accounted(g, ev, p)
    BY Zenon DEF Flow, Trade, Accounted
  <2>4. Known(g, FALSE) /\ Waits(g, ev, w, FALSE)
    BY Zenon DEF Known, Waits
  <2>5. Covered(g, ev, w, p, FALSE)
    BY <2>1, Zenon DEF Flow, Trade, Covered
  <2>6. Enters(g, ev, FALSE) /\ Ends(g, ev, w, p, FALSE) /\ Replaces(g, w, p, FALSE)
    BY <2>1, Zenon DEF Flow, Trade, Enters, Ends, Replaces
  <2> QED
    BY <2>2, <2>3, <2>4, <2>5, <2>6, Zenon DEF Flow, Trade
<1>1. ~overtaken /\ running = FALSE /\ running' = FALSE
  BY Zenon DEF FlowInv, on_reset
<1>2. Sound(Now) /\ Flow(Now, events, working, position, FALSE)
  BY <1>1, Zenon DEF FlowInv, IInv
<1>3. /\ Now'.o = Now.o /\ Now'.n = Now.n /\ Now'.c = Now.c
      /\ events' = events /\ working' = working /\ position' = position
  BY Zenon DEF on_reset, Now, VenueUnchanged
<1>4. Flow(Now', events, working, position, FALSE)
  BY <1>2, <1>3, <1>ResetFlow, Zenon
<1> QED
  BY <1>1, <1>3, <1>4, Zenon
=============================================================================
