---------------------------- MODULE NetworkProofs ----------------------------
(***************************************************************************)
(* The safety properties of the two network components.                    *)
(*                                                                         *)
(* The rate limiter: for any number of callers, keys, quotas and calls and *)
(* any length of time.                                                     *)
(*                                                                         *)
(* The websocket client: for any messages, any number of reconnections and *)
(* any limit on attempts.  Its three properties rest on one inductive      *)
(* invariant.  The core of it is what ties the controller to the writer:   *)
(* the sessions in the writer's channel increase and none is newer than    *)
(* the last one made, and the controller waits for the last one.  So when  *)
(* the writer has confirmed it, no other switch is on its way, and the     *)
(* client turns Active with both tasks on the last session.                *)
(***************************************************************************)
EXTENDS RateLimiter, WebSocketClient, TLAPS

-----------------------------------------------------------------------------
(* The rate limiter. *)

\* The cells a run of grants from the i-th to the last stands for: the first
\* grant of a key counts twice, because the starting state is a cell ahead.
Cells(k, i) == Len(granted[k]) - i + (IF i = 1 THEN 2 ELSE 1)

\* The stored arrival time is ahead of every grant by the cells used since.
CellAhead ==
    \A k \in Keys : \A i \in 1 .. Len(granted[k]) :
        cell[k] >= granted[k][i] + (Len(granted[k]) - i + 1) * t(k)

\* And it is exactly that far ahead of one of them.
CellExplained ==
    \A k \in Keys : cell[k] # 0 =>
        \E i \in 1 .. Len(granted[k]) : cell[k] = granted[k][i] + Cells(k, i) * t(k)

\* A decision is made on an arrival time that can only have grown since.
PrevBehind ==
    \A c \in Callers, k \in Keys : future[c][k].pc = "decide" => future[c][k].prev <= cell[k]

LimiterInv ==
    /\ LimiterTypeOK
    /\ CellAhead
    /\ CellExplained
    /\ PrevBehind
    /\ QuotaRespected
-----------------------------------------------------------------------------
\* One more cell adds one weight to the sum of the weights.
LEMMA OneMore ==
  ASSUME NEW n \in Int, NEW w \in Nat
  PROVE  (n + 1) * w = n * w + w
  OBVIOUS

\* A burst of at least one cell weighs at least one cell.
LEMMA ProductFacts ==
  ASSUME NEW w \in Nat, NEW n \in Nat \ {0}
  PROVE  w * n \in Nat /\ w * n >= w
<1>1. PICK m \in Nat : n = m + 1
  <2>1. n - 1 \in Nat /\ n = (n - 1) + 1
    OBVIOUS
  <2> QED  BY <2>1
<1>2. w * (m + 1) = w * m + w
  OBVIOUS
<1>3. w * m \in Nat
  OBVIOUS
<1> QED
  BY <1>1, <1>2, <1>3

\* How far the arrival time is ahead of a grant, seen from the clock.
LEMMA Slack ==
  ASSUME NEW used \in Int, NEW burst \in Int, NEW t0 \in Int, NEW grant \in Int, NEW c \in Int
  PROVE  /\ t0 + burst >= c /\ c >= grant + used => used <= burst + t0 - grant
         /\ c > t0 + burst /\ c = grant + used => used > burst + t0 - grant
  OBVIOUS

\* Quotas give a positive weight and a burst of at least one cell.
LEMMA QuotaFacts ==
  ASSUME NEW k \in Keys
  PROVE  t(k) \in Nat \ {0} /\ tau(k) \in Nat /\ tau(k) >= t(k)
<1>1. t(k) \in Nat \ {0} /\ Quota[k].max_burst \in Nat \ {0}
  BY QuotaAssumption DEF t
<1> QED
  BY <1>1, ProductFacts DEF tau

\* What a grant does to the arrival time it was decided on.
LEMMA NextFacts ==
  ASSUME NEW k \in Keys, NEW prev \in Nat, NEW t0 \in Nat
  PROVE  /\ next(k, prev, t0) \in Nat
         /\ next(k, prev, t0) >= prev + t(k)
         /\ next(k, prev, t0) >= t0 + t(k)
         /\ prev = 0 => next(k, prev, t0) = t0 + 2 * t(k)
         /\ prev # 0 => next(k, prev, t0) = prev + t(k) \/ next(k, prev, t0) = t0 + t(k)
  BY QuotaFacts DEF next, tat, Larger

\* A refusal means the stored arrival time is more than a burst ahead.
LEMMA ConformsFacts ==
  ASSUME NEW k \in Keys, NEW f \in Future
  PROVE  /\ conforms(k, f) /\ f.prev # 0 => f.t0 + tau(k) >= f.prev
         /\ ~conforms(k, f) => f.prev # 0 /\ f.prev > f.t0 + tau(k)
<1>1. f.prev \in Nat /\ f.t0 \in Nat
  BY DEF Future, Nanos
<1> QED
  BY <1>1, QuotaFacts DEF conforms, earliest_time, tat

\* new_with_quota starts from cells and futures of the right types.
LEMMA LimiterTypeInit == LimiterInit => LimiterTypeOK
  BY QuotaAssumption DEF LimiterInit, LimiterTypeOK, Future, Unused, Phases, Nanos

\* No step of a caller, and no tick of the clock, breaks the types.
LEMMA LimiterTypeStep == LimiterTypeOK /\ [LimiterNext]_limiterVars => LimiterTypeOK'
<1> SUFFICES ASSUME LimiterTypeOK, [LimiterNext]_limiterVars PROVE LimiterTypeOK'
  OBVIOUS
<1> USE DEF LimiterTypeOK, Nanos, Phases
<1>0. Unused \in Future
  BY DEF Unused, Future
<1>1. ASSUME NEW c \in Callers, NEW keys \in Requests, await_keys_ready(c, keys)
      PROVE  LimiterTypeOK'
  <2>1. [k \in Keys |-> IF k \in keys THEN [Unused EXCEPT !.pc = "start"] ELSE Unused]
            \in [Keys -> Future]
    BY DEF Unused, Future
  <2>2. future' \in [Callers -> [Keys -> Future]]
    BY <1>1, <2>1 DEF await_keys_ready
  <2>3. called' \in [Callers -> Nat]
    BY <1>1 DEF await_keys_ready
  <2> QED  BY <1>1, <2>2, <2>3 DEF await_keys_ready
<1>2. ASSUME NEW c \in Callers, NEW k \in Keys, check_key(c, k) PROVE LimiterTypeOK'
  <2>0. future[c][k] \in Future /\ cell[k] \in Nat /\ now \in Nat
    OBVIOUS
  <2>1. [future[c][k] EXCEPT !.pc = "timed", !.t0 = now] \in Future
    BY <2>0 DEF Future
  <2> QED  BY <1>2, <2>1 DEF check_key
<1>3. ASSUME NEW c \in Callers, NEW k \in Keys, load(c, k) PROVE LimiterTypeOK'
  <2>0. future[c][k] \in Future /\ cell[k] \in Nat /\ now \in Nat
    OBVIOUS
  <2>1. [future[c][k] EXCEPT !.pc = "decide", !.prev = cell[k]] \in Future
    BY <2>0 DEF Future
  <2> QED  BY <1>3, <2>1 DEF load
<1>4. ASSUME NEW c \in Callers, NEW k \in Keys, not_until(c, k) PROVE LimiterTypeOK'
  <2>1. future[c][k] \in Future
    OBVIOUS
  <2>2. earliest_time(k, future[c][k].prev, future[c][k].t0) \in Nat
    BY <2>1, QuotaFacts DEF Future, earliest_time, tat
  <2>3. [future[c][k] EXCEPT !.pc = "sleep", !.prev = 0,
            !.wake = earliest_time(k, future[c][k].prev, future[c][k].t0)] \in Future
    BY <2>1, <2>2 DEF Future
  <2> QED  BY <1>4, <2>3 DEF not_until
<1>5. ASSUME NEW c \in Callers, NEW k \in Keys, compare_exchange(c, k) PROVE LimiterTypeOK'
  <2>1. future[c][k].prev \in Nat /\ future[c][k].t0 \in Nat
    BY DEF Future
  <2>2. next(k, future[c][k].prev, future[c][k].t0) \in Nat
    BY <2>1, NextFacts
  <2>3. Append(granted[k], future[c][k].t0) \in Seq(Nat)
    BY <2>1
  <2>4. [Unused EXCEPT !.pc = "ready"] \in Future
    BY DEF Unused, Future
  <2> QED  BY <1>5, <2>2, <2>3, <2>4 DEF compare_exchange
<1>6. ASSUME NEW c \in Callers, NEW k \in Keys, exchange_failed(c, k) PROVE LimiterTypeOK'
  <2>0. future[c][k] \in Future /\ cell[k] \in Nat /\ now \in Nat
    OBVIOUS
  <2>1. [future[c][k] EXCEPT !.prev = cell[k]] \in Future
    BY <2>0 DEF Future
  <2> QED  BY <1>6, <2>1 DEF exchange_failed
<1>7. ASSUME NEW c \in Callers, NEW k \in Keys, wake(c, k) PROVE LimiterTypeOK'
  <2>1. [Unused EXCEPT !.pc = "start"] \in Future
    BY DEF Unused, Future
  <2> QED  BY <1>7, <2>1 DEF wake
<1>8. ASSUME NEW c \in Callers, return(c) PROVE LimiterTypeOK'
  BY <1>0, <1>8 DEF return
<1>9. CASE Tick
  BY <1>9 DEF Tick
<1>10. CASE UNCHANGED limiterVars
  BY <1>10 DEF limiterVars
<1> QED
  BY <1>1, <1>2, <1>3, <1>4, <1>5, <1>6, <1>7, <1>8, <1>9, <1>10 DEF LimiterNext, Step

\* Every step but a grant leaves the keys' state alone, and reads it afresh.
LEMMA QuietStep ==
  ASSUME LimiterInv, LimiterTypeOK', cell' = cell, granted' = granted,
         \A c \in Callers, k \in Keys :
             future'[c][k].pc = "decide" =>
                 future'[c][k].prev = cell[k] \/ future'[c][k] = future[c][k]
  PROVE  LimiterInv'
<1>1. PrevBehind'
  <2> SUFFICES ASSUME NEW c \in Callers, NEW k \in Keys, future'[c][k].pc = "decide"
               PROVE  future'[c][k].prev <= cell[k]
    BY DEF PrevBehind
  <2>1. cell[k] \in Nat
    BY DEF LimiterInv, LimiterTypeOK, Nanos
  <2>2. CASE future'[c][k].prev = cell[k]
    BY <2>1, <2>2
  <2>3. CASE future'[c][k] = future[c][k]
    BY <2>3 DEF LimiterInv, PrevBehind
  <2> QED  BY <2>2, <2>3
<1> QED
  BY <1>1 DEF LimiterInv, CellAhead, CellExplained, QuotaRespected, Cells, t, tau

\* A grant moves the arrival time of its key by a cell.
LEMMA GrantStep ==
  ASSUME LimiterInv, LimiterTypeOK', NEW c \in Callers, NEW k \in Keys, compare_exchange(c, k)
  PROVE  LimiterInv'
<1> DEFINE f == future[c][k]
           n == Len(granted[k])
           new == next(k, cell[k], f.t0)
<1>1. /\ f \in Future /\ f.prev \in Nat /\ f.t0 \in Nat /\ f.prev = cell[k]
      /\ conforms(k, f) /\ f.pc = "decide"
  BY DEF LimiterInv, LimiterTypeOK, Future, Nanos, compare_exchange
<1>2. /\ cell' = [cell EXCEPT ![k] = new]
      /\ granted' = [granted EXCEPT ![k] = Append(@, f.t0)]
      /\ future' = [future EXCEPT ![c][k] = [Unused EXCEPT !.pc = "ready"]]
  BY <1>1 DEF compare_exchange
<1>3. cell \in [Keys -> Nat] /\ granted \in [Keys -> Seq(Nat)] /\ cell[k] \in Nat
  BY DEF LimiterInv, LimiterTypeOK, Nanos
<1>4. /\ new \in Nat
      /\ new >= cell[k] + t(k) /\ new >= f.t0 + t(k)
      /\ cell[k] = 0 => new = f.t0 + 2 * t(k)
      /\ cell[k] # 0 => new = cell[k] + t(k) \/ new = f.t0 + t(k)
  BY <1>1, <1>3, NextFacts
<1>5. t(k) \in Nat \ {0} /\ tau(k) \in Nat
  BY QuotaFacts
<1>6. /\ n \in Nat /\ Len(granted'[k]) = n + 1
      /\ \A i \in 1 .. n : granted'[k][i] = granted[k][i] /\ granted[k][i] \in Nat
      /\ granted'[k][n + 1] = f.t0
      /\ \A l \in Keys : l # k => granted'[l] = granted[l] /\ cell'[l] = cell[l]
      /\ cell'[k] = new
  BY <1>2, <1>3, <1>1
<1>7. \A m \in Int : m * t(k) \in Int /\ (m + 1) * t(k) = m * t(k) + t(k)
  BY <1>5, OneMore
<1>8. \A l \in Keys : t(l)' = t(l) /\ tau(l)' = tau(l)
  BY DEF t, tau
<1> HIDE DEF n, new
<1>9. CellAhead'
  <2> SUFFICES ASSUME NEW l \in Keys, NEW i \in 1 .. Len(granted'[l])
               PROVE  cell'[l] >= granted'[l][i] + (Len(granted'[l]) - i + 1) * t(l)
    BY <1>8 DEF CellAhead
  <2>0. CASE l # k
    BY <2>0, <1>6 DEF LimiterInv, CellAhead
  <2>1. CASE l = k /\ i = n + 1
    <3>1. (n + 1 - i + 1) * t(k) = t(k)
      BY <2>1, <1>5, <1>6
    <3> QED  BY <2>1, <3>1, <1>4, <1>6
  <2>2. CASE l = k /\ i \in 1 .. n
    <3>1. cell[k] >= granted[k][i] + (n - i + 1) * t(k)
      BY <2>2 DEF LimiterInv, CellAhead, n
    <3>2. (n + 1 - i + 1) * t(k) = (n - i + 1) * t(k) + t(k)
      <4>1. n - i + 1 \in Int /\ n + 1 - i + 1 = (n - i + 1) + 1
        BY <1>6, <2>2
      <4> QED  BY <4>1, <1>7
    <3>3. (n - i + 1) * t(k) \in Int
      BY <1>6, <1>7, <2>2
    <3> DEFINE used == (n - i + 1) * t(k)
    <3>u. used \in Int /\ cell[k] >= granted[k][i] + used
      BY <3>1, <3>3
    <3> HIDE DEF used
    <3>g. granted[k][i] \in Nat
      BY <2>2, <1>6
    <3>m. new \in Int /\ new >= cell[k] + t(k) /\ cell[k] \in Int /\ t(k) \in Int
      BY <1>3, <1>4, <1>5
    <3>n. new >= granted[k][i] + (used + t(k))
      BY <3>u, <3>g, <3>m
    <3>4. new >= granted[k][i] + (n + 1 - i + 1) * t(k)
      BY <3>n, <3>2 DEF used
    <3> QED  BY <2>2, <3>4, <1>6
  <2> QED  BY <2>0, <2>1, <2>2, <1>6
<1>10. CellExplained'
  <2> SUFFICES \E i \in 1 .. n + 1 :
                   new = granted'[k][i] + (n + 1 - i + (IF i = 1 THEN 2 ELSE 1)) * t(k)
    <3>1. ASSUME NEW l \in Keys, l # k, cell'[l] # 0
          PROVE  \E i \in 1 .. Len(granted'[l]) :
                     cell'[l] = granted'[l][i] + Cells(l, i)' * t(l)
      BY <3>1, <1>6 DEF LimiterInv, CellExplained, Cells
    <3>2. \E i \in 1 .. Len(granted'[k]) :
              cell'[k] = granted'[k][i] + Cells(k, i)' * t(k)
      BY <1>6 DEF Cells
    <3> QED  BY <3>1, <3>2, <1>8 DEF CellExplained
  <2>1. CASE cell[k] = 0
    <3>1. n = 0
      <4> SUFFICES ASSUME n # 0 PROVE FALSE
        OBVIOUS
      <4>1. 1 \in 1 .. n /\ cell[k] >= granted[k][1] + (n - 1 + 1) * t(k)
        BY <1>6 DEF LimiterInv, CellAhead, n
      <4>2. t(k) * n >= t(k) /\ t(k) * n \in Nat /\ t(k) * n = (n - 1 + 1) * t(k)
        BY <1>5, <1>6, ProductFacts
      <4>3. granted[k][1] \in Nat
        BY <1>6, <4>1
      <4> QED  BY <2>1, <4>1, <4>2, <4>3, <1>5
    <3>2. new = granted'[k][1] + 2 * t(k)
      BY <2>1, <3>1, <1>4, <1>6
    <3> QED  BY <3>1, <3>2
  <2>2. CASE cell[k] # 0 /\ new = cell[k] + t(k)
    <3>1. PICK i \in 1 .. n :
              cell[k] = granted[k][i] + (n - i + (IF i = 1 THEN 2 ELSE 1)) * t(k)
      BY <2>2 DEF LimiterInv, CellExplained, Cells, n
    <3> DEFINE m == n - i + (IF i = 1 THEN 2 ELSE 1)
    <3>2. m \in Int /\ n + 1 - i + (IF i = 1 THEN 2 ELSE 1) = m + 1
      BY <1>6
    <3>3. (m + 1) * t(k) = m * t(k) + t(k) /\ m * t(k) \in Int
      BY <3>2, <1>7
    <3> HIDE DEF m
    <3>4. new = granted'[k][i] + (m + 1) * t(k)
      <4>1. granted[k][i] \in Nat /\ granted'[k][i] = granted[k][i]
        BY <1>6
      <4>2. cell[k] = granted[k][i] + m * t(k)
        BY <3>1 DEF m
      <4> QED  BY <2>2, <3>3, <4>1, <4>2, <1>5
    <3>5. i \in 1 .. n + 1
      BY <1>6
    <3> QED  BY <3>2, <3>4, <3>5
  <2>3. CASE cell[k] # 0 /\ new = f.t0 + t(k)
    <3>1. n > 0
      BY <2>3, <1>6 DEF LimiterInv, CellExplained, n
    <3>2. n + 1 # 1 /\ n + 1 - (n + 1) + 1 = 1 /\ n + 1 \in 1 .. n + 1
      BY <3>1, <1>6
    <3>3. 1 * t(k) = t(k)
      BY <1>5
    <3> QED  BY <2>3, <3>2, <3>3, <1>6
  <2> QED  BY <2>1, <2>2, <2>3, <1>4
<1>11. PrevBehind'
  <2> SUFFICES ASSUME NEW b \in Callers, NEW l \in Keys, future'[b][l].pc = "decide"
               PROVE  future'[b][l].prev <= cell'[l]
    BY DEF PrevBehind
  <2>1. ~(b = c /\ l = k)
    BY <1>2 DEF LimiterInv, LimiterTypeOK, Unused
  <2>2. future'[b][l] = future[b][l]
    BY <2>1, <1>2 DEF LimiterInv, LimiterTypeOK
  <2>3. future[b][l].prev \in Nat /\ future[b][l].prev <= cell[l] /\ cell[l] \in Nat
    BY <2>2 DEF LimiterInv, LimiterTypeOK, PrevBehind, Future, Nanos
  <2>4. cell'[l] >= cell[l] /\ cell'[l] \in Nat
    <3>1. CASE l = k
      BY <3>1, <1>3, <1>4, <1>5, <1>6
    <3>2. CASE l # k
      BY <3>2, <2>3, <1>6
    <3> QED  BY <3>1, <3>2
  <2> QED  BY <2>2, <2>3, <2>4
<1>12. QuotaRespected'
  <2> DEFINE Within(q, a, b, from, to) == (b - a) * t(q) <= tau(q) + to - from
  <2> SUFFICES ASSUME NEW i \in 1 .. n
               PROVE  Within(k, i, n + 1, granted[k][i], f.t0)
    <3> SUFFICES ASSUME NEW l \in Keys, NEW i \in 1 .. Len(granted'[l]),
                        NEW j \in 1 .. Len(granted'[l]), i < j
                 PROVE  (j - i) * t(l) <= tau(l) + granted'[l][j] - granted'[l][i]
      BY <1>8 DEF QuotaRespected
    <3> SUFFICES Within(l, i, j, granted'[l][i], granted'[l][j])
      OBVIOUS
    <3>0. CASE l # k
      BY <3>0, <1>6 DEF LimiterInv, QuotaRespected
    <3>1. CASE l = k /\ j # n + 1
      <4>1. i \in 1 .. n /\ j \in 1 .. n
        BY <3>1, <1>6
      <4>2. Within(k, i, j, granted[k][i], granted[k][j])
        BY <4>1 DEF LimiterInv, QuotaRespected, n
      <4>3. granted'[k][j] = granted[k][j] /\ granted'[k][i] = granted[k][i]
        BY <4>1, <1>6
      <4> HIDE DEF Within
      <4> QED  BY <3>1, <4>2, <4>3
    <3>2. CASE l = k /\ j = n + 1
      <4>1. i \in 1 .. n
        BY <3>2, <1>6
      <4> HIDE DEF Within
      <4>2. Within(k, i, n + 1, granted[k][i], f.t0)
        BY <4>1
      <4>3. granted'[k][n + 1] = f.t0 /\ granted'[k][i] = granted[k][i]
        BY <4>1, <1>6
      <4> QED  BY <3>2, <4>2, <4>3
    <3> QED  BY <3>0, <3>1, <3>2
  <2>1. cell[k] >= granted[k][i] + (n - i + 1) * t(k)
    BY DEF LimiterInv, CellAhead, n
  <2>2. (n + 1) - i = n - i + 1 /\ n - i + 1 \in Nat \ {0}
    BY <1>6
  <2>3. (n - i + 1) * t(k) \in Nat /\ (n - i + 1) * t(k) >= t(k)
    <3>1. t(k) * (n - i + 1) = (n - i + 1) * t(k)
      BY <1>5, <2>2
    <3> QED  BY <1>5, <2>2, <3>1, ProductFacts
  <2> DEFINE used == ((n + 1) - i) * t(k)
  <2>g. granted[k][i] \in Nat
    BY <1>6
  <2>u. used \in Nat /\ used >= t(k) /\ cell[k] >= granted[k][i] + used
    BY <2>1, <2>2, <2>3
  <2> HIDE DEF used
  <2>4. cell[k] # 0
    BY <2>g, <2>u, <1>5
  <2>5. f.t0 + tau(k) >= cell[k]
    BY <1>1, <2>4, ConformsFacts
  <2>t. f.t0 \in Int /\ cell[k] \in Int
    BY <1>1, <1>3
  <2> HIDE DEF f
  <2>6. used <= tau(k) + f.t0 - granted[k][i]
    BY <1>5, <2>g, <2>u, <2>t, <2>5, Slack
  <2> QED  BY <2>6 DEF used
<1> QED
  BY <1>9, <1>10, <1>11, <1>12 DEF LimiterInv

\* The quota facts are inductive together.
LEMMA LimiterInductive == LimiterSpec => []LimiterInv
<1>1. LimiterInit => LimiterInv
  <2> SUFFICES ASSUME LimiterInit PROVE LimiterInv
    OBVIOUS
  <2>1. LimiterTypeOK
    BY LimiterTypeInit
  <2> QED
    BY <2>1 DEF LimiterInit, LimiterInv, CellAhead, CellExplained, PrevBehind, QuotaRespected, Unused
<1>2. LimiterInv /\ [LimiterNext]_limiterVars => LimiterInv'
  <2> SUFFICES ASSUME LimiterInv, [LimiterNext]_limiterVars PROVE LimiterInv'
    OBVIOUS
  <2>0. LimiterTypeOK /\ LimiterTypeOK'
    BY LimiterTypeStep DEF LimiterInv
  <2> USE QuietStep
  <2>1. ASSUME NEW c \in Callers, NEW keys \in Requests, await_keys_ready(c, keys)
        PROVE  LimiterInv'
    BY <2>0, <2>1 DEF await_keys_ready, LimiterTypeOK, Unused
  <2>2. ASSUME NEW c \in Callers, NEW k \in Keys, check_key(c, k) PROVE LimiterInv'
    BY <2>0, <2>2 DEF check_key, LimiterTypeOK, Future
  <2>3. ASSUME NEW c \in Callers, NEW k \in Keys, load(c, k) PROVE LimiterInv'
    BY <2>0, <2>3 DEF load, LimiterTypeOK, Future
  <2>4. ASSUME NEW c \in Callers, NEW k \in Keys, not_until(c, k) PROVE LimiterInv'
    BY <2>0, <2>4 DEF not_until, LimiterTypeOK, Future
  <2>5. ASSUME NEW c \in Callers, NEW k \in Keys, compare_exchange(c, k) PROVE LimiterInv'
    BY <2>0, <2>5, GrantStep
  <2>6. ASSUME NEW c \in Callers, NEW k \in Keys, exchange_failed(c, k) PROVE LimiterInv'
    BY <2>0, <2>6 DEF exchange_failed, LimiterTypeOK, Future
  <2>7. ASSUME NEW c \in Callers, NEW k \in Keys, wake(c, k) PROVE LimiterInv'
    BY <2>0, <2>7 DEF wake, LimiterTypeOK, Unused
  <2>8. ASSUME NEW c \in Callers, return(c) PROVE LimiterInv'
    BY <2>0, <2>8 DEF return, LimiterTypeOK, Unused
  <2>9. CASE Tick
    BY <2>0, <2>9 DEF Tick
  <2>10. CASE UNCHANGED limiterVars
    BY <2>0, <2>10 DEF limiterVars
  <2> QED
    BY <2>1, <2>2, <2>3, <2>4, <2>5, <2>6, <2>7, <2>8, <2>9, <2>10 DEF LimiterNext, Step
<1> QED
  BY <1>1, <1>2, PTL DEF LimiterSpec

\* For every key, any two grants are within the key's quota: the limiter never
\* lets through more than the burst plus what was replenished in between.
THEOREM QuotaIsRespected == LimiterSpec => []QuotaRespected
  BY LimiterInductive, PTL DEF LimiterInv

\* No check is refused while the quota still has a cell for it.
THEOREM RefusalsAreJustified == LimiterSpec => []RefusalJustified
<1>1. LimiterInv => RefusalJustified
  <2> SUFFICES ASSUME LimiterInv, NEW c \in Callers, NEW k \in Keys,
                      future[c][k].pc = "decide", ~conforms(k, future[c][k])
               PROVE  \E i \in 1 .. Len(granted[k]) :
                          Cells(k, i) * t(k) > tau(k) + future[c][k].t0 - granted[k][i]
    BY DEF RefusalJustified, Cells
  <2> DEFINE f == future[c][k]
  <2>1. f \in Future /\ f.prev \in Nat /\ f.t0 \in Nat /\ cell[k] \in Nat
    BY DEF LimiterInv, LimiterTypeOK, Future, Nanos
  <2>2. f.prev > f.t0 + tau(k) /\ tau(k) \in Nat
    BY <2>1, ConformsFacts, QuotaFacts
  <2>3. cell[k] >= f.prev
    BY DEF LimiterInv, PrevBehind
  <2>4. cell[k] # 0 /\ cell[k] > f.t0 + tau(k)
    BY <2>1, <2>2, <2>3
  <2>5. PICK i \in 1 .. Len(granted[k]) : cell[k] = granted[k][i] + Cells(k, i) * t(k)
    BY <2>4 DEF LimiterInv, CellExplained
  <2>6. granted[k][i] \in Nat /\ Cells(k, i) \in Int /\ t(k) \in Int
    BY QuotaFacts DEF LimiterInv, LimiterTypeOK, Nanos, Cells
  <2>7. Cells(k, i) * t(k) \in Int
    BY <2>6
  <2> DEFINE used == Cells(k, i) * t(k)
             t0 == f.t0
  <2>8. used \in Int /\ cell[k] = granted[k][i] + used /\ t0 \in Nat /\ cell[k] > t0 + tau(k)
    BY <2>1, <2>4, <2>5, <2>7
  <2>t. cell[k] \in Int /\ tau(k) \in Int /\ granted[k][i] \in Int
    BY <2>1, <2>2, <2>6
  <2> HIDE DEF used, t0
  <2>9. used > tau(k) + t0 - granted[k][i]
    BY <2>t, <2>8, Slack
  <2> QED
    BY <2>9 DEF used, t0
<1> QED
  BY <1>1, LimiterInductive, PTL

-----------------------------------------------------------------------------
(* The websocket client. *)

(* Disconnected for good, whatever the mode has been overwritten with. *)
Stopped == closing # "idle" \/ controller.pc \in {"end", "drop", "done"}

UpdatesInOrder ==
    /\ \A i \in DOMAIN writer_rx : writer_rx[i] \in Nat => writer_rx[i] <= made
    /\ \A i, j \in DOMAIN writer_rx :
          i < j /\ writer_rx[i] \in Nat /\ writer_rx[j] \in Nat => writer_rx[i] < writer_rx[j]

NoUpdates == \A i \in DOMAIN writer_rx : writer_rx[i] \notin Nat

Attempting ==
    /\ controller.pc \in {"attempt", "connect", "confirm", "swap"} => connection_mode # "Active"
    /\ controller.pc \in {"confirm", "swap"} => controller.session = made

Switched ==
    /\ connection_mode = "Active" \/ controller.pc = "swap" => writer.session = made /\ NoUpdates
    /\ connection_mode = "Active" => read_task \in {0, made}

Stopping ==
    connection_mode \in Terminal \/ writer.pc = "done" => Stopped

Holding ==
    IF writer.pc = "send" THEN \E m \in Messages : writer.msg = {m} ELSE writer.msg = {}

Kept ==
    \A m \in Messages : calls[m] = "ok" => m \in Held \cup Written \cup discarded \/ Stopped

AuthCurrent ==
    /\ connection_mode = "Active" /\ auth = "Authenticated" => writer.session \in authed
    /\ connection_mode = "Reconnect" => auth # "Authenticated"
    /\ reconnect_buffer_waits_for_auth /\ writer.pc = "drain" => writer.session \in authed

Sockets == UpdatesInOrder /\ Attempting /\ Switched

Losses == Stopping /\ Holding /\ Kept

Auths == AuthCurrent /\ ReplayWaitsForAuth

IInv == TypeOK /\ Sockets /\ Losses /\ Auths

-----------------------------------------------------------------------------
(* Taking the first element of a sequence: what remains, and what it holds. *)
LEMMA TailFacts ==
    ASSUME NEW S, NEW s \in Seq(S), s # << >>
    PROVE  /\ Tail(s) \in Seq(S) /\ Head(s) \in S /\ Head(s) = s[1] /\ 1 \in DOMAIN s
           /\ \A i \in DOMAIN Tail(s) : i \in Nat /\ i + 1 \in DOMAIN s /\ Tail(s)[i] = s[i + 1]
           /\ Range(s) = {Head(s)} \cup Range(Tail(s))
  <1>1. Len(s) \in Nat /\ Len(s) >= 1 /\ DOMAIN s = 1 .. Len(s) /\ s \in [1 .. Len(s) -> S]
    OBVIOUS
  <1>2. Tail(s) \in Seq(S) /\ Len(Tail(s)) = Len(s) - 1 /\ Head(s) = s[1]
        /\ \A i \in 1 .. Len(Tail(s)) : Tail(s)[i] = s[i + 1]
    OBVIOUS
  <1>3. DOMAIN Tail(s) = 1 .. (Len(s) - 1)
    BY <1>1, <1>2
  <1>4. \A i \in DOMAIN Tail(s) : i \in Nat /\ i + 1 \in DOMAIN s /\ Tail(s)[i] = s[i + 1]
    BY <1>1, <1>2, <1>3
  <1>5. Range(s) \subseteq {Head(s)} \cup Range(Tail(s))
    <2> SUFFICES ASSUME NEW i \in DOMAIN s
                 PROVE  s[i] \in {Head(s)} \cup Range(Tail(s))
      BY DEF Range
    <2>1. CASE i = 1
      BY <2>1, <1>2
    <2>2. CASE i # 1
      <3>1. i - 1 \in DOMAIN Tail(s) /\ Tail(s)[i - 1] = s[i]
        BY <2>2, <1>1, <1>3, <1>4
      <3> QED  BY <3>1 DEF Range
    <2> QED  BY <2>1, <2>2
  <1>6. {Head(s)} \cup Range(Tail(s)) \subseteq Range(s)
    BY <1>1, <1>2, <1>4 DEF Range
  <1> QED  BY <1>1, <1>2, <1>4, <1>5, <1>6

(* Appending to a sequence. *)
LEMMA AppendFacts ==
    ASSUME NEW S, NEW s \in Seq(S), NEW e \in S
    PROVE  /\ Append(s, e) \in Seq(S)
           /\ DOMAIN s \subseteq DOMAIN Append(s, e)
           /\ \A i \in DOMAIN s : i \in Nat /\ i <= Len(s) /\ Append(s, e)[i] = s[i]
           /\ \A i \in DOMAIN Append(s, e) : i \in DOMAIN s \/ i = Len(s) + 1
           /\ Append(s, e)[Len(s) + 1] = e /\ Len(s) \in Nat
           /\ Range(Append(s, e)) = Range(s) \cup {e}
  <1>1. Len(s) \in Nat /\ DOMAIN s = 1 .. Len(s)
    OBVIOUS
  <1>2. /\ Append(s, e) \in Seq(S) /\ Len(Append(s, e)) = Len(s) + 1
        /\ \A i \in 1 .. Len(s) : Append(s, e)[i] = s[i]
        /\ Append(s, e)[Len(s) + 1] = e
    OBVIOUS
  <1>3. DOMAIN Append(s, e) = 1 .. (Len(s) + 1)
    BY <1>2
  <1>4. DOMAIN Append(s, e) = DOMAIN s \cup {Len(s) + 1}
    BY <1>1, <1>3
  <1>5. Range(Append(s, e)) = Range(s) \cup {e}
    BY <1>1, <1>2, <1>4 DEF Range
  <1> QED  BY <1>1, <1>2, <1>4, <1>5

-----------------------------------------------------------------------------
(* Updates of the writer's record that the steps make. *)
LEMMA WriterFacts ==
    ASSUME TypeOK
    PROVE  /\ \A p \in {"top", "drain", "recv", "send", "done"} :
                 /\ [writer EXCEPT !.pc = p] \in Writer
                 /\ \A s \in Session : [writer EXCEPT !.pc = p, !.session = s] \in Writer
                 /\ \A b \in Seq(Messages) :
                       /\ [writer EXCEPT !.pc = p, !.reconnect_buffer = b] \in Writer
                       /\ [writer EXCEPT !.reconnect_buffer = b] \in Writer
                 /\ \A ms \in SUBSET Messages :
                       /\ [writer EXCEPT !.pc = p, !.msg = ms] \in Writer
                       /\ \A b \in Seq(Messages) :
                             /\ [writer EXCEPT !.pc = p, !.msg = ms, !.reconnect_buffer = b]
                                   \in Writer
                             /\ [writer EXCEPT !.pc = p, !.reconnect_buffer = b, !.msg = ms]
                                   \in Writer
           /\ writer.session \in Session /\ writer.reconnect_buffer \in Seq(Messages)
           /\ writer.msg \subseteq Messages
  BY ZenonT(60) DEF TypeOK, Writer

(* Updates of the controller's record. *)
LEMMA ControllerFacts ==
    ASSUME TypeOK
    PROVE  /\ \A p \in {"poll", "attempt", "connect", "confirm", "swap", "shutdown", "end", "drop",
                         "done"} :
                 /\ [controller EXCEPT !.pc = p] \in ControllerState
                 /\ \A s \in 0 .. MaxSessions :
                       [controller EXCEPT !.pc = p, !.session = s] \in ControllerState
                 /\ controller.attempts < reconnect_max_attempts =>
                       [controller EXCEPT !.pc = p, !.attempts = @ + 1] \in ControllerState
           /\ [pc |-> "poll", attempts |-> 0, session |-> 0] \in ControllerState
           /\ controller.session \in 0 .. MaxSessions
           /\ 0 \in 0 .. MaxSessions
  <1>1. reconnect_max_attempts \in Nat /\ MaxSessions \in Nat
    BY WebSocketAssumption
  <1>2. controller \in ControllerState
    BY DEF TypeOK
  <1>3. controller.attempts < reconnect_max_attempts
            => controller.attempts + 1 \in 0 .. reconnect_max_attempts
    BY <1>1, <1>2 DEF ControllerState
  <1>4. /\ controller.session \in 0 .. MaxSessions
        /\ 0 \in 0 .. MaxSessions /\ 0 \in 0 .. reconnect_max_attempts
    BY <1>1, <1>2 DEF ControllerState
  <1>5. [pc |-> "poll", attempts |-> 0, session |-> 0] \in ControllerState
    BY <1>4 DEF ControllerState
  <1>6. ASSUME NEW p \in {"poll", "attempt", "connect", "confirm", "swap", "shutdown", "end",
                          "drop", "done"}
        PROVE  /\ [controller EXCEPT !.pc = p] \in ControllerState
               /\ \A s \in 0 .. MaxSessions :
                     [controller EXCEPT !.pc = p, !.session = s] \in ControllerState
    BY <1>2, Zenon DEF ControllerState
  <1>7. ASSUME NEW p \in {"poll", "attempt", "connect", "confirm", "swap", "shutdown", "end",
                          "drop", "done"},
               controller.attempts < reconnect_max_attempts
        PROVE  [controller EXCEPT !.pc = p, !.attempts = @ + 1] \in ControllerState
    BY <1>2, <1>3, <1>7, Zenon DEF ControllerState
  <1> QED  BY <1>4, <1>5, <1>6, <1>7, Zenon

(* What the writer records. *)
LEMMA SentFacts ==
    ASSUME TypeOK, NEW m \in Messages, NEW r \in BOOLEAN
    PROVE  sent \cup {<<m, writer.session, r>>} \subseteq Messages \X Session \X BOOLEAN
  <1>1. writer.session \in Session
    BY WriterFacts, Zenon
  <1> QED  BY <1>1 DEF TypeOK

(* What a step does to the types of the state. *)
LEMMA TypeStep == TypeOK /\ [Next]_vars => TypeOK'
  <1> SUFFICES ASSUME TypeOK, [Next]_vars PROVE TypeOK'
    OBVIOUS
  <1>1. ASSUME NEW m \in Messages, check_not_terminal(m) PROVE TypeOK'
    BY <1>1, WebSocketAssumption DEF check_not_terminal, Call, CallUnchanged, netVars, TypeOK, Mode, Terminal
  <1>2. ASSUME NEW m \in Messages, wait_for_active(m) PROVE TypeOK'
    BY <1>2, WebSocketAssumption DEF wait_for_active, Call, CallUnchanged, netVars, TypeOK, Mode, Terminal
  <1>3. ASSUME NEW m \in Messages, enqueue(m) PROVE TypeOK'
    <2>1. Append(writer_rx, m) \in Seq(Messages \cup Session)
      BY AppendFacts DEF TypeOK
    <2> QED
      BY <1>3, <2>1 DEF enqueue, Call, CallUnchanged, netVars, TypeOK
  <1>4. CASE write_top
    <2>1. << >> \in Seq(Messages)
      OBVIOUS
    <2>2. Range(writer.reconnect_buffer) \subseteq Messages
      <3>1. writer.reconnect_buffer \in Seq(Messages)
        BY WriterFacts, Zenon
      <3>2. \A i \in DOMAIN writer.reconnect_buffer : writer.reconnect_buffer[i] \in Messages
        BY <3>1
      <3> QED  BY <3>2 DEF Range
    <2>3. writer' \in Writer
      <3>1. /\ [writer EXCEPT !.pc = "done", !.reconnect_buffer = << >>] \in Writer
            /\ [writer EXCEPT !.pc = "drain"] \in Writer
            /\ [writer EXCEPT !.reconnect_buffer = << >>] \in Writer
            /\ [writer EXCEPT !.pc = "recv"] \in Writer
        BY <2>1, WriterFacts, Zenon
      <3> QED  BY <1>4, <3>1 DEF write_top
    <2> QED
      BY <1>4, <2>2, <2>3 DEF write_top, WriterUnchanged, netVars, TypeOK
  <1>5. CASE drain_reconnect_buffer
    <2>1. ASSUME writer.reconnect_buffer # << >>
          PROVE  /\ Tail(writer.reconnect_buffer) \in Seq(Messages)
                 /\ Head(writer.reconnect_buffer) \in Messages
      BY <2>1, WriterFacts, TailFacts, Zenon
    <2>2. writer' \in Writer
      BY <1>5, <2>1, WriterFacts, Zenon DEF drain_reconnect_buffer
    <2>3. sent' \subseteq Messages \X Session \X BOOLEAN
      BY <1>5, <2>1, SentFacts, Zenon DEF drain_reconnect_buffer, wrote, trigger_reconnect, TypeOK
    <2> QED
      BY <1>5, <2>2, <2>3, Zenon
      DEF drain_reconnect_buffer, wrote, trigger_reconnect, WriterUnchanged, netVars, TypeOK, Mode
  <1>6. CASE writer_recv
    <2>1. /\ Tail(writer_rx) \in Seq(Messages \cup Session)
          /\ Head(writer_rx) \in Messages \cup Session
      BY <1>6, TailFacts DEF writer_recv, TypeOK
    <2>2. \A e \in Messages : Append(writer.reconnect_buffer, e) \in Seq(Messages)
      BY WriterFacts, AppendFacts, Zenon
    <2>3. writer' \in Writer
      <3>1. CASE connection_mode \in Terminal /\ writer' = [writer EXCEPT !.pc = "done"]
        BY <3>1, WriterFacts, Zenon
      <3>2. CASE Head(writer_rx) \in Session /\ writer_update(Head(writer_rx))
        BY <3>2, WriterFacts, Zenon DEF writer_update
      <3>3. CASE /\ Head(writer_rx) \in Messages
                 /\ writer' = [writer EXCEPT !.pc = "top",
                                             !.reconnect_buffer = Append(@, Head(writer_rx))]
        BY <3>3, <2>2, WriterFacts, Zenon
      <3>4. CASE /\ Head(writer_rx) \in Messages
                 /\ writer' = [writer EXCEPT !.pc = "send", !.msg = {Head(writer_rx)}]
        BY <3>4, WriterFacts, Zenon
      <3> QED  BY <1>6, <3>1, <3>2, <3>3, <3>4 DEF writer_recv
    <2>4. controller' \in ControllerState
      BY <1>6, ControllerFacts, ZenonT(60) DEF writer_recv, writer_update, TypeOK
    <2> QED
      BY <1>6, <2>1, <2>3, <2>4 DEF writer_recv, WriterUnchanged, netVars, TypeOK
  <1>7. CASE writer_timeout
    BY <1>7, WriterFacts, Zenon DEF writer_timeout, WriterUnchanged, netVars, TypeOK
  <1>8. CASE writer_send
    <2>1. \A e \in Messages : Append(writer.reconnect_buffer, e) \in Seq(Messages)
      BY WriterFacts, AppendFacts, Zenon
    <2>2. writer' \in Writer
      <3>1. PICK m \in writer.msg :
               \/ writer' = [writer EXCEPT !.pc = "top", !.msg = {}]
               \/ writer' = [writer EXCEPT !.pc = "top", !.msg = {},
                                           !.reconnect_buffer = Append(@, m)]
        BY <1>8, Zenon DEF writer_send
      <3>2. m \in Messages /\ {} \in SUBSET Messages
        BY WriterFacts, Zenon
      <3>3. Append(writer.reconnect_buffer, m) \in Seq(Messages)
        BY <2>1, <3>2
      <3>4. /\ [writer EXCEPT !.pc = "top", !.msg = {}] \in Writer
            /\ [writer EXCEPT !.pc = "top", !.msg = {},
                              !.reconnect_buffer = Append(@, m)] \in Writer
        BY <3>2, <3>3, Zenon DEF TypeOK, Writer
      <3> QED  BY <3>1, <3>4
    <2>3. sent' \subseteq Messages \X Session \X BOOLEAN
      BY <1>8, SentFacts, WriterFacts, Zenon DEF writer_send, wrote, trigger_reconnect, TypeOK
    <2> QED
      BY <1>8, <2>2, <2>3, Zenon
      DEF writer_send, wrote, trigger_reconnect, WriterUnchanged, netVars, TypeOK, Mode
  <1>9. CASE read_task_ends
    BY <1>9, ControllerFacts, ZenonT(60) DEF read_task_ends, netVars, TypeOK
  <1>10. CASE controller_poll
    <2>1. controller' \in ControllerState
      BY <1>10, ControllerFacts, ZenonT(60) DEF controller_poll, goto, ControllerUnchanged
    <2> QED
      BY <1>10, <2>1, ControllerFacts, ZenonT(60) DEF controller_poll, ControllerUnchanged, TypeOK, Mode
  <1>11. CASE reconnect_attempt
    <2>1. controller' \in ControllerState
      BY <1>11, ControllerFacts, ZenonT(60) DEF reconnect_attempt, goto, reconnect_ok, ControllerUnchanged
    <2> QED
      BY <1>11, <2>1, ControllerFacts, ZenonT(60) DEF reconnect_attempt, ControllerUnchanged, TypeOK, Mode
  <1>12. CASE connect_with_server
    <2>1. made + 1 \in Session /\ made + 1 \in 0 .. MaxSessions
      BY <1>12, WebSocketAssumption DEF connect_with_server, TypeOK, Session
    <2>2. Append(writer_rx, made + 1) \in Seq(Messages \cup Session)
      BY <2>1, AppendFacts DEF TypeOK
    <2>3. controller' \in ControllerState
      BY <1>12, <2>1, ControllerFacts, ZenonT(60) DEF connect_with_server, reconnect_ok, reconnect_err
    <2> QED
      BY <1>12, <2>1, <2>2, <2>3 DEF connect_with_server, ControllerUnchanged, TypeOK
  <1>13. CASE reconnect_swap
    <2>1. controller' \in ControllerState
      BY <1>13, ControllerFacts, ZenonT(60) DEF reconnect_swap, reconnect_ok, ControllerUnchanged
    <2> QED
      BY <1>13, <2>1, ControllerFacts, ZenonT(60) DEF reconnect_swap, ControllerUnchanged, TypeOK, Mode
  <1>14. CASE reconnect_fails
    <2>1. controller' \in ControllerState
      BY <1>14, ControllerFacts, ZenonT(60) DEF reconnect_fails, reconnect_err, ControllerUnchanged
    <2> QED
      BY <1>14, <2>1, ControllerFacts, ZenonT(60) DEF reconnect_fails, ControllerUnchanged, TypeOK, Mode
  <1>15. CASE controller_shutdown
    <2>1. controller' \in ControllerState
      BY <1>15, ControllerFacts, ZenonT(60) DEF controller_shutdown, goto, ControllerUnchanged
    <2> QED
      BY <1>15, <2>1, ControllerFacts, ZenonT(60) DEF controller_shutdown, ControllerUnchanged, TypeOK, Mode
  <1>16. CASE controller_end
    <2>1. controller' \in ControllerState
      BY <1>16, ControllerFacts, ZenonT(60) DEF controller_end, goto, ControllerUnchanged
    <2> QED
      BY <1>16, <2>1, ControllerFacts, ZenonT(60) DEF controller_end, ControllerUnchanged, TypeOK, Mode
  <1>17. CASE controller_drop
    <2>1. << >> \in Seq(Messages)
      OBVIOUS
    <2>2. writer' \in Writer /\ controller' \in ControllerState
      BY <1>17, <2>1, WriterFacts, ControllerFacts, ZenonT(60) DEF controller_drop, clean_drop, goto, ControllerUnchanged, TypeOK
    <2> QED
      BY <1>17, <2>2, ControllerFacts, ZenonT(60) DEF controller_drop, clean_drop, goto, ControllerUnchanged, TypeOK, Mode
  <1>18. CASE disconnect
    BY <1>18, WebSocketAssumption DEF disconnect, netVars, TypeOK, Mode, Terminal
  <1>19. CASE disconnect_returns
    <2>1. << >> \in Seq(Messages)
      OBVIOUS
    <2>2. writer' \in Writer /\ controller' \in ControllerState
      <3>1. CASE clean_drop
        BY <3>1, <2>1, WriterFacts, ControllerFacts, ZenonT(60) DEF clean_drop, goto
      <3>2. CASE UNCHANGED <<writer, controller>>
        BY <3>2 DEF TypeOK
      <3> QED  BY <1>19, <3>1, <3>2 DEF disconnect_returns
    <2> QED
      BY <1>19, <2>2, ControllerFacts, ZenonT(60) DEF disconnect_returns, clean_drop, goto, netVars, TypeOK, Mode
  <1>20. CASE ConnectionBreaks
    BY <1>20, WebSocketAssumption DEF ConnectionBreaks, TypeOK, Mode, Terminal
  <1>21. CASE AuthAnswered
    BY <1>21, Zenon DEF AuthAnswered, TypeOK
  <1>22. CASE UNCHANGED vars
    BY <1>22, WebSocketAssumption DEF vars, TypeOK, Mode, Terminal
  <1> QED
    BY <1>1, <1>2, <1>3, <1>4, <1>5, <1>6, <1>7, <1>8, <1>9, <1>10, <1>11, <1>12, <1>13, <1>14, <1>15, <1>16, <1>17, <1>18, <1>19, <1>20, <1>21, <1>22
    DEF Next, Calls, WriteTask, Controller, ReconnectStep

-----------------------------------------------------------------------------
(* The sockets: what is on its way to the writer, and who is on which session. *)

(* The sessions are numbers and the messages are not. *)
LEMMA SessionFacts ==
    ASSUME TypeOK
    PROVE  /\ Session \subseteq Nat
           /\ \A m \in Messages : m \notin Nat
           /\ made \in Nat
           /\ \A i \in DOMAIN writer_rx : writer_rx[i] \in Messages \cup Session
  <1>1. Session \subseteq Nat
    BY DEF Session
  <1>2. \A m \in Messages : m \notin Nat
    BY WebSocketAssumption
  <1>3. \A i \in DOMAIN writer_rx : writer_rx[i] \in Messages \cup Session
    BY DEF TypeOK
  <1> QED  BY <1>1, <1>2, <1>3 DEF TypeOK

(* A message put in the channel or a command taken from it leaves the *)
(* sessions in order; so does a new session, newer than all of them.  *)
LEMMA UpdatesStep ==
    ASSUME TypeOK, UpdatesInOrder, [Next]_vars
    PROVE  UpdatesInOrder'
  <1>1. ASSUME NEW m \in Messages, enqueue(m) PROVE UpdatesInOrder'
    <2>1. CASE UNCHANGED <<writer_rx, made>>
      BY <2>1 DEF UpdatesInOrder
    <2>2. CASE writer_rx' = Append(writer_rx, m) /\ made' = made
      <3>1. m \in Messages \cup Session /\ m \notin Nat /\ writer_rx \in Seq(Messages \cup Session)
        BY SessionFacts DEF TypeOK
      <3>2. \A i \in DOMAIN writer_rx' : writer_rx'[i] \in Nat
                => i \in DOMAIN writer_rx /\ writer_rx'[i] = writer_rx[i]
        BY <2>2, <3>1, AppendFacts
      <3> QED  BY <2>2, <3>2 DEF UpdatesInOrder
    <2> QED  BY <1>1, <2>1, <2>2 DEF enqueue, CallUnchanged, netVars
  <1>2. CASE writer_recv
    <2>1. writer_rx' = Tail(writer_rx) /\ made' = made /\ writer_rx # << >>
          /\ writer_rx \in Seq(Messages \cup Session)
      BY <1>2 DEF writer_recv, WriterUnchanged, netVars, TypeOK
    <2>2. \A i \in DOMAIN writer_rx' :
             i \in Nat /\ i + 1 \in DOMAIN writer_rx /\ writer_rx'[i] = writer_rx[i + 1]
      BY <2>1, TailFacts
    <2>3. \A i, j \in DOMAIN writer_rx' : i < j => i + 1 < j + 1
      BY <2>2
    <2> QED  BY <2>1, <2>2, <2>3 DEF UpdatesInOrder
  <1>3. CASE connect_with_server
    <2>1. made' = made + 1 /\ made \in Nat /\ \A n \in Nat : n <= made => n <= made + 1 /\ n < made + 1
      BY <1>3 DEF connect_with_server, TypeOK, Session
    <2>2. CASE writer_rx' = writer_rx
      BY <2>1, <2>2 DEF UpdatesInOrder
    <2>3. CASE writer_rx' = Append(writer_rx, made + 1)
      <3>1. made + 1 \in Messages \cup Session /\ writer_rx \in Seq(Messages \cup Session)
        BY <1>3, WebSocketAssumption DEF connect_with_server, TypeOK, Session
      <3>2. /\ Len(writer_rx) \in Nat
            /\ \A i \in DOMAIN writer_rx : i \in Nat /\ i <= Len(writer_rx) /\ writer_rx'[i] = writer_rx[i]
            /\ \A i \in DOMAIN writer_rx' : i \in DOMAIN writer_rx \/ i = Len(writer_rx) + 1
            /\ writer_rx'[Len(writer_rx) + 1] = made + 1
        BY <2>3, <3>1, AppendFacts
      <3>3. ASSUME NEW i \in DOMAIN writer_rx', writer_rx'[i] \in Nat PROVE writer_rx'[i] <= made'
        BY <2>1, <3>2, <3>3 DEF UpdatesInOrder
      <3>4. ASSUME NEW i \in DOMAIN writer_rx', NEW j \in DOMAIN writer_rx', i < j,
                   writer_rx'[i] \in Nat, writer_rx'[j] \in Nat
            PROVE  writer_rx'[i] < writer_rx'[j]
        <4>1. i \in DOMAIN writer_rx
          BY <3>2, <3>4
        <4>2. CASE j \in DOMAIN writer_rx
          BY <3>2, <3>4, <4>1, <4>2 DEF UpdatesInOrder
        <4>3. CASE j = Len(writer_rx) + 1
          BY <2>1, <3>2, <3>4, <4>1, <4>3 DEF UpdatesInOrder
        <4> QED  BY <3>2, <4>2, <4>3
      <3> QED  BY <3>3, <3>4 DEF UpdatesInOrder
    <2> QED  BY <1>3, <2>2, <2>3 DEF connect_with_server
  <1>4. CASE UNCHANGED <<writer_rx, made>>
    BY <1>4 DEF UpdatesInOrder
  <1>5. \/ \E m \in Messages : enqueue(m)
        \/ writer_recv \/ connect_with_server \/ UNCHANGED <<writer_rx, made>>
    <2>1. ASSUME NEW m \in Messages, check_not_terminal(m) PROVE UNCHANGED <<writer_rx, made>>
      BY <2>1 DEF check_not_terminal, Call, CallUnchanged, netVars
    <2>2. ASSUME NEW m \in Messages, wait_for_active(m) PROVE UNCHANGED <<writer_rx, made>>
      BY <2>2 DEF wait_for_active, Call, CallUnchanged, netVars
    <2>3. CASE write_top
      BY <2>3 DEF write_top, WriterUnchanged, netVars
    <2>4. CASE drain_reconnect_buffer
      BY <2>4 DEF drain_reconnect_buffer, wrote, trigger_reconnect, WriterUnchanged, netVars
    <2>5. CASE writer_timeout
      BY <2>5 DEF writer_timeout, WriterUnchanged, netVars
    <2>6. CASE writer_send
      BY <2>6 DEF writer_send, wrote, trigger_reconnect, WriterUnchanged, netVars
    <2>7. CASE read_task_ends
      BY <2>7 DEF read_task_ends, netVars
    <2>8. CASE controller_poll
      BY <2>8 DEF controller_poll, goto, ControllerUnchanged
    <2>9. CASE reconnect_attempt
      BY <2>9 DEF reconnect_attempt, goto, reconnect_ok, ControllerUnchanged
    <2>10. CASE reconnect_swap
      BY <2>10 DEF reconnect_swap, reconnect_ok, ControllerUnchanged
    <2>11. CASE reconnect_fails
      BY <2>11 DEF reconnect_fails, reconnect_err, ControllerUnchanged
    <2>12. CASE controller_shutdown
      BY <2>12 DEF controller_shutdown, goto, ControllerUnchanged
    <2>13. CASE controller_end
      BY <2>13 DEF controller_end, goto, ControllerUnchanged
    <2>14. CASE controller_drop
      BY <2>14 DEF controller_drop, clean_drop, goto, ControllerUnchanged
    <2>15. CASE disconnect
      BY <2>15 DEF disconnect, netVars
    <2>16. CASE disconnect_returns
      BY <2>16 DEF disconnect_returns, clean_drop, goto, netVars
    <2>17. CASE ConnectionBreaks
      BY <2>17 DEF ConnectionBreaks
    <2>18. CASE AuthAnswered
      BY <2>18 DEF AuthAnswered
    <2>19. CASE UNCHANGED vars
      BY <2>19 DEF vars
    <2> QED
      BY <2>1, <2>2, <2>3, <2>4, <2>5, <2>6, <2>7, <2>8, <2>9, <2>10, <2>11, <2>12, <2>13, <2>14, <2>15, <2>16, <2>17, <2>18, <2>19
      DEF Next, Calls, WriteTask, Controller, ReconnectStep
  <1> QED  BY <1>1, <1>2, <1>3, <1>4, <1>5

(* The controller turns the client Active only when the writer has taken the *)
(* last session out of its channel, and until then the client is not Active. *)
LEMMA SocketStep ==
    ASSUME TypeOK, Sockets, [Next]_vars
    PROVE  Sockets'
  <1> SUFFICES Attempting' /\ Switched'
    BY UpdatesStep DEF Sockets
  <1> USE DEF Sockets
  <1>1. ASSUME NEW m \in Messages, check_not_terminal(m) PROVE Attempting' /\ Switched'
    BY <1>1
    DEF check_not_terminal, Call, CallUnchanged, netVars,
        Attempting, Switched, NoUpdates, TypeOK, Writer, ControllerState, Terminal
  <1>2. ASSUME NEW m \in Messages, wait_for_active(m) PROVE Attempting' /\ Switched'
    BY <1>2
    DEF wait_for_active, Call, CallUnchanged, netVars,
        Attempting, Switched, NoUpdates, TypeOK, Writer, ControllerState, Terminal
  <1>3. ASSUME NEW m \in Messages, enqueue(m) PROVE Attempting' /\ Switched'
    <2>1. NoUpdates => NoUpdates'
      <3>1. CASE writer_rx' = writer_rx
        BY <3>1 DEF NoUpdates
      <3>2. CASE writer_rx' = Append(writer_rx, m)
        <4>1. m \in Messages \cup Session /\ m \notin Nat /\ writer_rx \in Seq(Messages \cup Session)
          BY SessionFacts DEF TypeOK
        <4> QED  BY <3>2, <4>1, AppendFacts DEF NoUpdates
      <3> QED  BY <1>3, <3>1, <3>2 DEF enqueue
    <2> QED
      BY <1>3, <2>1 DEF enqueue, CallUnchanged, netVars, Attempting, Switched
  <1>4. CASE write_top
    BY <1>4, Zenon
    DEF write_top, WriterUnchanged, netVars,
        Attempting, Switched, NoUpdates, TypeOK, Writer, ControllerState, Terminal
  <1>5. CASE drain_reconnect_buffer
    BY <1>5, Zenon
    DEF drain_reconnect_buffer, wrote, trigger_reconnect, WriterUnchanged, netVars,
        Attempting, Switched, NoUpdates, TypeOK, Writer, ControllerState, Terminal
  <1>6. CASE writer_recv
    <2>1. /\ writer_rx' = Tail(writer_rx) /\ writer_rx # << >>
          /\ writer_rx \in Seq(Messages \cup Session)
          /\ UNCHANGED <<connection_mode, made, read_task>>
      BY <1>6 DEF writer_recv, WriterUnchanged, netVars, TypeOK
    <2>2. /\ 1 \in DOMAIN writer_rx /\ Head(writer_rx) = writer_rx[1]
          /\ \A i \in DOMAIN writer_rx' :
                i \in Nat /\ i + 1 \in DOMAIN writer_rx /\ writer_rx'[i] = writer_rx[i + 1]
      BY <2>1, TailFacts
    <2>3. NoUpdates => NoUpdates'
      BY <2>2 DEF NoUpdates
    <2>4. CASE UNCHANGED controller /\ writer'.session = writer.session
      BY <2>1, <2>3, <2>4 DEF Attempting, Switched
    <2>5. CASE Head(writer_rx) \in Session /\ writer_update(Head(writer_rx))
      <3>1. ~NoUpdates
        BY <2>2, <2>5, SessionFacts DEF NoUpdates
      <3>2. connection_mode # "Active" /\ controller.pc # "swap"
        BY <3>1 DEF Switched
      <3>3. CASE controller.pc = "confirm" /\ controller.session = Head(writer_rx)
        <4>1. controller' = [controller EXCEPT !.pc = "swap"]
              /\ writer'.session = Head(writer_rx)
          BY <2>5, <3>3 DEF writer_update, TypeOK, Writer
        <4>2. Head(writer_rx) = made /\ made \in Nat
          BY <3>3, SessionFacts DEF Attempting
        <4>3. ASSUME NEW i \in DOMAIN writer_rx', writer_rx'[i] \in Nat
              PROVE  FALSE
          <5>1. writer_rx[i + 1] <= made /\ writer_rx[i + 1] \in Nat /\ i + 1 \in DOMAIN writer_rx
            BY <2>2, <4>3 DEF UpdatesInOrder
          <5>2. DOMAIN writer_rx = 1 .. Len(writer_rx) /\ DOMAIN writer_rx' = 1 .. Len(writer_rx')
            BY <2>1, TailFacts
          <5>3. 1 < i + 1
            BY <5>2
          <5>4. writer_rx[1] < writer_rx[i + 1]
            BY <2>2, <4>2, <5>1, <5>3 DEF UpdatesInOrder
          <5> QED  BY <2>2, <4>2, <5>1, <5>4
        <4>4. NoUpdates'
          BY <4>3 DEF NoUpdates
        <4>5. controller'.pc = "swap" /\ controller'.session = controller.session
          BY <4>1 DEF TypeOK, ControllerState
        <4> QED
          BY <2>1, <3>2, <3>3, <4>1, <4>2, <4>4, <4>5 DEF Attempting, Switched
      <3>4. CASE ~(controller.pc = "confirm" /\ controller.session = Head(writer_rx))
        <4>1. UNCHANGED controller
          BY <2>5, <3>4 DEF writer_update
        <4> QED  BY <2>1, <3>2, <4>1 DEF Attempting, Switched
      <3> QED  BY <3>3, <3>4
    <2> QED
      BY <1>6, <2>4, <2>5, Zenon DEF writer_recv, TypeOK, Writer
  <1>7. CASE writer_timeout
    BY <1>7
    DEF writer_timeout, WriterUnchanged, netVars,
        Attempting, Switched, NoUpdates, TypeOK, Writer, ControllerState, Terminal
  <1>8. CASE writer_send
    BY <1>8, Zenon
    DEF writer_send, wrote, trigger_reconnect, WriterUnchanged, netVars,
        Attempting, Switched, NoUpdates, TypeOK, Writer, ControllerState, Terminal
  <1>9. CASE read_task_ends
    BY <1>9
    DEF read_task_ends, netVars,
        Attempting, Switched, NoUpdates, TypeOK, Writer, ControllerState, Terminal
  <1>10. CASE controller_poll
    BY <1>10
    DEF controller_poll, goto, ControllerUnchanged,
        Attempting, Switched, NoUpdates, TypeOK, Writer, ControllerState, Terminal
  <1>11. CASE reconnect_attempt
    <2>1. controller'.pc \in {"end", "poll", "connect"}
      <3>1. \/ controller' = [controller EXCEPT !.pc = "end"]
            \/ controller' = [pc |-> "poll", attempts |-> 0, session |-> 0]
            \/ controller' = [controller EXCEPT !.pc = "connect", !.attempts = @ + 1]
        BY <1>11 DEF reconnect_attempt, goto, reconnect_ok
      <3>2. /\ [controller EXCEPT !.pc = "end"].pc = "end"
            /\ [controller EXCEPT !.pc = "connect", !.attempts = @ + 1].pc = "connect"
            /\ [pc |-> "poll", attempts |-> 0, session |-> 0].pc = "poll"
        BY DEF TypeOK, ControllerState
      <3> QED  BY <3>1, <3>2, Zenon
    <2>2. connection_mode' # "Active"
      BY <1>11 DEF reconnect_attempt, Attempting
    <2> QED  BY <2>1, <2>2 DEF Attempting, Switched
  <1>12. CASE connect_with_server
    <2>1. \/ controller'.pc = "poll"
          \/ controller'.pc = "confirm" /\ controller'.session = made + 1
      <3>1. \/ controller' = [pc |-> "poll", attempts |-> 0, session |-> 0]
            \/ controller' = [controller EXCEPT !.pc = "poll", !.session = 0]
            \/ controller' = [controller EXCEPT !.pc = "confirm", !.session = made + 1]
        BY <1>12 DEF connect_with_server, reconnect_ok, reconnect_err
      <3>2. /\ [controller EXCEPT !.pc = "poll", !.session = 0].pc = "poll"
            /\ [controller EXCEPT !.pc = "confirm", !.session = made + 1].pc = "confirm"
            /\ [controller EXCEPT !.pc = "confirm", !.session = made + 1].session = made + 1
            /\ [pc |-> "poll", attempts |-> 0, session |-> 0].pc = "poll"
        BY DEF TypeOK, ControllerState
      <3> QED  BY <3>1, <3>2, Zenon
    <2>2. connection_mode' # "Active" /\ made' = made + 1
      BY <1>12 DEF connect_with_server, Attempting
    <2> QED  BY <2>1, <2>2 DEF Attempting, Switched
  <1>13. CASE reconnect_swap
    BY <1>13
    DEF reconnect_swap, reconnect_ok, ControllerUnchanged,
        Attempting, Switched, NoUpdates, TypeOK, Writer, ControllerState, Terminal
  <1>14. CASE reconnect_fails
    BY <1>14
    DEF reconnect_fails, reconnect_err, ControllerUnchanged,
        Attempting, Switched, NoUpdates, TypeOK, Writer, ControllerState, Terminal
  <1>15. CASE controller_shutdown
    BY <1>15
    DEF controller_shutdown, goto, ControllerUnchanged,
        Attempting, Switched, NoUpdates, TypeOK, Writer, ControllerState, Terminal
  <1>16. CASE controller_end
    BY <1>16
    DEF controller_end, goto, ControllerUnchanged,
        Attempting, Switched, NoUpdates, TypeOK, Writer, ControllerState, Terminal
  <1>17. CASE controller_drop
    BY <1>17
    DEF controller_drop, clean_drop, goto, ControllerUnchanged,
        Attempting, Switched, NoUpdates, TypeOK, Writer, ControllerState, Terminal
  <1>18. CASE disconnect
    BY <1>18
    DEF disconnect, netVars,
        Attempting, Switched, NoUpdates, TypeOK, Writer, ControllerState, Terminal
  <1>19. CASE disconnect_returns
    BY <1>19
    DEF disconnect_returns, clean_drop, goto, netVars,
        Attempting, Switched, NoUpdates, TypeOK, Writer, ControllerState, Terminal
  <1>20. CASE ConnectionBreaks
    BY <1>20
    DEF ConnectionBreaks,
        Attempting, Switched, NoUpdates, TypeOK, Writer, ControllerState, Terminal
  <1>21. CASE AuthAnswered
    BY <1>21
    DEF AuthAnswered,
        Attempting, Switched, NoUpdates, TypeOK, Writer, ControllerState, Terminal
  <1>22. CASE UNCHANGED vars
    BY <1>22
    DEF vars,
        Attempting, Switched, NoUpdates, TypeOK, Writer, ControllerState, Terminal
  <1> QED
    BY <1>1, <1>2, <1>3, <1>4, <1>5, <1>6, <1>7, <1>8, <1>9, <1>10, <1>11, <1>12, <1>13, <1>14, <1>15, <1>16, <1>17, <1>18, <1>19, <1>20, <1>21, <1>22
    DEF Next, Calls, WriteTask, Controller, ReconnectStep

-----------------------------------------------------------------------------
(* The messages: where one that was accepted can be. *)

(* Once the client is disconnected or has given up it stays so. *)
LEMMA StoppedStays ==
    ASSUME TypeOK, Stopped, [Next]_vars
    PROVE  Stopped'
  <1> USE DEF Stopped
  <1>1. ASSUME NEW m \in Messages, check_not_terminal(m) PROVE Stopped'
    BY <1>1
    DEF check_not_terminal, Call, CallUnchanged, netVars,
        TypeOK, ControllerState
  <1>2. ASSUME NEW m \in Messages, wait_for_active(m) PROVE Stopped'
    BY <1>2
    DEF wait_for_active, Call, CallUnchanged, netVars,
        TypeOK, ControllerState
  <1>3. ASSUME NEW m \in Messages, enqueue(m) PROVE Stopped'
    BY <1>3
    DEF enqueue, Call, CallUnchanged, netVars,
        TypeOK, ControllerState
  <1>4. CASE write_top
    BY <1>4
    DEF write_top, WriterUnchanged, netVars,
        TypeOK, ControllerState
  <1>5. CASE drain_reconnect_buffer
    BY <1>5
    DEF drain_reconnect_buffer, wrote, trigger_reconnect, WriterUnchanged, netVars,
        TypeOK, ControllerState
  <1>6. CASE writer_recv
    BY <1>6
    DEF writer_recv, writer_update, WriterUnchanged, netVars,
        TypeOK, ControllerState
  <1>7. CASE writer_timeout
    BY <1>7
    DEF writer_timeout, WriterUnchanged, netVars,
        TypeOK, ControllerState
  <1>8. CASE writer_send
    BY <1>8
    DEF writer_send, wrote, trigger_reconnect, WriterUnchanged, netVars,
        TypeOK, ControllerState
  <1>9. CASE read_task_ends
    BY <1>9
    DEF read_task_ends, netVars,
        TypeOK, ControllerState
  <1>10. CASE controller_poll
    BY <1>10
    DEF controller_poll, goto, ControllerUnchanged,
        TypeOK, ControllerState
  <1>11. CASE reconnect_attempt
    BY <1>11
    DEF reconnect_attempt, goto, reconnect_ok, ControllerUnchanged,
        TypeOK, ControllerState
  <1>12. CASE connect_with_server
    BY <1>12
    DEF connect_with_server, reconnect_ok, reconnect_err, ControllerUnchanged,
        TypeOK, ControllerState
  <1>13. CASE reconnect_swap
    BY <1>13
    DEF reconnect_swap, reconnect_ok, ControllerUnchanged,
        TypeOK, ControllerState
  <1>14. CASE reconnect_fails
    BY <1>14
    DEF reconnect_fails, reconnect_err, ControllerUnchanged,
        TypeOK, ControllerState
  <1>15. CASE controller_shutdown
    BY <1>15
    DEF controller_shutdown, goto, ControllerUnchanged,
        TypeOK, ControllerState
  <1>16. CASE controller_end
    BY <1>16
    DEF controller_end, goto, ControllerUnchanged,
        TypeOK, ControllerState
  <1>17. CASE controller_drop
    BY <1>17
    DEF controller_drop, clean_drop, goto, ControllerUnchanged,
        TypeOK, ControllerState
  <1>18. CASE disconnect
    BY <1>18
    DEF disconnect, netVars,
        TypeOK, ControllerState
  <1>19. CASE disconnect_returns
    BY <1>19
    DEF disconnect_returns, clean_drop, goto, netVars,
        TypeOK, ControllerState
  <1>20. CASE ConnectionBreaks
    BY <1>20
    DEF ConnectionBreaks,
        TypeOK, ControllerState
  <1>21. CASE AuthAnswered
    BY <1>21
    DEF AuthAnswered,
        TypeOK, ControllerState
  <1>22. CASE UNCHANGED vars
    BY <1>22
    DEF vars,
        TypeOK, ControllerState
  <1> QED
    BY <1>1, <1>2, <1>3, <1>4, <1>5, <1>6, <1>7, <1>8, <1>9, <1>10, <1>11, <1>12, <1>13, <1>14, <1>15, <1>16, <1>17, <1>18, <1>19, <1>20, <1>21, <1>22
    DEF Next, Calls, WriteTask, Controller, ReconnectStep

(* The write task ends, and the mode becomes terminal, only once the client *)
(* is disconnected or has given up.                                         *)
LEMMA StoppingStep ==
    ASSUME TypeOK, Stopping, [Next]_vars
    PROVE  Stopping'
  <1> USE DEF Stopping
  <1>1. ASSUME NEW m \in Messages, check_not_terminal(m) PROVE Stopping'
    BY <1>1, StoppedStays
    DEF check_not_terminal, Call, CallUnchanged, netVars,
        Stopped, Terminal, TypeOK, Writer, ControllerState
  <1>2. ASSUME NEW m \in Messages, wait_for_active(m) PROVE Stopping'
    BY <1>2, StoppedStays
    DEF wait_for_active, Call, CallUnchanged, netVars,
        Stopped, Terminal, TypeOK, Writer, ControllerState
  <1>3. ASSUME NEW m \in Messages, enqueue(m) PROVE Stopping'
    BY <1>3, StoppedStays
    DEF enqueue, Call, CallUnchanged, netVars,
        Stopped, Terminal, TypeOK, Writer, ControllerState
  <1>4. CASE write_top
    BY <1>4, StoppedStays
    DEF write_top, WriterUnchanged, netVars,
        Stopped, Terminal, TypeOK, Writer, ControllerState
  <1>5. CASE drain_reconnect_buffer
    BY <1>5, StoppedStays, Zenon
    DEF drain_reconnect_buffer, wrote, trigger_reconnect, WriterUnchanged, netVars,
        Stopped, Terminal, TypeOK, Writer, ControllerState
  <1>6. CASE writer_recv
    BY <1>6, StoppedStays, Zenon
    DEF writer_recv, writer_update, WriterUnchanged, netVars,
        Stopped, Terminal, TypeOK, Writer, ControllerState
  <1>7. CASE writer_timeout
    BY <1>7, StoppedStays
    DEF writer_timeout, WriterUnchanged, netVars,
        Stopped, Terminal, TypeOK, Writer, ControllerState
  <1>8. CASE writer_send
    BY <1>8, StoppedStays, Zenon
    DEF writer_send, wrote, trigger_reconnect, WriterUnchanged, netVars,
        Stopped, Terminal, TypeOK, Writer, ControllerState
  <1>9. CASE read_task_ends
    BY <1>9, StoppedStays
    DEF read_task_ends, netVars,
        Stopped, Terminal, TypeOK, Writer, ControllerState
  <1>10. CASE controller_poll
    BY <1>10, StoppedStays
    DEF controller_poll, goto, ControllerUnchanged,
        Stopped, Terminal, TypeOK, Writer, ControllerState
  <1>11. CASE reconnect_attempt
    BY <1>11, StoppedStays
    DEF reconnect_attempt, goto, reconnect_ok, ControllerUnchanged,
        Stopped, Terminal, TypeOK, Writer, ControllerState
  <1>12. CASE connect_with_server
    BY <1>12, StoppedStays
    DEF connect_with_server, reconnect_ok, reconnect_err, ControllerUnchanged,
        Stopped, Terminal, TypeOK, Writer, ControllerState
  <1>13. CASE reconnect_swap
    BY <1>13, StoppedStays
    DEF reconnect_swap, reconnect_ok, ControllerUnchanged,
        Stopped, Terminal, TypeOK, Writer, ControllerState
  <1>14. CASE reconnect_fails
    BY <1>14, StoppedStays
    DEF reconnect_fails, reconnect_err, ControllerUnchanged,
        Stopped, Terminal, TypeOK, Writer, ControllerState
  <1>15. CASE controller_shutdown
    BY <1>15, StoppedStays
    DEF controller_shutdown, goto, ControllerUnchanged,
        Stopped, Terminal, TypeOK, Writer, ControllerState
  <1>16. CASE controller_end
    BY <1>16, StoppedStays
    DEF controller_end, goto, ControllerUnchanged,
        Stopped, Terminal, TypeOK, Writer, ControllerState
  <1>17. CASE controller_drop
    BY <1>17, StoppedStays
    DEF controller_drop, clean_drop, goto, ControllerUnchanged,
        Stopped, Terminal, TypeOK, Writer, ControllerState
  <1>18. CASE disconnect
    BY <1>18, StoppedStays
    DEF disconnect, netVars,
        Stopped, Terminal, TypeOK, Writer, ControllerState
  <1>19. CASE disconnect_returns
    BY <1>19, StoppedStays
    DEF disconnect_returns, clean_drop, goto, netVars,
        Stopped, Terminal, TypeOK, Writer, ControllerState
  <1>20. CASE ConnectionBreaks
    BY <1>20, StoppedStays
    DEF ConnectionBreaks,
        Stopped, Terminal, TypeOK, Writer, ControllerState
  <1>21. CASE AuthAnswered
    BY <1>21, StoppedStays
    DEF AuthAnswered,
        Stopped, Terminal, TypeOK, Writer, ControllerState
  <1>22. CASE UNCHANGED vars
    BY <1>22, StoppedStays
    DEF vars,
        Stopped, Terminal, TypeOK, Writer, ControllerState
  <1> QED
    BY <1>1, <1>2, <1>3, <1>4, <1>5, <1>6, <1>7, <1>8, <1>9, <1>10, <1>11, <1>12, <1>13, <1>14, <1>15, <1>16, <1>17, <1>18, <1>19, <1>20, <1>21, <1>22
    DEF Next, Calls, WriteTask, Controller, ReconnectStep

(* Only a write task that is sending has a message of its own, and just one. *)
LEMMA HoldingStep ==
    ASSUME TypeOK, Holding, [Next]_vars
    PROVE  Holding'
  <1> USE DEF Holding
  <1>1. ASSUME NEW m \in Messages, check_not_terminal(m) PROVE Holding'
    BY <1>1
    DEF check_not_terminal, Call, CallUnchanged, netVars,
        TypeOK, Writer
  <1>2. ASSUME NEW m \in Messages, wait_for_active(m) PROVE Holding'
    BY <1>2
    DEF wait_for_active, Call, CallUnchanged, netVars,
        TypeOK, Writer
  <1>3. ASSUME NEW m \in Messages, enqueue(m) PROVE Holding'
    BY <1>3
    DEF enqueue, Call, CallUnchanged, netVars,
        TypeOK, Writer
  <1>4. CASE write_top
    BY <1>4, Zenon
    DEF write_top, WriterUnchanged, netVars,
        TypeOK, Writer
  <1>5. CASE drain_reconnect_buffer
    BY <1>5, Zenon
    DEF drain_reconnect_buffer, wrote, trigger_reconnect, WriterUnchanged, netVars,
        TypeOK, Writer
  <1>6. CASE writer_recv
    BY <1>6, Zenon
    DEF writer_recv, writer_update, WriterUnchanged, netVars,
        TypeOK, Writer
  <1>7. CASE writer_timeout
    BY <1>7
    DEF writer_timeout, WriterUnchanged, netVars,
        TypeOK, Writer
  <1>8. CASE writer_send
    BY <1>8, Zenon
    DEF writer_send, wrote, trigger_reconnect, WriterUnchanged, netVars,
        TypeOK, Writer
  <1>9. CASE read_task_ends
    BY <1>9
    DEF read_task_ends, netVars,
        TypeOK, Writer
  <1>10. CASE controller_poll
    BY <1>10
    DEF controller_poll, goto, ControllerUnchanged,
        TypeOK, Writer
  <1>11. CASE reconnect_attempt
    BY <1>11
    DEF reconnect_attempt, goto, reconnect_ok, ControllerUnchanged,
        TypeOK, Writer
  <1>12. CASE connect_with_server
    BY <1>12
    DEF connect_with_server, reconnect_ok, reconnect_err, ControllerUnchanged,
        TypeOK, Writer
  <1>13. CASE reconnect_swap
    BY <1>13
    DEF reconnect_swap, reconnect_ok, ControllerUnchanged,
        TypeOK, Writer
  <1>14. CASE reconnect_fails
    BY <1>14
    DEF reconnect_fails, reconnect_err, ControllerUnchanged,
        TypeOK, Writer
  <1>15. CASE controller_shutdown
    BY <1>15
    DEF controller_shutdown, goto, ControllerUnchanged,
        TypeOK, Writer
  <1>16. CASE controller_end
    BY <1>16
    DEF controller_end, goto, ControllerUnchanged,
        TypeOK, Writer
  <1>17. CASE controller_drop
    BY <1>17
    DEF controller_drop, clean_drop, goto, ControllerUnchanged,
        TypeOK, Writer
  <1>18. CASE disconnect
    BY <1>18
    DEF disconnect, netVars,
        TypeOK, Writer
  <1>19. CASE disconnect_returns
    BY <1>19, Zenon
    DEF disconnect_returns, clean_drop, goto, netVars,
        TypeOK, Writer
  <1>20. CASE ConnectionBreaks
    BY <1>20
    DEF ConnectionBreaks,
        TypeOK, Writer
  <1>21. CASE AuthAnswered
    BY <1>21
    DEF AuthAnswered,
        TypeOK, Writer
  <1>22. CASE UNCHANGED vars
    BY <1>22
    DEF vars,
        TypeOK, Writer
  <1> QED
    BY <1>1, <1>2, <1>3, <1>4, <1>5, <1>6, <1>7, <1>8, <1>9, <1>10, <1>11, <1>12, <1>13, <1>14, <1>15, <1>16, <1>17, <1>18, <1>19, <1>20, <1>21, <1>22
    DEF Next, Calls, WriteTask, Controller, ReconnectStep

(* A message stays kept when no call returns and it leaves no place but for another. *)
LEMMA KeptBy ==
    ASSUME Kept, calls' = calls,
           \A m \in Messages : m \in Held \cup Written \cup discarded
                               => m \in (Held \cup Written \cup discarded)',
           Stopped => Stopped'
    PROVE  Kept'
  BY DEF Kept

(* What send_text accepted stays in the channel, with the write task, in its *)
(* buffer, written or discarded.                                             *)
LEMMA KeptStep ==
    ASSUME TypeOK, Stopping, Holding, Kept, [Next]_vars
    PROVE  Kept'
  <1>1. Stopped => Stopped'
    BY StoppedStays
  <1>2. ASSUME NEW m \in Messages, enqueue(m) PROVE Kept'
    <2>1. CASE writer.pc = "done"
      BY <1>1, <1>2, <2>1 DEF Stopping, Kept, Stopped, enqueue, CallUnchanged
    <2>2. CASE writer.pc # "done"
      <3>1. writer_rx' = Append(writer_rx, m) /\ UNCHANGED <<writer, sent, discarded>>
        BY <1>2, <2>2 DEF enqueue, CallUnchanged
      <3>2. Range(writer_rx') = Range(writer_rx) \cup {m}
        BY <3>1, AppendFacts DEF TypeOK
      <3>3. \A n \in Messages : calls'[n] = "ok" => calls[n] = "ok" \/ n = m
        BY <1>2 DEF enqueue, Call, TypeOK
      <3> QED  BY <1>1, <3>1, <3>2, <3>3 DEF Kept, Held, Written
    <2> QED  BY <2>1, <2>2
  <1>3. CASE write_top
    <2>1. CASE connection_mode \in Terminal
      BY <1>1, <2>1 DEF Stopping, Kept
    <2>2. CASE connection_mode \notin Terminal
      <3>1. /\ UNCHANGED <<calls, writer_rx, sent>>
            /\ writer'.msg = writer.msg
        BY <1>3, <2>2 DEF write_top, WriterUnchanged, TypeOK, Writer
      <3>2. Range(writer.reconnect_buffer) \subseteq Range(writer'.reconnect_buffer) \cup discarded'
        BY <1>3, <2>2 DEF write_top, TypeOK, Writer
      <3>3. discarded \subseteq discarded'
        BY <1>3 DEF write_top
      <3> QED  BY <1>1, <3>1, <3>2, <3>3, KeptBy DEF Held, Written
    <2> QED  BY <2>1, <2>2
  <1>4. CASE drain_reconnect_buffer
    <2>1. UNCHANGED <<calls, writer_rx, discarded>> /\ writer'.msg = writer.msg
      BY <1>4, Zenon DEF drain_reconnect_buffer, WriterUnchanged, TypeOK, Writer
    <2>2. CASE UNCHANGED sent /\ writer'.reconnect_buffer = writer.reconnect_buffer
      BY <1>1, <2>1, <2>2, KeptBy DEF Held, Written
    <2>3. CASE /\ writer.reconnect_buffer # << >>
               /\ wrote(Head(writer.reconnect_buffer), TRUE)
               /\ writer' = [writer EXCEPT !.reconnect_buffer = Tail(@)]
      <3>1. /\ writer'.reconnect_buffer = Tail(writer.reconnect_buffer)
            /\ writer.reconnect_buffer \in Seq(Messages)
        BY <2>3 DEF TypeOK, Writer
      <3>2. Range(writer.reconnect_buffer)
              = {Head(writer.reconnect_buffer)} \cup Range(writer'.reconnect_buffer)
        BY <2>3, <3>1, TailFacts
      <3>3. Written' = Written \cup {Head(writer.reconnect_buffer)}
        <4> DEFINE w == <<Head(writer.reconnect_buffer), writer.session, TRUE>>
        <4>1. sent' = sent \cup {w} /\ w[1] = Head(writer.reconnect_buffer)
          BY <2>3 DEF wrote
        <4> HIDE DEF w
        <4> QED  BY <4>1 DEF Written
      <3> QED  BY <1>1, <2>1, <3>2, <3>3, KeptBy DEF Held
    <2> QED
      BY <1>4, <2>2, <2>3, Zenon DEF drain_reconnect_buffer, trigger_reconnect, TypeOK, Writer
  <1>5. CASE writer_recv
    <2>1. /\ writer_rx # << >> /\ writer_rx \in Seq(Messages \cup Session)
          /\ writer_rx' = Tail(writer_rx)
          /\ UNCHANGED <<calls, sent, discarded>>
          /\ writer.msg = {}
      BY <1>5 DEF writer_recv, WriterUnchanged, TypeOK, Holding
    <2>2. Range(writer_rx) = {Head(writer_rx)} \cup Range(writer_rx')
      BY <2>1, TailFacts
    <2>3. CASE connection_mode \in Terminal
      BY <1>1, <2>3 DEF Stopping, Kept
    <2>4. CASE Head(writer_rx) \in Session /\ writer_update(Head(writer_rx))
      <3>1. Head(writer_rx) \notin Messages
        BY <2>4, SessionFacts
      <3>2. writer'.reconnect_buffer = writer.reconnect_buffer
        BY <2>4 DEF writer_update, TypeOK, Writer
      <3> QED  BY <1>1, <2>1, <2>2, <3>1, <3>2, KeptBy DEF Held, Written
    <2>5. CASE /\ Head(writer_rx) \in Messages
               /\ writer' = [writer EXCEPT !.pc = "top",
                                           !.reconnect_buffer = Append(@, Head(writer_rx))]
      <3>1. /\ writer'.reconnect_buffer = Append(writer.reconnect_buffer, Head(writer_rx))
            /\ writer.reconnect_buffer \in Seq(Messages)
        BY <2>5 DEF TypeOK, Writer
      <3>2. Range(writer'.reconnect_buffer) = Range(writer.reconnect_buffer) \cup {Head(writer_rx)}
        BY <2>5, <3>1, AppendFacts
      <3> QED  BY <1>1, <2>1, <2>2, <3>2, KeptBy DEF Held, Written
    <2>6. CASE /\ Head(writer_rx) \in Messages
               /\ writer' = [writer EXCEPT !.pc = "send", !.msg = {Head(writer_rx)}]
      <3>1. /\ writer'.reconnect_buffer = writer.reconnect_buffer
            /\ writer'.msg = {Head(writer_rx)}
        BY <2>6 DEF TypeOK, Writer
      <3> QED  BY <1>1, <2>1, <2>2, <3>1, KeptBy DEF Held, Written
    <2> QED
      BY <1>5, <2>3, <2>4, <2>5, <2>6 DEF writer_recv
  <1>6. CASE writer_send
    <2>1. PICK m \in writer.msg :
             \/ wrote(m, FALSE) /\ writer' = [writer EXCEPT !.pc = "top", !.msg = {}]
             \/ /\ UNCHANGED sent
                /\ writer' = [writer EXCEPT !.pc = "top", !.msg = {},
                                            !.reconnect_buffer = Append(@, m)]
      BY <1>6, Zenon DEF writer_send, trigger_reconnect
    <2>2. /\ UNCHANGED <<calls, writer_rx, discarded>> /\ writer.msg = {m} /\ m \in Messages
          /\ writer.reconnect_buffer \in Seq(Messages)
      BY <1>6, <2>1 DEF writer_send, WriterUnchanged, Holding, TypeOK, Writer
    <2>3. CASE wrote(m, FALSE) /\ writer' = [writer EXCEPT !.pc = "top", !.msg = {}]
      <3>1. writer'.reconnect_buffer = writer.reconnect_buffer
        BY <2>3 DEF TypeOK, Writer
      <3>2. Written' = Written \cup {m}
        <4> DEFINE w == <<m, writer.session, FALSE>>
        <4>1. sent' = sent \cup {w} /\ w[1] = m
          BY <2>3 DEF wrote
        <4> HIDE DEF w
        <4> QED  BY <4>1 DEF Written
      <3> QED  BY <1>1, <2>2, <3>1, <3>2, KeptBy DEF Held
    <2>4. CASE /\ UNCHANGED sent
               /\ writer' = [writer EXCEPT !.pc = "top", !.msg = {},
                                           !.reconnect_buffer = Append(@, m)]
      <3>1. writer'.reconnect_buffer = Append(writer.reconnect_buffer, m)
        BY <2>4 DEF TypeOK, Writer
      <3>2. Range(writer'.reconnect_buffer) = Range(writer.reconnect_buffer) \cup {m}
        BY <2>2, <3>1, AppendFacts
      <3> QED  BY <1>1, <2>2, <2>4, <3>2, KeptBy DEF Held, Written
    <2> QED  BY <2>1, <2>3, <2>4, Zenon
  <1>7. CASE connect_with_server
    <2>1. CASE UNCHANGED <<writer_rx, writer, calls, sent, discarded>>
      BY <1>1, <2>1, KeptBy DEF Held, Written
    <2>2. CASE writer_rx' = Append(writer_rx, made + 1) /\ UNCHANGED <<writer, calls, sent, discarded>>
      <3>1. made + 1 \in Messages \cup Session /\ writer_rx \in Seq(Messages \cup Session)
        BY <1>7, WebSocketAssumption DEF connect_with_server, TypeOK, Session
      <3>2. Range(writer_rx') = Range(writer_rx) \cup {made + 1}
        BY <2>2, <3>1, AppendFacts
      <3> QED  BY <1>1, <2>2, <3>2, KeptBy DEF Held, Written
    <2> QED  BY <1>7, <2>1, <2>2 DEF connect_with_server, ControllerUnchanged
  <1>8. CASE clean_drop
    <2>1. Stopped'
      BY <1>8 DEF clean_drop, goto, Stopped, TypeOK, ControllerState
    <2> QED  BY <2>1 DEF Kept
  <1>9. CASE /\ UNCHANGED <<writer_rx, sent, discarded>>
             /\ writer'.msg = writer.msg /\ writer'.reconnect_buffer = writer.reconnect_buffer
             /\ \A m \in Messages : calls'[m] = "ok" => calls[m] = "ok"
    BY <1>1, <1>9 DEF Kept, Held, Written
  <1>10. \/ \E m \in Messages : enqueue(m)
         \/ write_top \/ drain_reconnect_buffer \/ writer_recv \/ writer_send
         \/ connect_with_server \/ clean_drop
         \/ /\ UNCHANGED <<writer_rx, sent, discarded>>
            /\ writer'.msg = writer.msg /\ writer'.reconnect_buffer = writer.reconnect_buffer
            /\ \A m \in Messages : calls'[m] = "ok" => calls[m] = "ok"
    <2>1. ASSUME NEW m \in Messages, check_not_terminal(m)
          PROVE  /\ UNCHANGED <<writer, writer_rx, sent, discarded>>
                 /\ \A n \in Messages : calls'[n] = "ok" => calls[n] = "ok"
      BY <2>1 DEF check_not_terminal, Call, CallUnchanged, netVars, TypeOK
    <2>2. ASSUME NEW m \in Messages, wait_for_active(m)
          PROVE  /\ UNCHANGED <<writer, writer_rx, sent, discarded>>
                 /\ \A n \in Messages : calls'[n] = "ok" => calls[n] = "ok"
      BY <2>2 DEF wait_for_active, Call, CallUnchanged, netVars, TypeOK
    <2>3. CASE writer_timeout
      BY <2>3 DEF writer_timeout, WriterUnchanged, netVars, TypeOK, Writer
    <2>4. CASE read_task_ends
      BY <2>4 DEF read_task_ends, netVars
    <2>5. CASE controller_poll
      BY <2>5 DEF controller_poll, goto, ControllerUnchanged
    <2>6. CASE reconnect_attempt
      BY <2>6 DEF reconnect_attempt, goto, reconnect_ok, ControllerUnchanged
    <2>7. CASE reconnect_swap
      BY <2>7 DEF reconnect_swap, reconnect_ok, ControllerUnchanged
    <2>8. CASE reconnect_fails
      BY <2>8 DEF reconnect_fails, reconnect_err, ControllerUnchanged
    <2>9. CASE controller_shutdown
      BY <2>9 DEF controller_shutdown, goto, ControllerUnchanged
    <2>10. CASE controller_end
      BY <2>10 DEF controller_end, goto, ControllerUnchanged
    <2>11. CASE controller_drop
      BY <2>11 DEF controller_drop, ControllerUnchanged
    <2>12. CASE disconnect
      BY <2>12 DEF disconnect, netVars
    <2>13. CASE disconnect_returns
      BY <2>13 DEF disconnect_returns, netVars
    <2>14. CASE ConnectionBreaks
      BY <2>14 DEF ConnectionBreaks
    <2>15. CASE AuthAnswered
      BY <2>15 DEF AuthAnswered
    <2>16. CASE UNCHANGED vars
      BY <2>16 DEF vars
    <2> QED
      BY <2>1, <2>2, <2>3, <2>4, <2>5, <2>6, <2>7, <2>8, <2>9, <2>10, <2>11, <2>12, <2>13, <2>14, <2>15, <2>16, Zenon
      DEF Next, Calls, WriteTask, Controller, ReconnectStep
  <1> QED  BY <1>2, <1>3, <1>4, <1>5, <1>6, <1>7, <1>8, <1>9, <1>10

-----------------------------------------------------------------------------
(* Authentication.  The tracker's state is about the session being written *)
(* to: it is cleared before the writer can switch.                          *)
LEMMA AuthCurrentStep ==
    ASSUME TypeOK, Sockets, AuthCurrent, [Next]_vars
    PROVE  AuthCurrent'
  <1>1. ASSUME NEW m \in Messages, check_not_terminal(m) PROVE AuthCurrent'
    BY <1>1
    DEF check_not_terminal, Call, CallUnchanged, netVars,
        AuthCurrent, TypeOK, Writer, Terminal
  <1>2. ASSUME NEW m \in Messages, wait_for_active(m) PROVE AuthCurrent'
    BY <1>2
    DEF wait_for_active, Call, CallUnchanged, netVars,
        AuthCurrent, TypeOK, Writer, Terminal
  <1>3. ASSUME NEW m \in Messages, enqueue(m) PROVE AuthCurrent'
    BY <1>3
    DEF enqueue, Call, CallUnchanged, netVars,
        AuthCurrent, TypeOK, Writer, Terminal
  <1>4. CASE write_top
    <2>1. /\ writer'.session = writer.session
          /\ writer'.pc = "drain" => connection_mode = "Active" /\ can_drain_reconnect_buffer = "Drain"
          /\ UNCHANGED <<connection_mode, auth, authed>>
      BY <1>4, Zenon DEF write_top, WriterUnchanged, netVars, TypeOK, Writer
    <2>2. can_drain_reconnect_buffer = "Drain" /\ reconnect_buffer_waits_for_auth
              => auth = "Authenticated"
      BY DEF can_drain_reconnect_buffer, TypeOK
    <2> QED  BY <2>1, <2>2 DEF AuthCurrent
  <1>5. CASE drain_reconnect_buffer
    BY <1>5, Zenon
    DEF drain_reconnect_buffer, wrote, trigger_reconnect, WriterUnchanged, netVars,
        AuthCurrent, TypeOK, Writer, Terminal
  <1>6. CASE writer_recv
    <2>1. UNCHANGED <<connection_mode, auth, authed>>
      BY <1>6 DEF writer_recv, WriterUnchanged, netVars
    <2>2. CASE writer'.session = writer.session /\ writer'.pc # "drain"
      BY <2>1, <2>2 DEF AuthCurrent
    <2>3. CASE Head(writer_rx) \in Session /\ writer_update(Head(writer_rx))
      <3>1. 1 \in DOMAIN writer_rx /\ Head(writer_rx) = writer_rx[1]
        BY <1>6, TailFacts DEF writer_recv, TypeOK
      <3>2. connection_mode # "Active"
        BY <2>3, <3>1, SessionFacts DEF Sockets, Switched, NoUpdates
      <3>3. writer'.pc = "top"
        BY <2>3 DEF writer_update, TypeOK, Writer
      <3> QED  BY <2>1, <3>2, <3>3 DEF AuthCurrent
    <2> QED  BY <1>6, <2>2, <2>3, Zenon DEF writer_recv, TypeOK, Writer
  <1>7. CASE writer_timeout
    BY <1>7
    DEF writer_timeout, WriterUnchanged, netVars,
        AuthCurrent, TypeOK, Writer, Terminal
  <1>8. CASE writer_send
    BY <1>8, Zenon
    DEF writer_send, wrote, trigger_reconnect, WriterUnchanged, netVars,
        AuthCurrent, TypeOK, Writer, Terminal
  <1>9. CASE read_task_ends
    BY <1>9
    DEF read_task_ends, netVars,
        AuthCurrent, TypeOK, Writer, Terminal
  <1>10. CASE controller_poll
    BY <1>10
    DEF controller_poll, goto, ControllerUnchanged,
        AuthCurrent, TypeOK, Writer, Terminal
  <1>11. CASE reconnect_attempt
    BY <1>11
    DEF reconnect_attempt, goto, reconnect_ok, ControllerUnchanged,
        AuthCurrent, TypeOK, Writer, Terminal
  <1>12. CASE connect_with_server
    BY <1>12
    DEF connect_with_server, reconnect_ok, reconnect_err, ControllerUnchanged,
        AuthCurrent, TypeOK, Writer, Terminal
  <1>13. CASE reconnect_swap
    BY <1>13
    DEF reconnect_swap, reconnect_ok, ControllerUnchanged,
        AuthCurrent, TypeOK, Writer, Terminal
  <1>14. CASE reconnect_fails
    BY <1>14
    DEF reconnect_fails, reconnect_err, ControllerUnchanged,
        AuthCurrent, TypeOK, Writer, Terminal
  <1>15. CASE controller_shutdown
    BY <1>15
    DEF controller_shutdown, goto, ControllerUnchanged,
        AuthCurrent, TypeOK, Writer, Terminal
  <1>16. CASE controller_end
    BY <1>16
    DEF controller_end, goto, ControllerUnchanged,
        AuthCurrent, TypeOK, Writer, Terminal
  <1>17. CASE controller_drop
    BY <1>17
    DEF controller_drop, clean_drop, goto, ControllerUnchanged,
        AuthCurrent, TypeOK, Writer, Terminal
  <1>18. CASE disconnect
    BY <1>18
    DEF disconnect, netVars,
        AuthCurrent, TypeOK, Writer, Terminal
  <1>19. CASE disconnect_returns
    BY <1>19, Zenon
    DEF disconnect_returns, clean_drop, goto, netVars,
        AuthCurrent, TypeOK, Writer, Terminal
  <1>20. CASE ConnectionBreaks
    BY <1>20
    DEF ConnectionBreaks,
        AuthCurrent, TypeOK, Writer, Terminal
  <1>21. CASE AuthAnswered
    <2>1. read_task # 0
      BY <1>21 DEF AuthAnswered, TypeOK, Session
    <2>2. writer.session = read_task
      BY <1>21, <2>1 DEF AuthAnswered, Sockets, Switched
    <2> QED  BY <1>21, <2>2 DEF AuthAnswered, AuthCurrent
  <1>22. CASE UNCHANGED vars
    BY <1>22
    DEF vars,
        AuthCurrent, TypeOK, Writer, Terminal
  <1> QED
    BY <1>1, <1>2, <1>3, <1>4, <1>5, <1>6, <1>7, <1>8, <1>9, <1>10, <1>11, <1>12, <1>13, <1>14, <1>15, <1>16, <1>17, <1>18, <1>19, <1>20, <1>21, <1>22
    DEF Next, Calls, WriteTask, Controller, ReconnectStep

(* The writer replays only on the session that has been authenticated. *)
LEMMA ReplayStep ==
    ASSUME TypeOK, AuthCurrent, ReplayWaitsForAuth, [Next]_vars
    PROVE  ReplayWaitsForAuth'
  <1>1. CASE UNCHANGED sent /\ authed \subseteq authed'
    BY <1>1 DEF ReplayWaitsForAuth
  <1>2. ASSUME NEW m, NEW r \in BOOLEAN, wrote(m, r), UNCHANGED authed,
               reconnect_buffer_waits_for_auth /\ r => writer.session \in authed
        PROVE  ReplayWaitsForAuth'
    <2> DEFINE w == <<m, writer.session, r>>
    <2>1. sent' = sent \cup {w} /\ w[2] = writer.session /\ w[3] = r
      BY <1>2 DEF wrote
    <2> HIDE DEF w
    <2> QED  BY <1>2, <2>1 DEF ReplayWaitsForAuth
  <1>3. CASE drain_reconnect_buffer
    <2>1. reconnect_buffer_waits_for_auth => writer.session \in authed
      BY <1>3 DEF drain_reconnect_buffer, AuthCurrent
    <2>2. CASE wrote(Head(writer.reconnect_buffer), TRUE) /\ UNCHANGED authed
      BY <1>2, <2>1, <2>2, Zenon
    <2> QED
      BY <1>1, <1>3, <2>2, Zenon DEF drain_reconnect_buffer, trigger_reconnect, WriterUnchanged, netVars
  <1>4. CASE writer_send
    <2>1. ASSUME NEW m, wrote(m, FALSE), UNCHANGED authed PROVE ReplayWaitsForAuth'
      BY <1>2, <2>1, Zenon
    <2> QED
      BY <1>1, <1>4, <2>1, Zenon DEF writer_send, trigger_reconnect, WriterUnchanged, netVars
  <1>5. \/ drain_reconnect_buffer \/ writer_send
        \/ UNCHANGED sent /\ authed \subseteq authed'
    <2>1. ASSUME NEW m \in Messages, check_not_terminal(m) PROVE UNCHANGED sent /\ authed \subseteq authed'
      BY <2>1 DEF check_not_terminal, Call, CallUnchanged, netVars
    <2>2. ASSUME NEW m \in Messages, wait_for_active(m) PROVE UNCHANGED sent /\ authed \subseteq authed'
      BY <2>2 DEF wait_for_active, Call, CallUnchanged, netVars
    <2>3. ASSUME NEW m \in Messages, enqueue(m) PROVE UNCHANGED sent /\ authed \subseteq authed'
      BY <2>3 DEF enqueue, Call, CallUnchanged, netVars
    <2>4. CASE write_top
      BY <2>4 DEF write_top, WriterUnchanged, netVars
    <2>5. CASE writer_recv
      BY <2>5 DEF writer_recv, writer_update, WriterUnchanged, netVars
    <2>6. CASE writer_timeout
      BY <2>6 DEF writer_timeout, WriterUnchanged, netVars
    <2>7. CASE read_task_ends
      BY <2>7 DEF read_task_ends, netVars
    <2>8. CASE controller_poll
      BY <2>8 DEF controller_poll, goto, ControllerUnchanged
    <2>9. CASE reconnect_attempt
      BY <2>9 DEF reconnect_attempt, goto, reconnect_ok, ControllerUnchanged
    <2>10. CASE connect_with_server
      BY <2>10 DEF connect_with_server, reconnect_ok, reconnect_err, ControllerUnchanged
    <2>11. CASE reconnect_swap
      BY <2>11 DEF reconnect_swap, reconnect_ok, ControllerUnchanged
    <2>12. CASE reconnect_fails
      BY <2>12 DEF reconnect_fails, reconnect_err, ControllerUnchanged
    <2>13. CASE controller_shutdown
      BY <2>13 DEF controller_shutdown, goto, ControllerUnchanged
    <2>14. CASE controller_end
      BY <2>14 DEF controller_end, goto, ControllerUnchanged
    <2>15. CASE controller_drop
      BY <2>15 DEF controller_drop, clean_drop, goto, ControllerUnchanged
    <2>16. CASE disconnect
      BY <2>16 DEF disconnect, netVars
    <2>17. CASE disconnect_returns
      BY <2>17 DEF disconnect_returns, clean_drop, goto, netVars
    <2>18. CASE ConnectionBreaks
      BY <2>18 DEF ConnectionBreaks
    <2>19. CASE AuthAnswered
      BY <2>19 DEF AuthAnswered
    <2>20. CASE UNCHANGED vars
      BY <2>20 DEF vars
    <2> QED
      BY <2>1, <2>2, <2>3, <2>4, <2>5, <2>6, <2>7, <2>8, <2>9, <2>10, <2>11, <2>12, <2>13, <2>14, <2>15, <2>16, <2>17, <2>18, <2>19, <2>20
      DEF Next, Calls, WriteTask, Controller, ReconnectStep
  <1> QED  BY <1>1, <1>3, <1>4, <1>5

-----------------------------------------------------------------------------
(* The initial state satisfies the invariant. *)
LEMMA Initially == Init => IInv
  <1> SUFFICES ASSUME Init PROVE IInv
    OBVIOUS
  <1>1. TypeOK
    <2>1. << >> \in Seq(Messages) /\ << >> \in Seq(Messages \cup Session)
      OBVIOUS
    <2>2. 1 \in Session /\ 0 \in 0 .. MaxSessions /\ 1 \in 0 .. MaxSessions
          /\ 0 \in 0 .. reconnect_max_attempts
      BY WebSocketAssumption DEF Session
    <2>3. writer \in Writer
      BY <2>1, <2>2 DEF Init, Writer
    <2>4. controller \in ControllerState
      BY <2>2 DEF Init, ControllerState
    <2> QED  BY <2>1, <2>2, <2>3, <2>4 DEF Init, TypeOK, Mode
  <1>2. DOMAIN writer_rx = {}
    BY DEF Init
  <1>3. Sockets
    BY <1>2 DEF Init, Sockets, UpdatesInOrder, Attempting, Switched, NoUpdates
  <1>4. Losses
    BY DEF Init, Losses, Stopping, Holding, Kept, Terminal
  <1>5. Auths
    BY DEF Init, Auths, AuthCurrent, ReplayWaitsForAuth
  <1> QED  BY <1>1, <1>3, <1>4, <1>5 DEF IInv

(* Every step keeps the invariant. *)
LEMMA Inductive == IInv /\ [Next]_vars => IInv'
  <1> SUFFICES ASSUME IInv, [Next]_vars PROVE IInv'
    OBVIOUS
  <1>1. TypeOK'
    BY TypeStep DEF IInv
  <1>2. Sockets'
    BY SocketStep DEF IInv
  <1>3. Losses'
    BY StoppingStep, HoldingStep, KeptStep DEF IInv, Losses
  <1>4. Auths'
    BY AuthCurrentStep, ReplayStep DEF IInv, Auths
  <1> QED  BY <1>1, <1>2, <1>3, <1>4 DEF IInv

(* So it holds in every state. *)
LEMMA Invariance == Spec => []IInv
  BY Initially, Inductive, PTL DEF Spec

(* While the client is Active its read task and its write task are on the    *)
(* same session: reconnect swaps the reader only after the writer confirmed. *)
THEOREM SocketsAlwaysAgree == Spec => []SocketsAgree
  <1>1. IInv => SocketsAgree
    BY DEF IInv, Sockets, Switched, SocketsAgree
  <1> QED  BY Invariance, <1>1, PTL

(* No message whose send_text returned Ok is lost by a reconnection. *)
THEOREM NothingIsLost == Spec => []NothingLost
  <1>1. IInv => NothingLost
    BY DEF IInv, Losses, Kept, Stopped, NothingLost, Ended
  <1> QED  BY Invariance, <1>1, PTL

(* The write task replays its buffer only on a session the server has *)
(* authenticated, when it is configured to wait for that.             *)
THEOREM ReplaysWaitForAuth == Spec => []ReplayWaitsForAuth
  <1>1. IInv => ReplayWaitsForAuth
    BY DEF IInv, Auths
  <1> QED  BY Invariance, <1>1, PTL
=============================================================================
