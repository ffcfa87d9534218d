----------------------------- MODULE RateLimiter -----------------------------
(***************************************************************************)
(* The keyed rate limiter of crates/network/src/ratelimiter that HTTP and  *)
(* websocket clients wait on before a request.  Callers run on different   *)
(* threads; each waits for a set of keys with one future per key, and a    *)
(* future that is let through consumes a cell of its key.  A key's state   *)
(* is one atomic integer, its theoretical arrival time, with 0 for "never  *)
(* measured".  Time is in nanoseconds since the limiter's start; the u64   *)
(* does not overflow within 584 years and is not bounded here.  A keyed or *)
(* default quota is the same thing once looked up: Quota[k].  Keys without *)
(* any quota return at once and are left out.                              *)
(***************************************************************************)
EXTENDS Integers, Sequences, FiniteSets

CONSTANTS
    Callers,    \* tasks that call await_keys_ready
    Keys,       \* rate limit keys that have a quota
    Quota,      \* [Keys -> [replenish_1_per, max_burst]]
    Requests,   \* the key lists callers pass, as sets
    MaxCalls,   \* bound: calls made by each caller
    Horizon     \* bound: the last instant of the clock

ASSUME QuotaAssumption ==
    /\ Quota \in [Keys -> [replenish_1_per : Nat \ {0}, max_burst : Nat \ {0}]]
    /\ Requests \subseteq (SUBSET Keys) \ {{}}
    /\ MaxCalls \in Nat
    /\ Horizon \in Nat

VARIABLES
    now,        \* the monotonic clock
    cell,       \* InMemoryState of each key
    future,     \* until_key_ready of each caller and key
    called,     \* calls each caller has made
    granted     \* history: each key's grants, in the order they took effect

limiterVars == <<now, cell, future, called, granted>>

Nanos  == Nat
Phases == {"none", "start", "timed", "decide", "sleep", "ready"}
Future == [pc : Phases, t0 : Nanos, prev : Nanos, wake : Nanos]
Unused == [pc |-> "none", t0 |-> 0, prev |-> 0, wake |-> 0]

LimiterTypeOK ==
    /\ now \in Nanos
    /\ cell \in [Keys -> Nanos]
    /\ future \in [Callers -> [Keys -> Future]]
    /\ called \in [Callers -> Nat]
    /\ granted \in [Keys -> Seq(Nanos)]

LimiterInit ==
    /\ now = 0
    /\ cell = [k \in Keys |-> 0]
    /\ future = [c \in Callers |-> [k \in Keys |-> Unused]]
    /\ called = [c \in Callers |-> 0]
    /\ granted = [k \in Keys |-> << >>]

Larger(a, b) == IF a > b THEN a ELSE b
-----------------------------------------------------------------------------
(* Gcra::new: the weight of a cell, and the burst in units of time. *)
t(k)   == Quota[k].replenish_1_per

tau(k) == t(k) * Quota[k].max_burst

(* The stored arrival time, or the starting state. *)
tat(k, prev, t0) == IF prev = 0 THEN t0 + t(k) ELSE prev

(* Mutant: the burst allowance is not taken off. *)
earliest_time_NoBurst(k, prev, t0) == tat(k, prev, t0)

earliest_time(k, prev, t0) ==
    IF tat(k, prev, t0) > tau(k) THEN tat(k, prev, t0) - tau(k) ELSE 0

next(k, prev, t0) == Larger(tat(k, prev, t0), t0) + t(k)

conforms(k, f) == f.t0 >= earliest_time(k, f.prev, f.t0)
-----------------------------------------------------------------------------
(* await_keys_ready: one future for each key of a non-empty set. *)
await_keys_ready(c, keys) ==
    /\ called[c] < MaxCalls
    /\ \A k \in Keys : future[c][k].pc = "none"
    /\ future' = [future EXCEPT ![c] =
                     [k \in Keys |-> IF k \in keys THEN [Unused EXCEPT !.pc = "start"]
                                     ELSE Unused]]
    /\ called' = [called EXCEPT ![c] = @ + 1]
    /\ UNCHANGED <<now, cell, granted>>

(* check_key reads the clock before anything else.  It does not await, so  *)
(* the futures of one caller, polled by one task, make their checks in turn *)
check_key(c, k) ==
    /\ future[c][k].pc = "start"
    /\ \A other \in Keys : future[c][other].pc \notin {"timed", "decide"}
    /\ future' = [future EXCEPT ![c][k] = [@ EXCEPT !.pc = "timed", !.t0 = now]]
    /\ UNCHANGED <<now, cell, called, granted>>

(* The state it decides on is read afterwards. *)
load(c, k) ==
    /\ future[c][k].pc = "timed"
    /\ future' = [future EXCEPT ![c][k] = [@ EXCEPT !.pc = "decide", !.prev = cell[k]]]
    /\ UNCHANGED <<now, cell, called, granted>>

(* test_and_update fails: sleep until the time the refusal names. *)
not_until(c, k) ==
    LET f == future[c][k]
    IN  /\ f.pc = "decide"
        /\ ~conforms(k, f)
        /\ future' = [future EXCEPT ![c][k] =
                         [f EXCEPT !.pc = "sleep", !.prev = 0,
                                   !.wake = earliest_time(k, f.prev, f.t0)]]
        /\ UNCHANGED <<now, cell, called, granted>>

(* Mutant: the new state is stored without comparing the old one. *)
compare_exchange_Store(c, k) ==
    LET f == future[c][k]
    IN  /\ f.pc = "decide"
        /\ conforms(k, f)
        /\ cell' = [cell EXCEPT ![k] = next(k, f.prev, f.t0)]
        /\ granted' = [granted EXCEPT ![k] = Append(@, f.t0)]
        /\ future' = [future EXCEPT ![c][k] = [Unused EXCEPT !.pc = "ready"]]
        /\ UNCHANGED <<now, called>>

compare_exchange(c, k) ==
    LET f == future[c][k]
    IN  /\ f.pc = "decide"
        /\ conforms(k, f)
        /\ cell[k] = f.prev
        /\ cell' = [cell EXCEPT ![k] = next(k, f.prev, f.t0)]
        /\ granted' = [granted EXCEPT ![k] = Append(@, f.t0)]
        /\ future' = [future EXCEPT ![c][k] = [Unused EXCEPT !.pc = "ready"]]
        /\ UNCHANGED <<now, called>>

(* Another thread got in between: decide again on what it wrote.  A spurious *)
(* failure of the weak exchange rereads the same value and changes nothing.  *)
exchange_failed(c, k) ==
    LET f == future[c][k]
    IN  /\ f.pc = "decide"
        /\ conforms(k, f)
        /\ cell[k] # f.prev
        /\ future' = [future EXCEPT ![c][k] = [f EXCEPT !.prev = cell[k]]]
        /\ UNCHANGED <<now, cell, called, granted>>

(* Mutant: the clock reading is taken once, outside the loop. *)
wake_StaleClock(c, k) ==
    /\ future[c][k].pc = "sleep"
    /\ now >= future[c][k].wake
    /\ future' = [future EXCEPT ![c][k].pc = "timed"]
    /\ UNCHANGED <<now, cell, called, granted>>

(* The sleep is over, at its time or later, and until_key_ready loops. *)
wake(c, k) ==
    /\ future[c][k].pc = "sleep"
    /\ now >= future[c][k].wake
    /\ future' = [future EXCEPT ![c][k] = [Unused EXCEPT !.pc = "start"]]
    /\ UNCHANGED <<now, cell, called, granted>>

(* The call returns once every one of its keys is ready. *)
return(c) ==
    /\ \E k \in Keys : future[c][k].pc # "none"
    /\ \A k \in Keys : future[c][k].pc \in {"none", "ready"}
    /\ future' = [future EXCEPT ![c] = [k \in Keys |-> Unused]]
    /\ UNCHANGED <<now, cell, called, granted>>

Tick ==
    /\ now < Horizon
    /\ now' = now + 1
    /\ UNCHANGED <<cell, future, called, granted>>

Step(c) ==
    \/ \E k \in Keys : \/ check_key(c, k)
                       \/ load(c, k)
                       \/ not_until(c, k)
                       \/ compare_exchange(c, k)
                       \/ exchange_failed(c, k)
                       \/ wake(c, k)
    \/ return(c)

LimiterNext ==
    \/ \E c \in Callers : Step(c)
    \/ \E c \in Callers, keys \in Requests : await_keys_ready(c, keys)
    \/ Tick

LimiterSpec == LimiterInit /\ [][LimiterNext]_limiterVars

(* Time passes and every woken task is scheduled; nobody has to call. *)
LimiterFairSpec == LimiterSpec /\ WF_limiterVars(Tick) /\ \A c \in Callers : WF_limiterVars(Step(c))
-----------------------------------------------------------------------------
(* Between any two grants of a key, the cells used fit the burst plus what  *)
(* was replenished between the clock readings they were decided on, however *)
(* the compare-and-swap loops of different threads interleave.              *)
QuotaRespected ==
    \A k \in Keys : \A i, j \in 1 .. Len(granted[k]) :
        i < j => (j - i) * t(k) <= tau(k) + granted[k][j] - granted[k][i]

(* Nobody is made to wait below the quota: a check about to be refused finds *)
(* grants that used the whole burst and all that was replenished since the   *)
(* first of them (one cell less when that is the key's very first grant).    *)
RefusalJustified ==
    \A c \in Callers, k \in Keys :
        LET f == future[c][k]
            n == Len(granted[k])
        IN  f.pc = "decide" /\ ~conforms(k, f) =>
                \E i \in 1 .. n :
                    (n - i + (IF i = 1 THEN 2 ELSE 1)) * t(k) > tau(k) + f.t0 - granted[k][i]

(* A call returns: a sleeper wakes, asks again and in the end gets its cell, *)
(* as long as the other callers do not ask for ever and the time it waits    *)
(* for is not past the bound on the clock.                                   *)
AwaitReturns ==
    \A c \in Callers :
        (\E k \in Keys : future[c][k].pc # "none")
            ~> \/ \A k \in Keys : future[c][k].pc = "none"
               \/ \E k \in Keys : future[c][k].wake > Horizon
=============================================================================
