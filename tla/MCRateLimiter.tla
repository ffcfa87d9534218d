--------------------------- MODULE MCRateLimiter ---------------------------
(* Two callers on two keys: a burst of one refilled every two instants, and *)
(* a burst of two refilled every instant.                                   *)
EXTENDS RateLimiter, TLC

CONSTANTS slow, fast

MCQuota ==
    (slow :> [replenish_1_per |-> 2, max_burst |-> 1])
        @@ (fast :> [replenish_1_per |-> 1, max_burst |-> 2])
=============================================================================
