----------------------------- MODULE DurableLog -----------------------------
(***************************************************************************)
(* What the event store promises about one run, without threads, channels, *)
(* batches or failures: the log is a growing prefix of the accepted drafts, *)
(* closed by RunEnded at most once and then sealed.                        *)
(***************************************************************************)
EXTENDS Naturals, Sequences

CONSTANTS
    Draft,     \* entries that may be logged
    RunEnded   \* the terminal entry

VARIABLES
    accepted,  \* drafts whose submission succeeded, in order
    log,       \* the durable entries, in seq order
    state      \* "open" or "sealed"

logVars == <<accepted, log, state>>

Ended == log # << >> /\ log[Len(log)] = RunEnded

LogInit ==
    /\ accepted \in Seq(Draft)
    /\ log = accepted
    /\ state = "open"

\* A submission succeeds: nothing is durable yet.
Accept ==
    /\ ~Ended
    /\ \E d \in Draft : accepted' = Append(accepted, d)
    /\ UNCHANGED <<log, state>>

\* A batch commits: the log catches up with some of the accepted drafts.
Commit ==
    /\ ~Ended
    /\ \E n \in Len(log) .. Len(accepted) : log' = SubSeq(accepted, 1, n)
    /\ UNCHANGED <<accepted, state>>

\* The closing batch commits: every accepted draft, then RunEnded.
Finish ==
    /\ ~Ended
    /\ log' = Append(accepted, RunEnded)
    /\ UNCHANGED <<accepted, state>>

Seal ==
    /\ state = "open"
    /\ Ended
    /\ state' = "sealed"
    /\ UNCHANGED <<accepted, log>>

LogNext == Accept \/ Commit \/ Finish \/ Seal

LogSpec == LogInit /\ [][LogNext]_logVars
=============================================================================
