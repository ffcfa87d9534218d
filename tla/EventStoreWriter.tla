-------------------------- MODULE EventStoreWriter --------------------------
(***************************************************************************)
(* The event store writer (crates/event_store/src/writer): any number of   *)
(* threads call EventStoreWriter::submit, which hands a draft to a bounded *)
(* channel; one dedicated thread (batcher::run) drains the channel into    *)
(* atomic append_batch commits of one run.  The owner ends the run either  *)
(* with close(), which commits RunEnded and seals the manifest, or by      *)
(* dropping the writer, which leaves the run unsealed.                     *)
(*                                                                         *)
(* A process crash needs no action of its own here: it keeps exactly       *)
(* <<durable, status>> of whatever state it hits, so an invariant of these *)
(* two variables is an invariant of every crash image.                     *)
(***************************************************************************)
EXTENDS Naturals, Sequences, FiniteSets

CONSTANTS
    Submitter,        \* threads holding a reference to the writer
    Draft,            \* entries a submitter may hand in
    RunEnded,         \* the terminal entry handed to close()
    CloseMessage,     \* WriterMessage::Close
    NoDraft,          \* what an idle submitter is sending
    ChannelCapacity,  \* WriterConfig::channel_capacity
    MaxBatchEntries,  \* WriterConfig::max_batch_entries
    InitialEntries,   \* bound: entries already in the run when the writer attaches
    MaxSubmits        \* bound: calls of submit

ASSUME WriterAssumption ==
    /\ ChannelCapacity \in Nat \ {0}
    /\ MaxBatchEntries \in Nat
    /\ InitialEntries \in Nat
    /\ MaxSubmits \in Nat
    /\ RunEnded \notin Draft
    /\ CloseMessage \notin Draft
    /\ NoDraft \notin Draft

ASSUME SubmitterAssumption == IsFiniteSet(Submitter)

VARIABLES
    pc,        \* where each submitter is inside submit()
    pending,   \* the draft each submitter is trying to send
    submits,   \* submit() calls so far
    halted,    \* EventStoreWriter::halted
    fired,     \* reasons the halt callback was invoked with, in order
    chan,      \* contents of the sync_channel
    owner,     \* progress of close() or drop()
    ack,       \* what the Close message's ack channel carries
    bpc,       \* where the writer thread is inside batcher::run
    after,     \* what the writer thread does once the current flush succeeds
    batch,     \* entries stamped and not yet committed
    nextSeq,   \* next_seq
    durable,   \* rows of the run's entry table, in key order
    status,    \* status in the run's manifest
    hwm,       \* the high_watermark mirror
    accepted,  \* history: drafts in the order the channel accepted them
    late       \* history: drafts accepted after halted was set

submitVars  == <<pc, pending, submits, halted>>
batcherVars == <<bpc, after, batch, nextSeq, hwm>>
runVars     == <<durable, status>>
historyVars == <<accepted, late>>
vars == <<pc, pending, submits, halted, fired, chan, owner, ack, bpc, after,
          batch, nextSeq, durable, status, hwm, accepted, late>>

Entry == [seq : Nat, draft : Draft \cup {RunEnded}]

\* The receiver lives until the writer thread returns.
rxAlive == bpc # "exited"

\* The producer end is released by close() once Close is queued, and by drop().
txAlive == owner \in {"open", "closing"}

TypeOK ==
    /\ pc \in [Submitter -> {"idle", "sending", "halting"}]
    /\ pending \in [Submitter -> Draft \cup {NoDraft}]
    /\ submits \in 0 .. MaxSubmits
    /\ halted \in BOOLEAN
    /\ fired \in Seq({"BackpressureStall", "BackendError"})
    /\ chan \in Seq(Draft \cup {CloseMessage})
    /\ owner \in {"open", "closing", "awaiting", "closed", "failed",
                  "dropping", "dropped"}
    /\ ack \in {"none", "ok", "err"}
    /\ bpc \in {"recv", "flush", "publish", "seal", "exiting", "exited"}
    /\ after \in {"recv", "seal", "exiting"}
    /\ batch \in Seq(Entry)
    /\ nextSeq \in Nat
    /\ durable \in Seq(Entry)
    /\ status \in {"Running", "Ended"}
    /\ hwm \in Nat
    /\ accepted \in Seq(Draft)
    /\ late \in Nat

-----------------------------------------------------------------------------
(* spawn: the mirror and next_seq both start from the backend's            *)
(* high-watermark, which is 0 for a fresh run.                             *)

Init ==
    /\ pc = [p \in Submitter |-> "idle"]
    /\ pending = [p \in Submitter |-> NoDraft]
    /\ submits = 0
    /\ halted = FALSE
    /\ fired = << >>
    /\ chan = << >>
    /\ owner = "open"
    /\ ack = "none"
    /\ bpc = "recv"
    /\ after = "recv"
    /\ batch = << >>
    /\ \E n \in 0 .. InitialEntries : \E d \in [1 .. n -> Draft] :
          /\ accepted = d
          /\ durable = [i \in 1 .. n |-> [seq |-> i, draft |-> d[i]]]
          /\ nextSeq = n + 1
          /\ hwm = n
    /\ status = "Running"
    /\ late = 0

-----------------------------------------------------------------------------
(* submit()                                                                *)

\* Mutant: the halted flag is not consulted.
Submit_AfterHalt(p, d) ==
    /\ owner = "open"
    /\ pc[p] = "idle"
    /\ submits < MaxSubmits
    /\ pc' = [pc EXCEPT ![p] = "sending"]
    /\ pending' = [pending EXCEPT ![p] = d]
    /\ submits' = submits + 1
    /\ UNCHANGED <<halted, fired, chan, owner, ack, batcherVars, runVars, historyVars>>

\* The halted flag is read once, on entry; the retry loop never reads it again.
Submit(p, d) ==
    /\ owner = "open"
    /\ pc[p] = "idle"
    /\ ~halted
    /\ submits < MaxSubmits
    /\ pc' = [pc EXCEPT ![p] = "sending"]
    /\ pending' = [pending EXCEPT ![p] = d]
    /\ submits' = submits + 1
    /\ UNCHANGED <<halted, fired, chan, owner, ack, batcherVars, runVars, historyVars>>

\* try_send succeeds: submit returns Ok although nothing is durable yet.
TrySend(p) ==
    /\ pc[p] = "sending"
    /\ rxAlive
    /\ Len(chan) < ChannelCapacity
    /\ chan' = Append(chan, pending[p])
    /\ accepted' = Append(accepted, pending[p])
    /\ late' = IF halted THEN late + 1 ELSE late
    /\ pc' = [pc EXCEPT ![p] = "idle"]
    /\ pending' = [pending EXCEPT ![p] = NoDraft]
    /\ UNCHANGED <<submits, halted, fired, owner, ack, batcherVars, runVars>>

\* try_send finds the receiver gone: SubmitError::Closed.
SendDisconnected(p) ==
    /\ pc[p] = "sending"
    /\ ~rxAlive
    /\ pc' = [pc EXCEPT ![p] = "idle"]
    /\ pending' = [pending EXCEPT ![p] = NoDraft]
    /\ UNCHANGED <<submits, halted, fired, chan, owner, ack, batcherVars,
                   runVars, historyVars>>

\* The wait crossed halt_threshold: the flag is stored, then the callback runs.
\* The elapsed time is compared before every try_send, so a submitter that was only
\* descheduled stalls although the channel has room.
Stall(p) ==
    /\ pc[p] = "sending"
    /\ pc' = [pc EXCEPT ![p] = "halting"]
    /\ halted' = TRUE
    /\ UNCHANGED <<pending, submits, fired, chan, owner, ack, batcherVars, runVars,
                   historyVars>>

\* Mutant: the callback waits for the writer thread before it returns.
FireStallHalt_Joins(p) ==
    /\ pc[p] = "halting"
    /\ ~rxAlive
    /\ fired' = Append(fired, "BackpressureStall")
    /\ pc' = [pc EXCEPT ![p] = "idle"]
    /\ pending' = [pending EXCEPT ![p] = NoDraft]
    /\ UNCHANGED <<submits, halted, chan, owner, ack, batcherVars, runVars,
                   historyVars>>

FireStallHalt(p) ==
    /\ pc[p] = "halting"
    /\ fired' = Append(fired, "BackpressureStall")
    /\ pc' = [pc EXCEPT ![p] = "idle"]
    /\ pending' = [pending EXCEPT ![p] = NoDraft]
    /\ UNCHANGED <<submits, halted, chan, owner, ack, batcherVars, runVars,
                   historyVars>>

-----------------------------------------------------------------------------
(* batcher::run                                                            *)

Stamp(d, seq) == [seq |-> seq, draft |-> d]

\* drain_pending: what is still queued behind Close, stamped in order.
Drained(msgs) == [i \in 1 .. Len(msgs) |-> Stamp(msgs[i], nextSeq + i - 1)]

\* A received entry is stamped with next_seq; a full batch is flushed at once.
RecvEntry ==
    /\ bpc = "recv"
    /\ chan # << >>
    /\ Head(chan) # CloseMessage
    /\ chan' = Tail(chan)
    /\ batch' = Append(batch, Stamp(Head(chan), nextSeq))
    /\ nextSeq' = nextSeq + 1
    /\ bpc' = IF Len(batch) + 1 >= MaxBatchEntries THEN "flush" ELSE "recv"
    /\ after' = "recv"
    /\ UNCHANGED <<submitVars, fired, owner, ack, runVars, hwm, historyVars>>

\* Close: drain_pending takes whatever is still queued, RunEnded goes last.
RecvClose ==
    /\ bpc = "recv"
    /\ chan # << >>
    /\ Head(chan) = CloseMessage
    /\ LET drained == Drained(Tail(chan))
       IN  /\ batch' = Append(batch \o drained,
                              Stamp(RunEnded, nextSeq + Len(drained)))
           /\ nextSeq' = nextSeq + Len(drained)
    /\ chan' = << >>
    /\ bpc' = "flush"
    /\ after' = "seal"
    /\ UNCHANGED <<submitVars, fired, owner, ack, runVars, hwm, historyVars>>

\* Mutant: the deadline of a partial batch is never armed.
RecvTimeout_Unarmed ==
    /\ bpc = "recv"
    /\ chan = << >>
    /\ batch # << >>
    /\ Len(batch) >= MaxBatchEntries
    /\ bpc' = "flush"
    /\ after' = "recv"
    /\ UNCHANGED <<submitVars, fired, chan, owner, ack, batch, nextSeq, hwm, runVars,
                   historyVars>>

\* The batch deadline passes with nothing to receive.
RecvTimeout ==
    /\ bpc = "recv"
    /\ chan = << >>
    /\ batch # << >>
    /\ bpc' = "flush"
    /\ after' = "recv"
    /\ UNCHANGED <<submitVars, fired, chan, owner, ack, batch, nextSeq, hwm, runVars,
                   historyVars>>

\* Mutant: the partial batch is forgotten on disconnect.
RecvDisconnected_NoFlush ==
    /\ bpc = "recv"
    /\ chan = << >>
    /\ ~txAlive
    /\ bpc' = "exiting"
    /\ after' = "exiting"
    /\ UNCHANGED <<submitVars, fired, chan, owner, ack, batch, nextSeq, hwm, runVars,
                   historyVars>>

\* The producer is gone and the queue is empty: a last flush, then return.
RecvDisconnected ==
    /\ bpc = "recv"
    /\ chan = << >>
    /\ ~txAlive
    /\ bpc' = IF batch = << >> THEN "exiting" ELSE "flush"
    /\ after' = "exiting"
    /\ UNCHANGED <<submitVars, fired, chan, owner, ack, batch, nextSeq, hwm, runVars,
                   historyVars>>

\* append_batch's check: the batch continues the table without a gap.
InOrder(b) == \A i \in DOMAIN b : b[i].seq = Len(durable) + i

\* Mutant: the transaction commits after the first row and the batch is cleared.
FlushCommit_FirstOnly ==
    /\ bpc = "flush"
    /\ status = "Running"
    /\ InOrder(batch)
    /\ durable' = Append(durable, Head(batch))
    /\ batch' = << >>
    /\ bpc' = "publish"
    /\ UNCHANGED <<submitVars, fired, chan, owner, ack, after, nextSeq, hwm, status,
                   historyVars>>

\* append_batch commits the whole batch in one transaction, or nothing.
FlushCommit ==
    /\ bpc = "flush"
    /\ status = "Running"
    /\ InOrder(batch)
    /\ durable' = durable \o batch
    /\ batch' = << >>
    /\ bpc' = "publish"
    /\ UNCHANGED <<submitVars, fired, chan, owner, ack, after, nextSeq, hwm, status,
                   historyVars>>

\* Mutant: the mirror stores the next sequence number instead of the last one.
FlushPublish_NextSeq ==
    /\ bpc = "publish"
    /\ hwm' = nextSeq
    /\ bpc' = after
    /\ UNCHANGED <<submitVars, fired, chan, owner, ack, after, batch, nextSeq, runVars,
                   historyVars>>

\* The acknowledged high-watermark is mirrored for readers on other threads.
FlushPublish ==
    /\ bpc = "publish"
    /\ hwm' = Len(durable)
    /\ bpc' = after
    /\ UNCHANGED <<submitVars, fired, chan, owner, ack, after, batch, nextSeq, runVars,
                   historyVars>>

\* append_batch fails (disk, corruption, out of order): halt, forget the batch,
\* answer a close() that is waiting, and leave the loop.
FlushFail ==
    /\ bpc = "flush"
    /\ fired' = Append(fired, "BackendError")
    /\ batch' = << >>
    /\ ack' = IF after = "seal" THEN "err" ELSE ack
    /\ bpc' = "exiting"
    /\ UNCHANGED <<submitVars, chan, owner, after, nextSeq, hwm, runVars, historyVars>>

SealOk ==
    /\ bpc = "seal"
    /\ status' = "Ended"
    /\ ack' = "ok"
    /\ bpc' = "exiting"
    /\ UNCHANGED <<submitVars, fired, chan, owner, after, batch, nextSeq, hwm, durable,
                   historyVars>>

\* Mutant: a failed seal is acknowledged as a success.
SealFail_AckOk ==
    /\ bpc = "seal"
    /\ fired' = Append(fired, "BackendError")
    /\ ack' = "ok"
    /\ bpc' = "exiting"
    /\ UNCHANGED <<submitVars, chan, owner, after, batch, nextSeq, hwm, runVars,
                   historyVars>>

SealFail ==
    /\ bpc = "seal"
    /\ fired' = Append(fired, "BackendError")
    /\ ack' = "err"
    /\ bpc' = "exiting"
    /\ UNCHANGED <<submitVars, chan, owner, after, batch, nextSeq, hwm, runVars,
                   historyVars>>

\* The thread returns: the receiver is dropped with everything still queued.
Exit ==
    /\ bpc = "exiting"
    /\ bpc' = "exited"
    /\ chan' = << >>
    /\ UNCHANGED <<submitVars, fired, owner, ack, after, batch, nextSeq, hwm, runVars,
                   historyVars>>

-----------------------------------------------------------------------------
(* close() and drop(): both take the writer by value, so no submit() is in *)
(* progress and none can start.                                            *)

CloseStart ==
    /\ owner = "open"
    /\ \A p \in Submitter : pc[p] = "idle"
    /\ owner' = "closing"
    /\ UNCHANGED <<submitVars, fired, chan, ack, batcherVars, runVars, historyVars>>

\* The send blocks while the channel is full; the producer is dropped after it.
CloseSend ==
    /\ owner = "closing"
    /\ rxAlive
    /\ Len(chan) < ChannelCapacity
    /\ chan' = Append(chan, CloseMessage)
    /\ owner' = "awaiting"
    /\ UNCHANGED <<submitVars, fired, ack, batcherVars, runVars, historyVars>>

CloseSendFail ==
    /\ owner = "closing"
    /\ ~rxAlive
    /\ owner' = "failed"
    /\ UNCHANGED <<submitVars, fired, chan, ack, batcherVars, runVars, historyVars>>

\* Mutant: only a message on the ack channel wakes close(), not its disconnect.
CloseReturn_AckOnly ==
    /\ owner = "awaiting"
    /\ bpc = "exited"
    /\ ack # "none"
    /\ owner' = IF ack = "ok" THEN "closed" ELSE "failed"
    /\ UNCHANGED <<submitVars, fired, chan, ack, batcherVars, runVars, historyVars>>

\* close() returns the ack, or an error when the ack channel was dropped unsent.
\* Either way it joins the writer thread first.
CloseReturn ==
    /\ owner = "awaiting"
    /\ bpc = "exited"
    /\ owner' = IF ack = "ok" THEN "closed" ELSE "failed"
    /\ UNCHANGED <<submitVars, fired, chan, ack, batcherVars, runVars, historyVars>>

DropStart ==
    /\ owner = "open"
    /\ \A p \in Submitter : pc[p] = "idle"
    /\ owner' = "dropping"
    /\ UNCHANGED <<submitVars, fired, chan, ack, batcherVars, runVars, historyVars>>

DropReturn ==
    /\ owner = "dropping"
    /\ bpc = "exited"
    /\ owner' = "dropped"
    /\ UNCHANGED <<submitVars, fired, chan, ack, batcherVars, runVars, historyVars>>

-----------------------------------------------------------------------------
SubmitStep(p) ==
    \/ \E d \in Draft : Submit(p, d)
    \/ TrySend(p)
    \/ SendDisconnected(p)
    \/ Stall(p)
    \/ FireStallHalt(p)

Batcher ==
    \/ RecvEntry
    \/ RecvClose
    \/ RecvTimeout
    \/ RecvDisconnected
    \/ FlushCommit
    \/ FlushPublish
    \/ FlushFail
    \/ SealOk
    \/ SealFail
    \/ Exit

Owner ==
    \/ CloseStart
    \/ CloseSend
    \/ CloseSendFail
    \/ CloseReturn
    \/ DropStart
    \/ DropReturn

\* The owner is gone and no thread is left: nothing more can happen.
Terminated ==
    /\ owner \in {"closed", "failed", "dropped"}
    /\ bpc = "exited"
    /\ UNCHANGED vars

Next ==
    \/ \E p \in Submitter : SubmitStep(p)
    \/ Batcher
    \/ Owner
    \/ Terminated

\* The OS schedules the writer thread and the threads blocked inside submit(),
\* close() and drop(); nobody is obliged to call them.  RecvTimeout is a timer
\* that does expire.  A flush or a seal returns, with either outcome.
Fairness ==
    /\ WF_vars(Batcher)
    /\ \A p \in Submitter : WF_vars(TrySend(p) \/ SendDisconnected(p) \/ Stall(p)
                                    \/ FireStallHalt(p))
    /\ WF_vars(CloseSend \/ CloseSendFail \/ CloseReturn \/ DropReturn)

Spec == Init /\ [][Next]_vars /\ Fairness
-----------------------------------------------------------------------------
(* Properties                                                              *)

\* The entry table is always an unbroken prefix of what the channel accepted:
\* the n-th row carries seq n and the n-th accepted draft, whatever batches it
\* was grouped into.  RunEnded can only follow the last accepted draft.
DurablePrefix ==
    \A i \in DOMAIN durable :
        /\ durable[i].seq = i
        /\ \/ i <= Len(accepted) /\ durable[i].draft = accepted[i]
           \/ /\ i = Len(accepted) + 1
              /\ i = Len(durable)
              /\ durable[i].draft = RunEnded

\* Unless the backend failed, and said so through the halt callback, a writer
\* thread that is gone has committed every draft submit() returned Ok for.  This
\* holds for close(), for drop() and for a backpressure halt alike.
AcceptedNotLost ==
    (bpc = "exited" /\ \A i \in DOMAIN fired : fired[i] # "BackendError")
        => Len(durable) >= Len(accepted)

\* A run is sealed Ended only when it holds every accepted draft and then
\* RunEnded: a graceful close never cuts the log short.
SealedComplete ==
    status = "Ended" =>
        /\ Len(durable) = Len(accepted) + 1
        /\ durable[Len(durable)].draft = RunEnded

\* close() returns Ok exactly for a sealed run, and the high-watermark it returns
\* covers the whole table; an error or a drop leaves the run to recovery.
CloseResultHonest ==
    /\ owner = "closed" => status = "Ended" /\ hwm = Len(durable)
    /\ owner \in {"failed", "dropped"} => status = "Running"

\* The backpressure halt is terminal for the run: submit() calls that begin after
\* it are refused, so only calls already past the entry check (one for each other
\* submitter) can still be accepted.
HaltIsTerminal == late < Cardinality(Submitter) \/ late = 0

\* The mirror is safe to anchor a snapshot against: it never moves back, never
\* points past the table, and the rows it covers never change.
HwmAnchorsDurableRows ==
    [][ /\ hwm <= hwm'
        /\ hwm' <= Len(durable')
        /\ SubSeq(durable', 1, hwm) = SubSeq(durable, 1, hwm) ]_vars

\* What the writer promises whoever reads the run: the run is a DurableLog of the
\* accepted drafts, whatever happens to batches, threads and the backend.
Log == INSTANCE DurableLog WITH
           log   <- [i \in 1 .. Len(durable) |-> durable[i].draft],
           state <- IF status = "Ended" THEN "sealed" ELSE "open"

\* The writer implements a durable log: commits extend the table by accepted drafts
\* in order, RunEnded comes after the last of them, and a sealed run is final.
ImplementsDurableLog == Log!LogSpec

\* submit() always returns: it is bounded by the halt threshold.  close() and drop()
\* return: neither can wait for a writer thread that waits for them, even when the
\* channel is full or the thread has failed.
CallsReturn ==
    /\ \A p \in Submitter : pc[p] # "idle" ~> pc[p] = "idle"
    /\ owner \in {"closing", "awaiting", "dropping"}
           ~> owner \in {"closed", "failed", "dropped"}

\* Every accepted draft becomes durable, in bounded batches and bounded time,
\* or the halt callback reports a backend failure.
AcceptedBecomesDurable ==
    \A n \in 1 .. InitialEntries + MaxSubmits :
        Len(accepted) >= n
            ~> (Len(durable) >= n \/ \E i \in DOMAIN fired : fired[i] = "BackendError")
=============================================================================
