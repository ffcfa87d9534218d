----------------------- MODULE EventStoreWriterProofs -----------------------
(***************************************************************************)
(* Proofs about the event store writer, for any number of submitters and   *)
(* any capacities.  The properties of EventStoreWriter speak of the table  *)
(* and of what was accepted; neither is inductive, because a draft spends  *)
(* its life between the two.  Pipeline says where every accepted draft is. *)
(***************************************************************************)
EXTENDS EventStoreWriter, FiniteSetTheorems, TLAPS

\* RunEnded has been stamped and is on its way through the last flush or the seal.
Closing == after = "seal" /\ bpc \in {"flush", "publish", "seal"}

\* The writer thread is still serving the channel.
Serving == bpc \in {"recv", "flush", "publish"} /\ ~Closing

BackendFailed == \E i \in 1 .. Len(fired) : fired[i] = "BackendError"

CloseQueued == chan # << >> /\ chan[Len(chan)] = CloseMessage

\* Drafts waiting in the channel: Close, if it is there, is the last message.
Queued == IF CloseQueued THEN Len(chan) - 1 ELSE Len(chan)

CallInv ==
    /\ \A p \in Submitter : pc[p] # "idle" => pending[p] \in Draft
    /\ owner # "open" => \A p \in Submitter : pc[p] = "idle"
    /\ \A i \in 1 .. Len(chan) : chan[i] = CloseMessage => i = Len(chan)
    /\ CloseQueued => owner = "awaiting"

\* While the thread serves the channel, table, batch and channel concatenated are
\* exactly the accepted drafts, and the batch continues the table.
Pipeline ==
    Serving =>
        /\ Len(accepted) = Len(durable) + Len(batch) + Queued
        /\ nextSeq = Len(durable) + Len(batch) + 1
        /\ bpc = "publish" => batch = << >>
        /\ \A i \in 1 .. Len(durable) : durable[i].draft = accepted[i]
        /\ \A i \in 1 .. Len(batch) : /\ batch[i].seq = Len(durable) + i
                                      /\ batch[i].draft = accepted[Len(durable) + i]
        /\ \A i \in 1 .. Queued : chan[i] = accepted[Len(durable) + Len(batch) + i]

\* Once Close is received nothing is queued, and RunEnded is the only entry
\* beyond the accepted drafts.
ClosePipeline ==
    Closing =>
        /\ owner = "awaiting"
        /\ chan = << >>
        /\ Len(durable) + Len(batch) = Len(accepted) + 1
        /\ bpc # "flush" => /\ batch = << >>
                            /\ durable[Len(durable)].draft = RunEnded
        /\ bpc = "flush" => /\ batch # << >>
                            /\ batch[Len(batch)].draft = RunEnded
                            /\ \A i \in 1 .. Len(durable) : durable[i].draft = accepted[i]
        /\ \A i \in 1 .. Len(batch) :
              /\ batch[i].seq = Len(durable) + i
              /\ i < Len(batch) => batch[i].draft = accepted[Len(durable) + i]

\* How the thread can have left the loop: the backend failed, or the run was
\* sealed, or the producer went away with nothing in flight.
Left ==
    bpc \in {"exiting", "exited"} =>
        \/ BackendFailed /\ status = "Running"
        \/ /\ status = "Ended"
           /\ owner \in {"awaiting", "closed"}
           /\ Len(durable) = Len(accepted) + 1
           /\ durable[Len(durable)].draft = RunEnded
        \/ /\ status = "Running"
           /\ owner \in {"dropping", "dropped"}
           /\ Len(durable) = Len(accepted)

\* RunEnded enters the table only while close() is waiting for it.
TerminalEntry ==
    Len(durable) > Len(accepted) =>
        owner \notin {"open", "closing", "dropping", "dropped"}

\* The continuation of a flush, and what the owner waits for.
ThreadInv ==
    /\ bpc = "recv" => after = "recv"
    /\ bpc = "seal" => after = "seal"
    /\ bpc = "exited" => chan = << >>
    /\ Serving /\ owner = "awaiting" => CloseQueued
    /\ Serving /\ after = "exiting" => owner = "dropping" /\ chan = << >>

CloseInv ==
    /\ ack = "ok" <=> status = "Ended"
    /\ status = "Ended" => bpc \in {"exiting", "exited"}
    /\ ack # "none" => owner \in {"awaiting", "closed", "failed"}
    /\ owner = "closed" => ack = "ok"
    /\ owner = "failed" => ack # "ok"
    /\ owner \in {"closed", "failed", "dropped"} => bpc = "exited"

HwmInv ==
    /\ hwm <= Len(durable)
    /\ bpc # "publish" => hwm = Len(durable)

IInv ==
    /\ TypeOK
    /\ CallInv
    /\ DurablePrefix
    /\ Pipeline
    /\ ClosePipeline
    /\ Left
    /\ TerminalEntry
    /\ ThreadInv
    /\ CloseInv
    /\ HwmInv
-----------------------------------------------------------------------------
\* The invariant holds of a freshly attached writer.
LEMMA InitIInv == Init => IInv
<1> SUFFICES ASSUME Init PROVE IInv
  BY Zenon
<1> USE WriterAssumption
<1>1. PICK n \in 0 .. InitialEntries : \E d \in [1 .. n -> Draft] :
          /\ accepted = d
          /\ durable = [i \in 1 .. n |-> [seq |-> i, draft |-> d[i]]]
          /\ nextSeq = n + 1
          /\ hwm = n
  BY Zenon DEF Init
<1>2. /\ accepted \in Seq(Draft)
      /\ Len(accepted) = n
      /\ durable \in Seq(Entry)
      /\ Len(durable) = n
      /\ \A i \in 1 .. n : durable[i] = [seq |-> i, draft |-> accepted[i]]
  BY <1>1 DEF Entry
<1>3. TypeOK
  <2>1. chan = << >> /\ batch = << >> /\ fired = << >>
    BY Zenon DEF Init
  <2>2. /\ chan \in Seq(Draft \cup {CloseMessage})
        /\ batch \in Seq(Entry)
        /\ fired \in Seq({"BackpressureStall", "BackendError"})
    BY <2>1
  <2>3. nextSeq \in Nat /\ hwm \in Nat
    BY <1>1
  <2>4. halted \in BOOLEAN
    BY Zenon DEF Init
  <2>5. submits \in 0 .. MaxSubmits
    BY DEF Init, WriterAssumption
  <2>6. pc \in [Submitter -> {"idle", "sending", "halting"}]
    BY Zenon DEF Init
  <2>7. pending \in [Submitter -> Draft \cup {NoDraft}]
    BY Zenon DEF Init
  <2> QED
    BY <1>2, <2>2, <2>3, <2>4, <2>5, <2>6, <2>7, Zenon DEF Init, TypeOK
<1>4. CallInv /\ ThreadInv /\ ClosePipeline /\ Left /\ TerminalEntry /\ CloseInv /\ HwmInv
  BY <1>1, <1>2 DEF Init, CallInv, CloseQueued, ClosePipeline, Closing, Left, ThreadInv, Serving,
                    TerminalEntry, CloseInv, HwmInv
<1>5. DurablePrefix /\ Pipeline
  BY <1>1, <1>2 DEF Init, DurablePrefix, Pipeline, Queued, CloseQueued
<1> QED
  BY <1>3, <1>4, <1>5, Zenon DEF IInv

\* A conjunct of the invariant whose variables do not change is preserved.
LEMMA Frame ==
  /\ CallInv /\ UNCHANGED <<pc, pending, owner, chan>> => CallInv'
  /\ DurablePrefix /\ UNCHANGED <<durable, accepted>> => DurablePrefix'
  /\ Pipeline /\ UNCHANGED <<bpc, after, chan, batch, nextSeq, durable, accepted>> => Pipeline'
  /\ ClosePipeline /\ UNCHANGED <<bpc, after, owner, chan, batch, durable, accepted>> => ClosePipeline'
  /\ Left /\ UNCHANGED <<bpc, fired, status, owner, durable, accepted>> => Left'
  /\ TerminalEntry /\ UNCHANGED <<owner, durable, accepted>> => TerminalEntry'
  /\ ThreadInv /\ UNCHANGED <<bpc, after, owner, chan>> => ThreadInv'
  /\ CloseInv /\ UNCHANGED <<bpc, owner, ack, status>> => CloseInv'
  /\ HwmInv /\ UNCHANGED <<bpc, hwm, durable>> => HwmInv'
<1>1. CallInv /\ UNCHANGED <<pc, pending, owner, chan>> => CallInv'
  BY Zenon DEF CallInv, CloseQueued
<1>2. DurablePrefix /\ UNCHANGED <<durable, accepted>> => DurablePrefix'
  BY Zenon DEF DurablePrefix
<1>3. Pipeline /\ UNCHANGED <<bpc, after, chan, batch, nextSeq, durable, accepted>> => Pipeline'
  BY Zenon DEF Pipeline, Serving, Closing, Queued, CloseQueued
<1>4. ClosePipeline /\ UNCHANGED <<bpc, after, owner, chan, batch, durable, accepted>> => ClosePipeline'
  BY Zenon DEF ClosePipeline, Closing
<1>5. Left /\ UNCHANGED <<bpc, fired, status, owner, durable, accepted>> => Left'
  BY Zenon DEF Left, BackendFailed
<1>6. TerminalEntry /\ UNCHANGED <<owner, durable, accepted>> => TerminalEntry'
  BY Zenon DEF TerminalEntry
<1>7. ThreadInv /\ UNCHANGED <<bpc, after, owner, chan>> => ThreadInv'
  BY Zenon DEF ThreadInv, Serving, Closing, CloseQueued
<1>8. CloseInv /\ UNCHANGED <<bpc, owner, ack, status>> => CloseInv'
  BY Zenon DEF CloseInv
<1>9. HwmInv /\ UNCHANGED <<bpc, hwm, durable>> => HwmInv'
  BY Zenon DEF HwmInv
<1> QED
  BY <1>1, <1>2, <1>3, <1>4, <1>5, <1>6, <1>7, <1>8, <1>9, Zenon

\* The lengths the invariant computes with are natural numbers.
LEMMA Lengths ==
  ASSUME TypeOK
  PROVE  /\ Len(chan) \in Nat /\ Len(batch) \in Nat
         /\ Len(durable) \in Nat /\ Len(accepted) \in Nat
  BY DEF TypeOK

\* A one-message queue is the one whose tail is empty.
LEMMA TailEmpty ==
  ASSUME NEW S, NEW s \in Seq(S), s # << >>
  PROVE  Tail(s) = << >> <=> Len(s) = 1
<1>1. Tail(s) \in Seq(S) /\ Len(Tail(s)) = Len(s) - 1 /\ Len(s) \in Nat
  OBVIOUS
<1>2. \A t \in Seq(S) : t = << >> <=> Len(t) = 0
  OBVIOUS
<1>3. Tail(s) = << >> <=> Len(Tail(s)) = 0
  BY <1>1, <1>2, Zenon
<1> QED
  BY <1>1, <1>3

\* A call that passed the entry check only moves its submitter.
LEMMA SubmitIInv ==
  ASSUME IInv, NEW p \in Submitter, NEW d \in Draft, Submit(p, d)
  PROVE  IInv'
<1> USE WriterAssumption DEF Entry, rxAlive, txAlive, Stamp, submitVars, batcherVars,
                             runVars, historyVars
<1>1. TypeOK'
  BY SMTT(30) DEF IInv, TypeOK, Submit
<1>2. CallInv'
  BY Zenon DEF IInv, TypeOK, CallInv, CloseQueued, Submit
<1>3. DurablePrefix' /\ Pipeline' /\ ClosePipeline' /\ Left' /\ TerminalEntry'
      /\ ThreadInv' /\ CloseInv' /\ HwmInv'
  BY Frame, Zenon DEF IInv, Submit
<1> QED
  BY <1>1, <1>2, <1>3, Zenon DEF IInv

\* An accepted draft joins the end of the pipeline.
LEMMA TrySendIInv ==
  ASSUME IInv, NEW p \in Submitter, TrySend(p)
  PROVE  IInv'
<1> USE WriterAssumption DEF Entry, rxAlive, txAlive, Stamp, submitVars, batcherVars,
                             runVars, historyVars
<1>a. /\ owner = "open"
      /\ pending[p] \in Draft
      /\ Len(durable) <= Len(accepted)
      /\ ~CloseQueued
  BY DEF IInv, TypeOK, CallInv, TerminalEntry, TrySend
<1>b. /\ Len(accepted') = Len(accepted) + 1
      /\ accepted'[Len(accepted) + 1] = pending[p]
      /\ \A i \in 1 .. Len(accepted) : accepted'[i] = accepted[i]
      /\ Len(chan') = Len(chan) + 1
      /\ chan'[Len(chan) + 1] = pending[p]
      /\ \A i \in 1 .. Len(chan) : chan'[i] = chan[i]
  BY <1>a DEF IInv, TypeOK, TrySend
<1>c. Queued = Len(chan) /\ Queued' = Len(chan) + 1
  BY <1>a, <1>b DEF IInv, TypeOK, Queued, CloseQueued
<1>1. TypeOK'
  BY SMTT(30) DEF IInv, TypeOK, CallInv, TrySend
<1>2. CallInv'
  BY <1>a, <1>b DEF IInv, TypeOK, CallInv, CloseQueued, TrySend
<1>3. DurablePrefix'
  BY <1>a, <1>b DEF IInv, TypeOK, DurablePrefix, TrySend
<1>4. Pipeline'
  <2> SUFFICES ASSUME Serving
               PROVE  Pipeline!2'
    BY Zenon DEF Pipeline, Serving, Closing, TrySend
  <2>1. /\ Len(accepted) = Len(durable) + Len(batch) + Len(chan)
        /\ \A i \in 1 .. Len(chan) : chan[i] = accepted[Len(durable) + Len(batch) + i]
    BY <1>c, Zenon DEF IInv, Pipeline
  <2>2. ASSUME NEW i \in 1 .. Queued'
        PROVE  chan'[i] = accepted'[Len(durable) + Len(batch) + i]
    <3>1. CASE i \in 1 .. Len(chan)
      <4>1. Len(durable) + Len(batch) + i \in 1 .. Len(accepted)
        BY <2>1, <3>1, Lengths DEF IInv
      <4> QED
        BY <1>b, <2>1, <3>1, <4>1, Zenon
    <3>2. CASE i = Len(chan) + 1
      <4>1. Len(durable) + Len(batch) + i = Len(accepted) + 1
        BY <2>1, <3>2, Lengths DEF IInv
      <4> QED
        BY <1>b, <3>2, <4>1, Zenon
    <3> QED
      BY <1>c, <3>1, <3>2, Lengths DEF IInv
  <2>3. \A i \in 1 .. Len(durable) : accepted'[i] = accepted[i]
    BY <1>a, <1>b, Lengths DEF IInv
  <2>4. \A i \in 1 .. Len(batch) : accepted'[Len(durable) + i] = accepted[Len(durable) + i]
    BY <1>b, <2>1, Lengths DEF IInv
  <2>5. UNCHANGED <<bpc, batch, nextSeq, durable>>
    BY Zenon DEF TrySend
  <2>6. /\ nextSeq = Len(durable) + Len(batch) + 1
        /\ bpc = "publish" => batch = << >>
        /\ \A i \in 1 .. Len(durable) : durable[i].draft = accepted'[i]
        /\ \A i \in 1 .. Len(batch) : /\ batch[i].seq = Len(durable) + i
                                      /\ batch[i].draft = accepted'[Len(durable) + i]
    BY <2>3, <2>4 DEF IInv, Pipeline
  <2>7. Len(accepted') = Len(durable) + Len(batch) + Queued'
    BY <1>b, <1>c, <2>1, Lengths DEF IInv
  <2> QED
    BY <2>2, <2>5, <2>6, <2>7, Zenon
<1>5. ClosePipeline'
  BY <1>a, Zenon DEF IInv, ClosePipeline, Closing, TrySend
<1>6. Left'
  BY <1>a, Zenon DEF IInv, Left, BackendFailed, TrySend
<1>7. TerminalEntry'
  BY <1>a, <1>b DEF IInv, TerminalEntry, TrySend
<1>8. ThreadInv'
  BY <1>a, Zenon DEF IInv, ThreadInv, Serving, Closing, TrySend
<1>9. CloseInv' /\ HwmInv'
  BY Frame, Zenon DEF IInv, TrySend
<1> QED
  BY <1>1, <1>2, <1>3, <1>4, <1>5, <1>6, <1>7, <1>8, <1>9, Zenon DEF IInv

\* A refused draft never entered the pipeline.
LEMMA SendDisconnectedIInv ==
  ASSUME IInv, NEW p \in Submitter, SendDisconnected(p)
  PROVE  IInv'
<1> USE WriterAssumption DEF Entry, rxAlive, txAlive, Stamp, submitVars, batcherVars,
                             runVars, historyVars
<1>1. TypeOK'
  BY SMTT(30) DEF IInv, TypeOK, SendDisconnected
<1>2. CallInv'
  BY Zenon DEF IInv, TypeOK, CallInv, CloseQueued, SendDisconnected
<1>3. DurablePrefix' /\ Pipeline' /\ ClosePipeline' /\ Left' /\ TerminalEntry'
      /\ ThreadInv' /\ CloseInv' /\ HwmInv'
  BY Frame, Zenon DEF IInv, SendDisconnected
<1> QED
  BY <1>1, <1>2, <1>3, Zenon DEF IInv

\* A stall touches only the flag.
LEMMA StallIInv ==
  ASSUME IInv, NEW p \in Submitter, Stall(p)
  PROVE  IInv'
<1> USE WriterAssumption DEF Entry, rxAlive, txAlive, Stamp, submitVars, batcherVars,
                             runVars, historyVars
<1>1. TypeOK'
  BY SMTT(30) DEF IInv, TypeOK, Stall
<1>2. CallInv'
  BY DEF IInv, CallInv, CloseQueued, Stall
<1>3. DurablePrefix' /\ Pipeline' /\ ClosePipeline' /\ Left' /\ TerminalEntry'
      /\ ThreadInv' /\ CloseInv' /\ HwmInv'
  BY Frame, Zenon DEF IInv, Stall
<1> QED
  BY <1>1, <1>2, <1>3, Zenon DEF IInv

\* Firing the callback for a stall reports no backend failure.
LEMMA FireStallHaltIInv ==
  ASSUME IInv, NEW p \in Submitter, FireStallHalt(p)
  PROVE  IInv'
<1> USE WriterAssumption DEF Entry, rxAlive, txAlive, Stamp, submitVars, batcherVars,
                             runVars, historyVars
<1>1. TypeOK'
  BY SMTT(30) DEF IInv, TypeOK, FireStallHalt
<1>2. CallInv'
  BY Zenon DEF IInv, TypeOK, CallInv, CloseQueued, FireStallHalt
<1>3. Left'
  BY DEF IInv, Left, CloseInv, BackendFailed, FireStallHalt
<1>4. DurablePrefix' /\ Pipeline' /\ ClosePipeline' /\ TerminalEntry' /\
      ThreadInv' /\ CloseInv' /\ HwmInv'
  BY Frame, Zenon DEF IInv, FireStallHalt
<1> QED
  BY <1>1, <1>2, <1>3, <1>4, Zenon DEF IInv

\* A received draft moves from the channel to the batch, keeping its place.
LEMMA RecvEntryIInv ==
  ASSUME IInv, RecvEntry
  PROVE  IInv'
<1> USE WriterAssumption DEF Entry, rxAlive, txAlive, Stamp, submitVars, batcherVars,
                             runVars, historyVars
<1>a. /\ Serving
      /\ Len(chan) \in Nat \ {0}
      /\ Head(chan) = chan[1] /\ Head(chan) \in Draft
      /\ Len(chan') = Len(chan) - 1
      /\ \A i \in 1 .. Len(chan') : chan'[i] = chan[i + 1]
      /\ Len(batch') = Len(batch) + 1
      /\ batch'[Len(batch) + 1] = [seq |-> nextSeq, draft |-> chan[1]]
      /\ \A i \in 1 .. Len(batch) : batch'[i] = batch[i]
  BY DEF IInv, TypeOK, ThreadInv, Serving, Closing, RecvEntry
<1>b. CloseQueued' <=> CloseQueued
  <2>1. /\ chan' = << >> <=> Len(chan) = 1
        /\ chan # << >>
    <3>1. chan \in Seq(Draft \cup {CloseMessage}) /\ chan # << >> /\ chan' = Tail(chan)
      BY Zenon DEF IInv, TypeOK, RecvEntry
    <3> QED
      BY <3>1, TailEmpty, Zenon
  <2>2. CASE Len(chan) = 1
    BY <1>a, <2>1, <2>2, Zenon DEF CloseQueued, RecvEntry
  <2>3. CASE Len(chan) > 1
    <3>1. chan'[Len(chan')] = chan[Len(chan)]
      <4>1. Len(chan') \in 1 .. Len(chan') /\ Len(chan') + 1 = Len(chan)
        BY <1>a, <2>3
      <4> QED
        BY <1>a, <4>1
    <3> QED
      BY <2>1, <2>3, <3>1 DEF CloseQueued
  <2> QED
    BY <1>a, <2>2, <2>3
<1>c. Queued \in Nat \ {0} /\ Queued <= Len(chan) /\ Queued' = Queued - 1
  <2>1. CloseQueued => Len(chan) > 1
    BY <1>a DEF CloseQueued, RecvEntry
  <2> QED
    BY <1>a, <1>b, <2>1 DEF Queued
<1>1. TypeOK'
  BY SMTT(30) DEF IInv, TypeOK, RecvEntry
<1>2. CallInv'
  <2>1. ASSUME NEW i \in 1 .. Len(chan'), chan'[i] = CloseMessage
        PROVE  i = Len(chan')
    <3>1. i + 1 \in 1 .. Len(chan) /\ chan[i + 1] = CloseMessage
      BY <1>a, <2>1
    <3>2. i + 1 = Len(chan)
      BY <3>1, Zenon DEF IInv, CallInv
    <3> QED
      BY <1>a, <3>2
  <2>2. UNCHANGED <<pc, pending, owner>>
    BY Zenon DEF RecvEntry
  <2> QED
    BY <1>b, <2>1, <2>2, Zenon DEF IInv, CallInv
<1>3. Pipeline'
  <2>1. /\ Len(accepted) = Len(durable) + Len(batch) + Queued
        /\ nextSeq = Len(durable) + Len(batch) + 1
        /\ \A i \in 1 .. Len(durable) : durable[i].draft = accepted[i]
        /\ \A i \in 1 .. Len(batch) : /\ batch[i].seq = Len(durable) + i
                                      /\ batch[i].draft = accepted[Len(durable) + i]
        /\ \A i \in 1 .. Queued : chan[i] = accepted[Len(durable) + Len(batch) + i]
    BY <1>a, Zenon DEF IInv, Pipeline
  <2>2. chan[1] = accepted[Len(durable) + Len(batch) + 1]
    BY <1>c, <2>1
  <2>3. ASSUME NEW i \in 1 .. Len(batch')
        PROVE  /\ batch'[i].seq = Len(durable) + i
               /\ batch'[i].draft = accepted[Len(durable) + i]
    <3>1. CASE i \in 1 .. Len(batch)
      BY <1>a, <2>1, <3>1, Zenon
    <3>2. CASE i = Len(batch) + 1
      <4>1. batch'[i].seq = nextSeq /\ batch'[i].draft = chan[1]
        BY <1>a, <3>2
      <4>2. Len(durable) + i = Len(durable) + Len(batch) + 1
        BY <3>2, Lengths DEF IInv
      <4> QED
        BY <2>1, <2>2, <4>1, <4>2, Zenon
    <3> QED
      BY <1>a, <3>1, <3>2, Lengths DEF IInv
  <2>4. ASSUME NEW i \in 1 .. Queued'
        PROVE  chan'[i] = accepted[Len(durable) + Len(batch') + i]
    <3>1. /\ i \in 1 .. Len(chan') /\ i + 1 \in 1 .. Queued
          /\ Len(durable) + Len(batch') + i = Len(durable) + Len(batch) + (i + 1)
      BY <1>a, <1>c, Lengths DEF IInv
    <3> QED
      BY <1>a, <2>1, <3>1
  <2>5. /\ bpc' # "publish"
        /\ UNCHANGED <<durable, accepted>>
        /\ nextSeq' = nextSeq + 1
    BY Zenon DEF RecvEntry
  <2>6. /\ Len(accepted) = Len(durable) + Len(batch') + Queued'
        /\ nextSeq' = Len(durable) + Len(batch') + 1
    BY <1>a, <1>c, <2>1, <2>5, Lengths DEF IInv
  <2> QED
    BY <2>1, <2>3, <2>4, <2>5, <2>6, Zenon DEF Pipeline
<1>4. ClosePipeline'
  BY Zenon DEF IInv, ClosePipeline, Closing, RecvEntry
<1>5. Left'
  BY Zenon DEF IInv, Left, CloseInv, BackendFailed, RecvEntry
<1>6. ThreadInv'
  BY <1>a, <1>b, Zenon DEF IInv, TypeOK, ThreadInv, Serving, Closing, RecvEntry
<1>7. CloseInv'
  BY Zenon DEF IInv, CloseInv, Left, ThreadInv, RecvEntry
<1>8. HwmInv'
  BY Zenon DEF IInv, HwmInv, RecvEntry
<1>9. DurablePrefix' /\ TerminalEntry'
  BY Frame, Zenon DEF IInv, RecvEntry
<1> QED
  BY <1>1, <1>2, <1>3, <1>4, <1>5, <1>6, <1>7, <1>8, <1>9, Zenon DEF IInv

\* When Close is received the channel is empty, so RunEnded follows the last draft.
LEMMA RecvCloseIInv ==
  ASSUME IInv, RecvClose
  PROVE  IInv'
<1> USE WriterAssumption DEF Entry, rxAlive, txAlive, Stamp, submitVars, batcherVars,
                             runVars, historyVars
<1>a. Serving /\ CloseQueued /\ Len(chan) = 1 /\ Queued = 0 /\ owner = "awaiting"
  <2>1. Len(chan) \in Nat \ {0} /\ chan[1] = CloseMessage
    BY DEF IInv, TypeOK, RecvClose
  <2>2. Len(chan) = 1
    BY <2>1 DEF IInv, CallInv
  <2>3. Serving
    BY Zenon DEF IInv, ThreadInv, Serving, Closing, RecvClose
  <2> QED
    BY <2>1, <2>2, <2>3 DEF IInv, CallInv, CloseQueued, Queued, RecvClose
<1>b. batch' = Append(batch, [seq |-> nextSeq, draft |-> RunEnded])
  <2>1. chan \in Seq(Draft \cup {CloseMessage}) /\ chan # << >> /\ batch \in Seq(Entry) /\ nextSeq \in Nat
    BY Zenon DEF IInv, TypeOK, RecvClose
  <2>2. Tail(chan) = << >>
    BY <1>a, <2>1, TailEmpty, Zenon
  <2>3. Drained(<< >>) = << >>
    BY DEF Drained
  <2>4. Drained(Tail(chan)) = << >>
    BY <2>2, <2>3, Zenon
  <2>5. batch' = Append(batch \o Drained(Tail(chan)),
                        [seq |-> nextSeq + Len(Drained(Tail(chan))), draft |-> RunEnded])
    BY Zenon DEF RecvClose
  <2>6. batch \o << >> = batch /\ nextSeq + Len(<< >>) = nextSeq
    BY <2>1
  <2> QED
    BY <2>4, <2>5, <2>6, Zenon
<1>1. TypeOK'
  BY <1>b, SMTT(30) DEF IInv, TypeOK, RecvClose, Drained
<1>2. CallInv'
  BY DEF IInv, CallInv, CloseQueued, TypeOK, RecvClose
<1>3. Pipeline'
  BY Zenon DEF IInv, Pipeline, Serving, Closing, Queued, CloseQueued, RecvClose
<1>4. ClosePipeline'
  <2>1. /\ Len(batch') = Len(batch) + 1
        /\ batch'[Len(batch) + 1] = [seq |-> nextSeq, draft |-> RunEnded]
        /\ \A i \in 1 .. Len(batch) : batch'[i] = batch[i]
    BY <1>b DEF IInv, TypeOK
  <2>2. /\ Len(accepted) = Len(durable) + Len(batch)
        /\ nextSeq = Len(durable) + Len(batch) + 1
        /\ \A i \in 1 .. Len(durable) : durable[i].draft = accepted[i]
        /\ \A i \in 1 .. Len(batch) : /\ batch[i].seq = Len(durable) + i
                                      /\ batch[i].draft = accepted[Len(durable) + i]
    BY <1>a, Lengths DEF IInv, Pipeline
  <2>3. ASSUME NEW i \in 1 .. Len(batch')
        PROVE  /\ batch'[i].seq = Len(durable) + i
               /\ i < Len(batch') => batch'[i].draft = accepted[Len(durable) + i]
    <3>1. CASE i \in 1 .. Len(batch)
      BY <2>1, <2>2, <3>1, Zenon
    <3>2. CASE i = Len(batch) + 1
      BY <2>1, <2>2, <3>2, Lengths DEF IInv
    <3> QED
      BY <2>1, <3>1, <3>2, Lengths DEF IInv
  <2>4. batch' # << >> /\ batch'[Len(batch')].draft = RunEnded
    BY <2>1, Lengths DEF IInv
  <2>5. /\ UNCHANGED <<owner, durable, accepted>>
        /\ chan' = << >> /\ bpc' = "flush"
    BY Zenon DEF RecvClose
  <2>6. Len(durable) + Len(batch') = Len(accepted) + 1
    BY <2>1, <2>2, Lengths DEF IInv
  <2> QED
    BY <1>a, <2>2, <2>3, <2>4, <2>5, <2>6, Zenon DEF ClosePipeline
<1>5. Left'
  BY Zenon DEF IInv, Left, CloseInv, BackendFailed, RecvClose
<1>6. ThreadInv'
  BY Zenon DEF IInv, ThreadInv, Serving, Closing, CloseQueued, CallInv, CloseInv,
         RecvClose
<1>7. CloseInv'
  BY Zenon DEF IInv, CloseInv, Left, ThreadInv, RecvClose
<1>8. HwmInv'
  BY Zenon DEF IInv, HwmInv, RecvClose
<1>9. DurablePrefix' /\ TerminalEntry'
  BY Frame, Zenon DEF IInv, RecvClose
<1> QED
  BY <1>1, <1>2, <1>3, <1>4, <1>5, <1>6, <1>7, <1>8, <1>9, Zenon DEF IInv

\* A deadline only starts a flush.
LEMMA RecvTimeoutIInv ==
  ASSUME IInv, RecvTimeout
  PROVE  IInv'
<1> USE WriterAssumption DEF Entry, rxAlive, txAlive, Stamp, submitVars, batcherVars,
                             runVars, historyVars
<1>1. TypeOK'
  BY Zenon DEF IInv, TypeOK, RecvTimeout
<1>2. Pipeline'
  BY Zenon DEF IInv, Pipeline, Serving, Closing, Queued, CloseQueued, RecvTimeout
<1>3. ClosePipeline'
  BY Zenon DEF IInv, ClosePipeline, Closing, RecvTimeout
<1>4. Left'
  BY Zenon DEF IInv, Left, CloseInv, BackendFailed, RecvTimeout
<1>5. ThreadInv'
  BY Zenon DEF IInv, ThreadInv, Serving, Closing, CloseQueued, CallInv, CloseInv,
         RecvTimeout
<1>6. CloseInv'
  BY Zenon DEF IInv, CloseInv, Left, ThreadInv, RecvTimeout
<1>7. HwmInv'
  BY Zenon DEF IInv, HwmInv, RecvTimeout
<1>8. CallInv' /\ DurablePrefix' /\ TerminalEntry'
  BY Frame, Zenon DEF IInv, RecvTimeout
<1> QED
  BY <1>1, <1>2, <1>3, <1>4, <1>5, <1>6, <1>7, <1>8, Zenon DEF IInv

\* The producer can only be gone because the writer is being dropped.
LEMMA RecvDisconnectedIInv ==
  ASSUME IInv, RecvDisconnected
  PROVE  IInv'
<1> USE WriterAssumption DEF Entry, rxAlive, txAlive, Stamp, submitVars, batcherVars,
                             runVars, historyVars
<1>1. TypeOK'
  BY Zenon DEF IInv, TypeOK, RecvDisconnected
<1>2. Pipeline'
  BY Zenon DEF IInv, Pipeline, Serving, Closing, Queued, CloseQueued, RecvDisconnected
<1>3. ClosePipeline'
  BY Zenon DEF IInv, ClosePipeline, Closing, RecvDisconnected
<1>a. Serving /\ owner = "dropping"
  BY Zenon DEF IInv, TypeOK, ThreadInv, CloseInv, Serving, Closing, CloseQueued,
         RecvDisconnected
<1>b. batch = << >> => Len(durable) = Len(accepted)
  BY <1>a, Lengths DEF IInv, Pipeline, Queued, CloseQueued, RecvDisconnected
<1>4. Left'
  BY <1>a, <1>b, Zenon DEF IInv, TypeOK, Left, CloseInv, RecvDisconnected
<1>5. ThreadInv'
  BY <1>a, Zenon DEF IInv, ThreadInv, Serving, Closing, RecvDisconnected
<1>6. CloseInv'
  BY Zenon DEF IInv, CloseInv, Left, ThreadInv, RecvDisconnected
<1>7. HwmInv'
  BY Zenon DEF IInv, HwmInv, RecvDisconnected
<1>8. CallInv' /\ DurablePrefix' /\ TerminalEntry'
  BY Frame, Zenon DEF IInv, RecvDisconnected
<1> QED
  BY <1>1, <1>2, <1>3, <1>4, <1>5, <1>6, <1>7, <1>8, Zenon DEF IInv

\* The rows a commit adds: the next accepted drafts in order, and, when the run is
\* closing, RunEnded after the last of them.
LEMMA FlushCommitRows ==
  ASSUME IInv, FlushCommit
  PROVE  /\ Serving \/ Closing
         /\ Serving => /\ Len(durable') <= Len(accepted)
                       /\ \A i \in 1 .. Len(durable') :
                             durable'[i].seq = i /\ durable'[i].draft = accepted[i]
         /\ Closing => /\ Len(durable') = Len(accepted) + 1
                       /\ durable'[Len(durable')].draft = RunEnded
                       /\ durable'[Len(durable')].seq = Len(durable')
                       /\ \A i \in 1 .. Len(accepted) :
                             durable'[i].seq = i /\ durable'[i].draft = accepted[i]
<1> USE WriterAssumption DEF Entry, rxAlive, txAlive, Stamp, submitVars, batcherVars,
                             runVars, historyVars
<1>a. /\ Len(durable') = Len(durable) + Len(batch)
      /\ \A i \in 1 .. Len(durable) : durable'[i] = durable[i]
      /\ \A i \in 1 .. Len(batch) : durable'[Len(durable) + i] = batch[i]
      /\ batch' = << >> /\ Len(batch') = 0
  <2>1. durable' = durable \o batch /\ batch' = << >>
    BY Zenon DEF FlushCommit
  <2>2. durable \in Seq(Entry) /\ batch \in Seq(Entry)
    BY Zenon DEF IInv, TypeOK
  <2> QED
    BY <2>1, <2>2
<1>b. \A i \in 1 .. Len(durable') :
         \/ i \in 1 .. Len(durable) /\ durable'[i] = durable[i]
         \/ \E j \in 1 .. Len(batch) : i = Len(durable) + j /\ durable'[i] = batch[j]
  <2> TAKE i \in 1 .. Len(durable')
  <2>1. CASE i <= Len(durable)
    BY <1>a, <2>1, Lengths DEF IInv
  <2>2. CASE i > Len(durable)
    <3>1. i - Len(durable) \in 1 .. Len(batch) /\ i = Len(durable) + (i - Len(durable))
      BY <1>a, <2>2, Lengths DEF IInv
    <3> QED
      BY <1>a, <3>1, Zenon
  <2> QED
    BY <2>1, <2>2, Lengths DEF IInv
<1>c. Serving \/ Closing
  BY Zenon DEF Serving, Closing, FlushCommit
<1>e. \A i \in 1 .. Len(durable) : durable[i].seq = i
  BY DEF IInv, TypeOK, DurablePrefix
<1>f. Serving => /\ Len(durable') <= Len(accepted)
                 /\ \A i \in 1 .. Len(durable') : durable'[i].seq = i /\ durable'[i].draft = accepted[i]
  <2> SUFFICES ASSUME Serving
               PROVE  /\ Len(durable') <= Len(accepted)
                      /\ \A i \in 1 .. Len(durable') : durable'[i].seq = i /\ durable'[i].draft = accepted[i]
    BY Zenon
  <2>1. Queued \in Nat
    BY Lengths DEF IInv, TypeOK, Queued, CloseQueued
  <2>2. Len(durable') <= Len(accepted)
    BY <1>a, <2>1, Lengths DEF IInv, Pipeline
  <2>3. /\ \A i \in 1 .. Len(durable) : durable[i].draft = accepted[i]
        /\ \A i \in 1 .. Len(batch) : /\ batch[i].seq = Len(durable) + i
                                      /\ batch[i].draft = accepted[Len(durable) + i]
    BY Zenon DEF IInv, Pipeline
  <2>4. ASSUME NEW i \in 1 .. Len(durable')
        PROVE  durable'[i].seq = i /\ durable'[i].draft = accepted[i]
    <3>1. CASE i \in 1 .. Len(durable)
      BY <1>a, <1>e, <2>3, <3>1, Zenon
    <3>2. ASSUME NEW j \in 1 .. Len(batch), i = Len(durable) + j, durable'[i] = batch[j]
          PROVE  durable'[i].seq = i /\ durable'[i].draft = accepted[i]
      BY <2>3, <3>2, Zenon
    <3> QED
      BY <1>b, <3>1, <3>2, Zenon
  <2> QED
    BY <2>2, <2>4, Zenon
<1>g. Closing => /\ Len(durable') = Len(accepted) + 1
                 /\ durable'[Len(durable')].draft = RunEnded
                 /\ durable'[Len(durable')].seq = Len(durable')
                 /\ \A i \in 1 .. Len(accepted) : durable'[i].seq = i /\ durable'[i].draft = accepted[i]
  <2> SUFFICES ASSUME Closing
               PROVE  /\ Len(durable') = Len(accepted) + 1
                      /\ durable'[Len(durable')].draft = RunEnded
                      /\ durable'[Len(durable')].seq = Len(durable')
                      /\ \A i \in 1 .. Len(accepted) : durable'[i].seq = i /\ durable'[i].draft = accepted[i]
    BY Zenon
  <2>1. /\ Len(durable') = Len(accepted) + 1
        /\ Len(batch) \in Nat \ {0}
        /\ batch[Len(batch)].draft = RunEnded
        /\ batch[Len(batch)].seq = Len(durable) + Len(batch)
    BY <1>a DEF IInv, TypeOK, ClosePipeline, FlushCommit
  <2>2. durable'[Len(durable')] = batch[Len(batch)]
    BY <1>a, <2>1
  <2>3. ASSUME NEW i \in 1 .. Len(accepted)
        PROVE  durable'[i].seq = i /\ durable'[i].draft = accepted[i]
    <3>1. /\ \A j \in 1 .. Len(durable) : durable[j].draft = accepted[j]
          /\ \A j \in 1 .. Len(batch) :
                /\ batch[j].seq = Len(durable) + j
                /\ j < Len(batch) => batch[j].draft = accepted[Len(durable) + j]
      BY Zenon DEF IInv, ClosePipeline, FlushCommit
    <3>2. i \in 1 .. Len(durable') /\ i < Len(durable) + Len(batch)
      BY <1>a, <2>1, <2>3, Lengths DEF IInv
    <3>3. CASE i \in 1 .. Len(durable)
      BY <1>a, <1>e, <3>1, <3>3, Zenon
    <3>4. ASSUME NEW j \in 1 .. Len(batch), i = Len(durable) + j, durable'[i] = batch[j]
          PROVE  durable'[i].seq = i /\ durable'[i].draft = accepted[i]
      <4>1. j < Len(batch)
        BY <3>2, <3>4, Lengths DEF IInv
      <4> QED
        BY <3>1, <3>4, <4>1, Zenon
    <3> QED
      BY <1>b, <3>2, <3>3, <3>4, Zenon
  <2> QED
    BY <1>a, <2>1, <2>2, <2>3, Zenon
<1> QED
  BY <1>c, <1>f, <1>g, Zenon

\* A commit moves the whole batch to the end of the table.
LEMMA FlushCommitIInv ==
  ASSUME IInv, FlushCommit
  PROVE  IInv'
<1> USE WriterAssumption DEF Entry, rxAlive, txAlive, Stamp, submitVars, batcherVars,
                             runVars, historyVars
<1>a. /\ Len(durable') = Len(durable) + Len(batch)
      /\ \A i \in 1 .. Len(durable) : durable'[i] = durable[i]
      /\ \A i \in 1 .. Len(batch) : durable'[Len(durable) + i] = batch[i]
      /\ batch' = << >> /\ Len(batch') = 0
  <2>1. durable' = durable \o batch /\ batch' = << >>
    BY Zenon DEF FlushCommit
  <2>2. durable \in Seq(Entry) /\ batch \in Seq(Entry)
    BY Zenon DEF IInv, TypeOK
  <2> QED
    BY <2>1, <2>2
<1>c. Serving \/ Closing
  BY FlushCommitRows, Zenon
<1>d. UNCHANGED <<Serving, Closing, Queued>>
  BY Zenon DEF Serving, Closing, Queued, CloseQueued, FlushCommit
<1>f. Serving => /\ Len(durable') <= Len(accepted)
                 /\ \A i \in 1 .. Len(durable') : durable'[i].seq = i /\ durable'[i].draft = accepted[i]
  BY FlushCommitRows, Zenon
<1>g. Closing => /\ Len(durable') = Len(accepted) + 1
                 /\ durable'[Len(durable')].draft = RunEnded
                 /\ durable'[Len(durable')].seq = Len(durable')
                 /\ \A i \in 1 .. Len(accepted) : durable'[i].seq = i /\ durable'[i].draft = accepted[i]
  BY FlushCommitRows, Zenon
<1>1. TypeOK'
  BY SMTT(30) DEF IInv, TypeOK, FlushCommit
<1>2. DurablePrefix'
  <2>1. DOMAIN durable' = 1 .. Len(durable')
    BY DEF IInv, TypeOK, FlushCommit
  <2>2. CASE Serving
    BY <1>f, <2>1, <2>2, Lengths DEF IInv, DurablePrefix, FlushCommit
  <2>3. CASE Closing
    <3>1. ASSUME NEW i \in 1 .. Len(durable')
          PROVE  i \in 1 .. Len(accepted) \/ i = Len(accepted) + 1
      BY <1>g, <2>3, Lengths DEF IInv
    <3>2. accepted' = accepted
      BY Zenon DEF FlushCommit
    <3> QED
      BY <1>g, <2>1, <2>3, <3>1, <3>2, Lengths DEF IInv, DurablePrefix
  <2> QED
    BY <1>c, <2>2, <2>3, Zenon
<1>3. Pipeline'
  BY <1>a, <1>d, <1>f, Lengths DEF IInv, Pipeline, FlushCommit
<1>4. ClosePipeline'
  BY DEF IInv, ClosePipeline, Closing, FlushCommit
<1>5. Left'
  BY Zenon DEF IInv, Left, CloseInv, BackendFailed, FlushCommit
<1>6. TerminalEntry'
  BY <1>c, <1>f, Lengths DEF IInv, TerminalEntry, ClosePipeline, FlushCommit
<1>7. ThreadInv'
  BY Zenon DEF IInv, ThreadInv, Serving, Closing, CloseQueued, CallInv, CloseInv,
         FlushCommit
<1>8. CloseInv'
  BY Zenon DEF IInv, CloseInv, Left, ThreadInv, FlushCommit
<1>9. HwmInv'
  BY DEF IInv, HwmInv, FlushCommit
<1>10. CallInv'
  BY Frame, Zenon DEF IInv, FlushCommit
<1> QED
  BY <1>1, <1>2, <1>3, <1>4, <1>5, <1>6, <1>7, <1>8, <1>9, <1>10 DEF IInv

\* After a commit the mirror catches up with the table.
LEMMA FlushPublishIInv ==
  ASSUME IInv, FlushPublish
  PROVE  IInv'
<1> USE WriterAssumption DEF Entry, rxAlive, txAlive, Stamp, submitVars, batcherVars,
                             runVars, historyVars
<1>1. TypeOK'
  BY SMTT(30) DEF IInv, TypeOK, FlushPublish
<1>2. Pipeline'
  BY Zenon DEF IInv, Pipeline, Serving, Closing, Queued, CloseQueued, FlushPublish
<1>3. ClosePipeline'
  BY Zenon DEF IInv, ClosePipeline, Closing, ThreadInv, FlushPublish
<1>4. Left'
  <2>1. CASE after = "exiting"
    BY <2>1 DEF IInv, TypeOK, ThreadInv, CloseInv, Pipeline, Serving, Closing, Queued, CloseQueued,
                Left, FlushPublish
  <2>2. CASE after # "exiting"
    BY <2>2, Zenon DEF IInv, TypeOK, Left, FlushPublish
  <2> QED
    BY <2>1, <2>2, Zenon
<1>5. ThreadInv'
  BY Zenon DEF IInv, TypeOK, ThreadInv, Serving, Closing, CloseQueued, FlushPublish
<1>6. CloseInv'
  BY Zenon DEF IInv, CloseInv, Left, ThreadInv, FlushPublish
<1>7. HwmInv'
  BY DEF IInv, HwmInv, FlushPublish
<1>8. CallInv' /\ DurablePrefix' /\ TerminalEntry'
  BY Frame, Zenon DEF IInv, FlushPublish
<1> QED
  BY <1>1, <1>2, <1>3, <1>4, <1>5, <1>6, <1>7, <1>8, Zenon DEF IInv

\* A failed commit leaves the table as it was and reports the failure.
LEMMA FlushFailIInv ==
  ASSUME IInv, FlushFail
  PROVE  IInv'
<1> USE WriterAssumption DEF Entry, rxAlive, txAlive, Stamp, submitVars, batcherVars,
                             runVars, historyVars
<1>1. TypeOK'
  BY SMTT(30) DEF IInv, TypeOK, FlushFail
<1>2. Pipeline'
  BY Zenon DEF IInv, Pipeline, Serving, Closing, Queued, CloseQueued, FlushFail
<1>3. ClosePipeline'
  BY Zenon DEF IInv, ClosePipeline, Closing, FlushFail
<1>4. Left'
  <2>1. /\ Len(fired') \in Nat \ {0}
        /\ fired'[Len(fired')] = "BackendError"
    BY DEF IInv, TypeOK, FlushFail
  <2>2. BackendFailed'
    BY <2>1 DEF BackendFailed
  <2>3. status = "Running"
    BY Zenon DEF IInv, TypeOK, CloseInv, FlushFail
  <2> QED
    BY <2>2, <2>3, Zenon DEF Left, FlushFail
<1>5. ThreadInv'
  BY Zenon DEF IInv, ThreadInv, Serving, Closing, CloseQueued, CallInv, CloseInv,
         FlushFail
<1>6. CloseInv'
  <2>1. ack = "none" \/ owner \in {"awaiting", "closed", "failed"}
    BY Zenon DEF IInv, TypeOK, CloseInv
  <2>2. after = "seal" => owner = "awaiting"
    BY Zenon DEF IInv, ClosePipeline, Closing, FlushFail
  <2> QED
    BY <2>1, <2>2, Zenon DEF IInv, TypeOK, CloseInv, FlushFail
<1>7. HwmInv'
  BY Zenon DEF IInv, HwmInv, FlushFail
<1>8. CallInv' /\ DurablePrefix' /\ TerminalEntry'
  BY Frame, Zenon DEF IInv, FlushFail
<1> QED
  BY <1>1, <1>2, <1>3, <1>4, <1>5, <1>6, <1>7, <1>8, Zenon DEF IInv

\* The seal follows the commit of RunEnded.
LEMMA SealOkIInv ==
  ASSUME IInv, SealOk
  PROVE  IInv'
<1> USE WriterAssumption DEF Entry, rxAlive, txAlive, Stamp, submitVars, batcherVars,
                             runVars, historyVars
<1>a. Closing
  BY Zenon DEF IInv, ThreadInv, Closing, SealOk
<1>1. TypeOK'
  BY Zenon DEF IInv, TypeOK, SealOk
<1>2. Pipeline'
  BY Zenon DEF IInv, Pipeline, Serving, Closing, Queued, CloseQueued, SealOk
<1>3. ClosePipeline'
  BY Zenon DEF IInv, ClosePipeline, Closing, SealOk
<1>4. Left'
  BY <1>a, Lengths DEF IInv, TypeOK, Left, CloseInv, ClosePipeline, BackendFailed, SealOk
<1>5. ThreadInv'
  BY Zenon DEF IInv, ThreadInv, Serving, Closing, CloseQueued, CallInv, CloseInv,
         SealOk
<1>6. CloseInv'
  BY <1>a, Zenon DEF IInv, CloseInv, ClosePipeline, SealOk
<1>7. HwmInv'
  BY Zenon DEF IInv, HwmInv, SealOk
<1>8. CallInv' /\ DurablePrefix' /\ TerminalEntry'
  BY Frame, Zenon DEF IInv, SealOk
<1> QED
  BY <1>1, <1>2, <1>3, <1>4, <1>5, <1>6, <1>7, <1>8, Zenon DEF IInv

\* A failed seal leaves the run unsealed and reports the failure.
LEMMA SealFailIInv ==
  ASSUME IInv, SealFail
  PROVE  IInv'
<1> USE WriterAssumption DEF Entry, rxAlive, txAlive, Stamp, submitVars, batcherVars,
                             runVars, historyVars
<1>a. Closing
  BY Zenon DEF IInv, ThreadInv, Closing, SealFail
<1>1. TypeOK'
  BY SMTT(30) DEF IInv, TypeOK, SealFail
<1>2. Pipeline'
  BY Zenon DEF IInv, Pipeline, Serving, Closing, Queued, CloseQueued, SealFail
<1>3. ClosePipeline'
  BY Zenon DEF IInv, ClosePipeline, Closing, SealFail
<1>4. Left'
  <2>1. /\ Len(fired') \in Nat \ {0}
        /\ fired'[Len(fired')] = "BackendError"
    BY DEF IInv, TypeOK, SealFail
  <2>2. BackendFailed'
    BY <2>1 DEF BackendFailed
  <2>3. status = "Running"
    BY Zenon DEF IInv, TypeOK, CloseInv, SealFail
  <2> QED
    BY <2>2, <2>3, Zenon DEF Left, SealFail
<1>5. ThreadInv'
  BY Zenon DEF IInv, ThreadInv, Serving, Closing, CloseQueued, CallInv, CloseInv,
         SealFail
<1>6. CloseInv'
  BY <1>a, Zenon DEF IInv, CloseInv, ClosePipeline, SealFail
<1>7. HwmInv'
  BY Zenon DEF IInv, HwmInv, SealFail
<1>8. CallInv' /\ DurablePrefix' /\ TerminalEntry'
  BY Frame, Zenon DEF IInv, SealFail
<1> QED
  BY <1>1, <1>2, <1>3, <1>4, <1>5, <1>6, <1>7, <1>8, Zenon DEF IInv

\* Dropping the receiver discards the channel.
LEMMA ExitIInv ==
  ASSUME IInv, Exit
  PROVE  IInv'
<1> USE WriterAssumption DEF Entry, rxAlive, txAlive, Stamp, submitVars, batcherVars,
                             runVars, historyVars
<1>1. TypeOK'
  BY SMTT(30) DEF IInv, TypeOK, Exit
<1>2. CallInv'
  BY DEF IInv, CallInv, CloseQueued, TypeOK, Exit
<1>3. Pipeline'
  BY Zenon DEF IInv, Pipeline, Serving, Closing, Queued, CloseQueued, Exit
<1>4. ClosePipeline'
  BY Zenon DEF IInv, ClosePipeline, Closing, Exit
<1>5. Left'
  BY Zenon DEF IInv, Left, CloseInv, BackendFailed, Exit
<1>6. ThreadInv'
  BY Zenon DEF IInv, ThreadInv, Serving, Closing, CloseQueued, CallInv, CloseInv, Exit
<1>7. CloseInv'
  BY Zenon DEF IInv, CloseInv, Left, ThreadInv, Exit
<1>8. HwmInv'
  BY Zenon DEF IInv, HwmInv, Exit
<1>9. DurablePrefix' /\ TerminalEntry'
  BY Frame, Zenon DEF IInv, Exit
<1> QED
  BY <1>1, <1>2, <1>3, <1>4, <1>5, <1>6, <1>7, <1>8, <1>9, Zenon DEF IInv

\* close() starts with no submit() in progress.
LEMMA CloseStartIInv ==
  ASSUME IInv, CloseStart
  PROVE  IInv'
<1> USE WriterAssumption DEF Entry, rxAlive, txAlive, Stamp, submitVars, batcherVars,
                             runVars, historyVars
<1>1. TypeOK'
  BY SMTT(30) DEF IInv, TypeOK, CloseStart
<1>2. CallInv'
  BY Zenon DEF IInv, CallInv, CloseQueued, CloseStart
<1>3. ClosePipeline'
  BY Zenon DEF IInv, ClosePipeline, Closing, CloseStart
<1>4. Left'
  BY Zenon DEF IInv, Left, CloseInv, BackendFailed, CloseStart
<1>5. TerminalEntry'
  BY Zenon DEF IInv, TerminalEntry, CallInv, CloseStart
<1>6. ThreadInv'
  BY Zenon DEF IInv, ThreadInv, Serving, Closing, CloseQueued, CallInv, CloseInv,
         CloseStart
<1>7. CloseInv'
  BY Zenon DEF IInv, CloseInv, Left, ThreadInv, CloseStart
<1>8. DurablePrefix' /\ Pipeline' /\ HwmInv'
  BY Frame, Zenon DEF IInv, CloseStart
<1> QED
  BY <1>1, <1>2, <1>3, <1>4, <1>5, <1>6, <1>7, <1>8, Zenon DEF IInv

\* Close is the last message of the channel.
LEMMA CloseSendIInv ==
  ASSUME IInv, CloseSend
  PROVE  IInv'
<1> USE WriterAssumption DEF Entry, rxAlive, txAlive, Stamp, submitVars, batcherVars,
                             runVars, historyVars
<1>a. /\ Len(chan') = Len(chan) + 1 /\ Len(chan) \in Nat /\ chan' # << >>
      /\ chan'[Len(chan) + 1] = CloseMessage
      /\ \A i \in 1 .. Len(chan) : chan'[i] = chan[i]
  <2>1. chan \in Seq(Draft \cup {CloseMessage}) /\ chan' = Append(chan, CloseMessage)
    BY Zenon DEF IInv, TypeOK, CloseSend
  <2> QED
    BY <2>1
<1>b. ~CloseQueued /\ CloseQueued'
  <2>1. ~CloseQueued
    BY Zenon DEF IInv, CallInv, CloseSend
  <2> QED
    BY <1>a, <2>1, Zenon DEF CloseQueued
<1>c. UNCHANGED Queued
  BY <1>a, <1>b DEF Queued
<1>d. /\ owner' = "awaiting"
      /\ UNCHANGED <<pc, pending, bpc, after, batch, nextSeq, durable, accepted>>
  BY Zenon DEF CloseSend
<1>e. owner = "closing"
  BY Zenon DEF CloseSend
<1>1. TypeOK'
  BY SMTT(30) DEF IInv, TypeOK, CloseSend
<1>2. CallInv'
  <2>1. ASSUME NEW i \in 1 .. Len(chan'), chan'[i] = CloseMessage
        PROVE  i = Len(chan')
    <3> SUFFICES ASSUME i \in 1 .. Len(chan)
                 PROVE  FALSE
      BY <1>a
    <3>1. chan[i] = CloseMessage
      BY <1>a, <2>1, Zenon
    <3>2. i = Len(chan) /\ chan # << >>
      BY <3>1 DEF IInv, CallInv
    <3> QED
      BY <1>b, <3>1, <3>2, Zenon DEF CloseQueued
  <2>2. \A p \in Submitter : pc[p] = "idle"
    BY <1>e, Zenon DEF IInv, CallInv
  <2> QED
    BY <1>d, <2>1, <2>2, Zenon DEF CallInv
<1>3. Pipeline'
  <2> SUFFICES ASSUME Serving
               PROVE  Pipeline!2'
    BY <1>d, Zenon DEF Pipeline, Serving, Closing
  <2>1. \A i \in 1 .. Queued : chan'[i] = chan[i]
    BY <1>a, <1>b, Zenon DEF Queued
  <2> QED
    BY <1>c, <1>d, <2>1 DEF IInv, Pipeline
<1>4. ClosePipeline'
  <2>1. ~Closing
    BY <1>e, Zenon DEF IInv, ClosePipeline
  <2> QED
    BY <1>d, <2>1, Zenon DEF ClosePipeline, Closing
<1>5. Left'
  BY Zenon DEF IInv, Left, CloseInv, BackendFailed, CloseSend
<1>6. TerminalEntry'
  BY Zenon DEF IInv, TerminalEntry, CallInv, CloseSend
<1>7. ThreadInv'
  BY <1>b, Zenon DEF IInv, ThreadInv, Serving, Closing, CloseSend
<1>8. CloseInv'
  BY Zenon DEF IInv, CloseInv, Left, ThreadInv, CloseSend
<1>9. DurablePrefix' /\ HwmInv'
  BY Frame, Zenon DEF IInv, CloseSend
<1> QED
  BY <1>1, <1>2, <1>3, <1>4, <1>5, <1>6, <1>7, <1>8, <1>9, Zenon DEF IInv

\* close() finds the thread gone.
LEMMA CloseSendFailIInv ==
  ASSUME IInv, CloseSendFail
  PROVE  IInv'
<1> USE WriterAssumption DEF Entry, rxAlive, txAlive, Stamp, submitVars, batcherVars,
                             runVars, historyVars
<1>1. TypeOK'
  BY Zenon DEF IInv, TypeOK, CloseSendFail
<1>2. CallInv'
  BY Zenon DEF IInv, CallInv, CloseQueued, CloseSendFail
<1>3. ClosePipeline'
  BY Zenon DEF IInv, ClosePipeline, Closing, CloseSendFail
<1>4. Left'
  BY Zenon DEF IInv, Left, CloseInv, BackendFailed, CloseSendFail
<1>5. TerminalEntry'
  BY Zenon DEF IInv, TerminalEntry, CallInv, CloseSendFail
<1>6. ThreadInv'
  BY Zenon DEF IInv, ThreadInv, Serving, Closing, CloseQueued, CallInv, CloseInv,
         CloseSendFail
<1>7. CloseInv'
  BY Zenon DEF IInv, CloseInv, Left, ThreadInv, CloseSendFail
<1>8. DurablePrefix' /\ Pipeline' /\ HwmInv'
  BY Frame, Zenon DEF IInv, CloseSendFail
<1> QED
  BY <1>1, <1>2, <1>3, <1>4, <1>5, <1>6, <1>7, <1>8, Zenon DEF IInv

\* close() returns after the thread has exited.
LEMMA CloseReturnIInv ==
  ASSUME IInv, CloseReturn
  PROVE  IInv'
<1> USE WriterAssumption DEF Entry, rxAlive, txAlive, Stamp, submitVars, batcherVars,
                             runVars, historyVars
<1>1. TypeOK'
  BY Zenon DEF IInv, TypeOK, CloseReturn
<1>2. CallInv'
  BY Zenon DEF IInv, TypeOK, CallInv, CloseQueued, ThreadInv, CloseReturn
<1>3. ClosePipeline'
  BY Zenon DEF IInv, ClosePipeline, Closing, CloseReturn
<1>4. Left'
  BY Zenon DEF IInv, Left, CloseInv, BackendFailed, CloseReturn
<1>5. TerminalEntry'
  BY Zenon DEF IInv, TerminalEntry, CallInv, CloseReturn
<1>6. ThreadInv'
  BY Zenon DEF IInv, ThreadInv, Serving, Closing, CloseQueued, CallInv, CloseInv,
         CloseReturn
<1>7. CloseInv'
  BY Zenon DEF IInv, CloseInv, Left, ThreadInv, CloseReturn
<1>8. DurablePrefix' /\ Pipeline' /\ HwmInv'
  BY Frame, Zenon DEF IInv, CloseReturn
<1> QED
  BY <1>1, <1>2, <1>3, <1>4, <1>5, <1>6, <1>7, <1>8, Zenon DEF IInv

\* drop() starts with no submit() in progress.
LEMMA DropStartIInv ==
  ASSUME IInv, DropStart
  PROVE  IInv'
<1> USE WriterAssumption DEF Entry, rxAlive, txAlive, Stamp, submitVars, batcherVars,
                             runVars, historyVars
<1>1. TypeOK'
  BY Zenon DEF IInv, TypeOK, DropStart
<1>2. CallInv'
  BY Zenon DEF IInv, CallInv, CloseQueued, DropStart
<1>3. ClosePipeline'
  BY Zenon DEF IInv, ClosePipeline, Closing, DropStart
<1>4. Left'
  BY Zenon DEF IInv, Left, CloseInv, BackendFailed, DropStart
<1>5. TerminalEntry'
  BY Zenon DEF IInv, TerminalEntry, CallInv, DropStart
<1>6. ThreadInv'
  BY Zenon DEF IInv, ThreadInv, Serving, Closing, CloseQueued, CallInv, CloseInv,
         DropStart
<1>7. CloseInv'
  BY Zenon DEF IInv, CloseInv, Left, ThreadInv, DropStart
<1>8. DurablePrefix' /\ Pipeline' /\ HwmInv'
  BY Frame, Zenon DEF IInv, DropStart
<1> QED
  BY <1>1, <1>2, <1>3, <1>4, <1>5, <1>6, <1>7, <1>8, Zenon DEF IInv

\* drop() returns after the thread has exited.
LEMMA DropReturnIInv ==
  ASSUME IInv, DropReturn
  PROVE  IInv'
<1> USE WriterAssumption DEF Entry, rxAlive, txAlive, Stamp, submitVars, batcherVars,
                             runVars, historyVars
<1>1. TypeOK'
  BY Zenon DEF IInv, TypeOK, DropReturn
<1>2. CallInv'
  BY Zenon DEF IInv, CallInv, CloseQueued, DropReturn
<1>3. ClosePipeline'
  BY Zenon DEF IInv, ClosePipeline, Closing, DropReturn
<1>4. Left'
  BY Zenon DEF IInv, Left, CloseInv, BackendFailed, DropReturn
<1>5. TerminalEntry'
  BY Zenon DEF IInv, TerminalEntry, CallInv, DropReturn
<1>6. ThreadInv'
  BY Zenon DEF IInv, ThreadInv, Serving, Closing, CloseQueued, CallInv, CloseInv,
         DropReturn
<1>7. CloseInv'
  BY Zenon DEF IInv, CloseInv, Left, ThreadInv, DropReturn
<1>8. DurablePrefix' /\ Pipeline' /\ HwmInv'
  BY Frame, Zenon DEF IInv, DropReturn
<1> QED
  BY <1>1, <1>2, <1>3, <1>4, <1>5, <1>6, <1>7, <1>8, Zenon DEF IInv

-----------------------------------------------------------------------------
\* IInv is inductive: one case for each action of Next.
LEMMA NextIInv == IInv /\ [Next]_vars => IInv'
<1> SUFFICES ASSUME IInv, [Next]_vars PROVE IInv'
  BY Zenon
<1>1. CASE \E p \in Submitter : SubmitStep(p)
  BY <1>1, SubmitIInv, TrySendIInv, SendDisconnectedIInv, StallIInv, FireStallHaltIInv, Zenon
     DEF SubmitStep
<1>2. CASE Batcher
  BY Zenon, <1>2, RecvEntryIInv, RecvCloseIInv, RecvTimeoutIInv, RecvDisconnectedIInv,
     FlushCommitIInv, FlushPublishIInv, FlushFailIInv, SealOkIInv, SealFailIInv,
     ExitIInv
     DEF Batcher
<1>3. CASE Owner
  BY Zenon, <1>3, CloseStartIInv, CloseSendIInv, CloseSendFailIInv, CloseReturnIInv,
     DropStartIInv, DropReturnIInv
     DEF Owner
<1>4. CASE UNCHANGED vars
  <2>1. TypeOK'
    BY <1>4 DEF vars, IInv, TypeOK
  <2> QED
    BY <1>4, <2>1, Frame, Zenon DEF vars, IInv
<1> QED
  BY <1>1, <1>2, <1>3, <1>4, Zenon DEF Next, Terminated

\* Every reachable state of the writer satisfies the inductive invariant.
LEMMA WriterIInv == Spec => []IInv
  BY InitIInv, NextIInv, PTL DEF Spec

\* Type correctness of the writer's state, for every capacity and submitter set.
THEOREM WriterTypeOK == Spec => []TypeOK
<1>1. IInv => TypeOK
  BY Zenon DEF IInv
<1> QED
  BY <1>1, WriterIInv, PTL

\* The entry table is always an unbroken prefix of the accepted drafts, however the
\* writer thread groups them into batches and wherever it fails.
THEOREM WriterDurablePrefix == Spec => []DurablePrefix
<1>1. IInv => DurablePrefix
  BY Zenon DEF IInv
<1> QED
  BY <1>1, WriterIInv, PTL

\* A writer thread that is gone without a backend failure has committed every draft
\* submit() returned Ok for.
THEOREM WriterAcceptedNotLost == Spec => []AcceptedNotLost
<1>1. IInv => AcceptedNotLost
  BY DEF IInv, TypeOK, AcceptedNotLost, Left, BackendFailed
<1> QED
  BY <1>1, WriterIInv, PTL

\* A run sealed Ended holds every accepted draft and then RunEnded.
THEOREM WriterSealedComplete == Spec => []SealedComplete
<1>1. IInv => SealedComplete
  BY Zenon DEF IInv, SealedComplete, Left, CloseInv
<1> QED
  BY <1>1, WriterIInv, PTL

\* close() returns Ok exactly for a sealed run whose high-watermark is complete.
THEOREM WriterCloseResultHonest == Spec => []CloseResultHonest
<1>1. IInv => CloseResultHonest
  BY Zenon DEF IInv, TypeOK, CloseResultHonest, Left, CloseInv, HwmInv
<1> QED
  BY <1>1, WriterIInv, PTL
-----------------------------------------------------------------------------
(* How many drafts can still be accepted once the writer has halted.       *)

\* The submitters past the entry check, who may still be accepted.
Sending == {p \in Submitter : pc[p] = "sending"}

\* The one that stalled is no longer sending, nobody joins the others after the
\* halt, and each of them is accepted at most once.
HaltInv ==
    /\ ~halted => late = 0
    /\ halted => late + Cardinality(Sending) < Cardinality(Submitter)

\* The submitters are finitely many, and so are those who are sending.
LEMMA SendingFinite ==
  /\ IsFiniteSet(Sending)
  /\ Cardinality(Sending) \in Nat /\ Cardinality(Submitter) \in Nat
  /\ Cardinality(Sending) <= Cardinality(Submitter)
<1>1. Sending \in SUBSET Submitter
  BY Zenon DEF Sending
<1>2. IsFiniteSet(Sending) /\ Cardinality(Sending) <= Cardinality(Submitter)
  BY <1>1, SubmitterAssumption, FS_Subset, Zenon
<1> QED
  BY <1>2, SubmitterAssumption, FS_CardinalityType, Zenon

\* A submitter that stops sending leaves one less.
LEMMA OneLess ==
  ASSUME TypeOK, NEW p \in Submitter, pc[p] = "sending",
         NEW next \in {"idle", "halting"}, pc' = [pc EXCEPT ![p] = next]
  PROVE  Cardinality(Sending') = Cardinality(Sending) - 1
<1>1. Sending' = Sending \ {p}
  BY Zenon DEF TypeOK, Sending
<1>2. p \in Sending
  BY Zenon DEF Sending
<1> QED
  BY <1>1, <1>2, SendingFinite, FS_RemoveElement, Zenon

\* Steps of the writer thread and of the owner leave the submitters alone.
LEMMA OthersLeaveSubmitters ==
  ASSUME Batcher \/ Owner \/ UNCHANGED vars
  PROVE  UNCHANGED <<pc, halted, late>>
<1>1. CASE Batcher
  BY <1>1, Zenon DEF Batcher, RecvEntry, RecvClose, RecvTimeout, RecvDisconnected, FlushCommit,
              FlushPublish, FlushFail, SealOk, SealFail, Exit, submitVars, historyVars
<1>2. CASE Owner
  BY <1>2, Zenon DEF Owner, CloseStart, CloseSend, CloseSendFail, CloseReturn, DropStart, DropReturn,
              submitVars, historyVars
<1>3. CASE UNCHANGED vars
  BY <1>3, Zenon DEF vars
<1> QED
  BY <1>1, <1>2, <1>3, Zenon

\* No step breaks the bound.
LEMMA NextHaltInv ==
  ASSUME TypeOK, HaltInv, [Next]_vars
  PROVE  HaltInv'
<1>0. late \in Nat /\ halted \in BOOLEAN
  BY Zenon DEF TypeOK
<1>1. ASSUME NEW p \in Submitter, NEW d \in Draft, Submit(p, d) PROVE HaltInv'
  BY <1>1, Zenon DEF Submit, HaltInv, historyVars
<1>2. ASSUME NEW p \in Submitter, TrySend(p) PROVE HaltInv'
  <2>1. Cardinality(Sending') = Cardinality(Sending) - 1
    BY <1>2, OneLess, Zenon DEF TrySend
  <2>2. halted' = halted /\ late' = IF halted THEN late + 1 ELSE late
    BY <1>2, Zenon DEF TrySend
  <2> QED
    BY <1>0, <2>1, <2>2, SendingFinite DEF HaltInv
<1>3. ASSUME NEW p \in Submitter, SendDisconnected(p) PROVE HaltInv'
  <2>1. Cardinality(Sending') = Cardinality(Sending) - 1
    BY <1>3, OneLess, Zenon DEF SendDisconnected
  <2>2. halted' = halted /\ late' = late
    BY <1>3, Zenon DEF SendDisconnected, historyVars
  <2> QED
    BY <1>0, <2>1, <2>2, SendingFinite DEF HaltInv
<1>4. ASSUME NEW p \in Submitter, Stall(p) PROVE HaltInv'
  <2>1. Cardinality(Sending') = Cardinality(Sending) - 1
    BY <1>4, OneLess, Zenon DEF Stall
  <2>2. halted' /\ late' = late
    BY <1>4, Zenon DEF Stall, historyVars
  <2> QED
    BY <1>0, <2>1, <2>2, SendingFinite DEF HaltInv
<1>5. ASSUME NEW p \in Submitter, FireStallHalt(p) PROVE HaltInv'
  <2>1. Sending' = Sending
    BY <1>5, Zenon DEF FireStallHalt, TypeOK, Sending
  <2>2. halted' = halted /\ late' = late
    BY <1>5, Zenon DEF FireStallHalt, historyVars
  <2> QED
    BY <2>1, <2>2, Zenon DEF HaltInv
<1>6. ASSUME Batcher \/ Owner \/ UNCHANGED vars PROVE HaltInv'
  BY <1>6, OthersLeaveSubmitters DEF HaltInv, Sending
<1> QED
  BY <1>1, <1>2, <1>3, <1>4, <1>5, <1>6, Zenon DEF Next, SubmitStep, Terminated

\* A backpressure halt is final for any number of submitters: fewer drafts than
\* there are submitters are accepted after submit() has set the halted flag.
THEOREM WriterHaltIsTerminal == Spec => []HaltIsTerminal
<1>1. Init => HaltInv
  BY Zenon DEF Init, HaltInv
<1>2. TypeOK /\ HaltInv => HaltIsTerminal
  BY SendingFinite DEF TypeOK, HaltInv, HaltIsTerminal
<1> QED
  BY <1>1, <1>2, NextHaltInv, WriterTypeOK, PTL DEF Spec
-----------------------------------------------------------------------------
(* The writer implements DurableLog, and its high-watermark mirror anchors *)
(* rows that never change: step by step consequences of IInv.              *)

\* The log the table stands for.
Rows == [i \in 1 .. Len(durable) |-> durable[i].draft]

\* An entry carries an accepted draft or RunEnded.
LEMMA EntryDraft ==
  ASSUME NEW e \in Entry
  PROVE  e.draft \in Draft \cup {RunEnded}
  BY Zenon DEF Entry

\* The rows are a sequence of entries of the same length as the table.
LEMMA RowsSeq ==
  ASSUME TypeOK
  PROVE  /\ Rows \in Seq(Draft \cup {RunEnded})
         /\ Len(Rows) = Len(durable)
         /\ \A i \in 1 .. Len(durable) : Rows[i] = durable[i].draft
<1>1. durable \in Seq(Entry) /\ Len(durable) \in Nat
  BY DEF TypeOK
<1>2. \A i \in 1 .. Len(durable) : durable[i] \in Entry
  BY <1>1
<1>3. \A i \in 1 .. Len(durable) : durable[i].draft \in Draft \cup {RunEnded}
  BY <1>2, EntryDraft, Zenon
<1> QED
  BY <1>1, <1>3 DEF Rows

\* While every row is an accepted draft, the log has not ended.
LEMMA NotEnded ==
  ASSUME IInv, Len(durable) <= Len(accepted)
  PROVE  ~Log!Ended
<1> SUFFICES ASSUME Rows # << >>, Rows[Len(Rows)] = RunEnded
             PROVE  FALSE
  BY Zenon DEF Log!Ended, Rows
<1>1. Len(durable) \in 1 .. Len(durable) /\ Rows[Len(durable)] = RunEnded
  BY RowsSeq DEF IInv
<1>2. durable[Len(durable)].draft = RunEnded
  BY <1>1, RowsSeq, Zenon DEF IInv
<1>3. accepted[Len(durable)] = RunEnded
  <2>1. Len(durable) \in DOMAIN durable /\ Len(durable) \in Nat /\ Len(accepted) \in Nat
    BY <1>1, Lengths DEF IInv, TypeOK
  <2>2. durable[Len(durable)].draft = accepted[Len(durable)]
    BY <2>1 DEF IInv, DurablePrefix
  <2> QED
    BY <1>2, <2>2, Zenon
<1>4. accepted[Len(durable)] \in Draft
  BY <1>1, Lengths DEF IInv, TypeOK
<1> QED
  BY <1>3, <1>4, WriterAssumption, Zenon DEF WriterAssumption

\* A writer attached to a run starts from a log of its accepted drafts.
LEMMA InitLog == Init => Log!LogInit
<1> SUFFICES ASSUME Init
             PROVE  Log!LogInit
  BY Zenon
<1>1. TypeOK
  BY InitIInv, Zenon DEF IInv
<1>2. Len(durable) = Len(accepted) /\ \A i \in 1 .. Len(durable) : durable[i].draft = accepted[i]
  BY DEF Init
<1>3. Rows = accepted
  <2>1. accepted \in Seq(Draft \cup {RunEnded})
    BY <1>1 DEF TypeOK
  <2>2. Rows \in Seq(Draft \cup {RunEnded}) /\ Len(Rows) = Len(accepted)
    BY <1>1, <1>2, RowsSeq, Zenon
  <2>3. \A i \in 1 .. Len(Rows) : Rows[i] = accepted[i]
    BY <1>1, <1>2, RowsSeq, Zenon
  <2> QED
    BY <2>1, <2>2, <2>3
<1>4. accepted \in Seq(Draft) /\ status = "Running"
  BY <1>1, Zenon DEF TypeOK, Init
<1> QED
  BY <1>3, <1>4, Zenon DEF Log!LogInit, Rows

\* submit() returning Ok is Accept.
LEMMA TrySendLog ==
  ASSUME IInv, NEW p \in Submitter, TrySend(p)
  PROVE  Log!Accept
<1>1. /\ owner = "open"
      /\ pending[p] \in Draft
  BY Zenon DEF IInv, TypeOK, CallInv, TrySend
<1>2. ~Log!Ended
  BY <1>1, NotEnded, Lengths DEF IInv, TerminalEntry
<1>3. accepted' = Append(accepted, pending[p]) /\ UNCHANGED <<durable, status>>
  BY Zenon DEF TrySend, runVars
<1> QED
  BY <1>1, <1>2, <1>3, Zenon DEF Log!Accept

\* append_batch is Commit, or Finish when RunEnded is in the batch.
LEMMA FlushCommitLog ==
  ASSUME IInv, FlushCommit
  PROVE  Log!Commit \/ Log!Finish
<1>1. UNCHANGED <<accepted, status>>
  BY Zenon DEF FlushCommit, historyVars
<1>2. TypeOK'
  BY FlushCommitIInv, Zenon DEF IInv
<1>3. /\ Rows' \in Seq(Draft \cup {RunEnded})
      /\ Len(Rows') = Len(durable')
      /\ \A i \in 1 .. Len(durable') : Rows'[i] = durable'[i].draft
  <2>1. durable' \in Seq(Entry) /\ Len(durable') \in Nat
    BY <1>2 DEF TypeOK
  <2>2. \A i \in 1 .. Len(durable') : durable'[i] \in Entry
    BY <2>1
  <2>3. \A i \in 1 .. Len(durable') : durable'[i].draft \in Draft \cup {RunEnded}
    BY <2>2, EntryDraft, Zenon
  <2> QED
    BY <2>1, <2>3 DEF Rows
<1>4. accepted \in Seq(Draft) /\ accepted \in Seq(Draft \cup {RunEnded})
  BY DEF IInv, TypeOK
<1>5. Len(durable) <= Len(accepted) /\ Len(durable) <= Len(durable')
  <2>1. batch \in Seq(Entry) /\ durable \in Seq(Entry) /\ durable' = durable \o batch
    BY Zenon DEF IInv, TypeOK, FlushCommit
  <2>2. Len(durable) <= Len(durable') /\ Len(durable') \in Nat
    BY <2>1
  <2>3. CASE Serving
    BY <2>2, <2>3, FlushCommitRows, Lengths DEF IInv
  <2>4. CASE Closing
    <3>1. Len(batch) # 0 /\ Len(durable) + Len(batch) = Len(accepted) + 1
      BY <2>1, <2>4 DEF IInv, ClosePipeline, FlushCommit
    <3> QED
      BY <2>2, <3>1, Lengths DEF IInv
  <2> QED
    BY <2>2, <2>3, <2>4, FlushCommitRows, Zenon
<1>6. ~Log!Ended
  BY <1>5, NotEnded, Zenon
<1>7. CASE Serving
  <2> DEFINE n == Len(durable')
  <2>1. n \in Len(durable) .. Len(accepted)
    <3>1. Len(durable') \in Nat
      BY <1>2 DEF TypeOK
    <3>2. n <= Len(accepted)
      BY <1>7, FlushCommitRows, Zenon
    <3> QED
      BY <1>5, <3>1, <3>2, Lengths DEF IInv
  <2>2. /\ SubSeq(accepted, 1, n) \in Seq(Draft \cup {RunEnded})
        /\ Len(SubSeq(accepted, 1, n)) = n
        /\ \A i \in 1 .. n : SubSeq(accepted, 1, n)[i] = accepted[i]
    BY <1>4, <2>1, Lengths DEF IInv
  <2>3. \A i \in 1 .. n : Rows'[i] = accepted[i]
    BY <1>3, <1>7, FlushCommitRows, Zenon
  <2>4. Rows' = SubSeq(accepted, 1, n)
    BY <1>3, <2>2, <2>3
  <2>5. Log!Commit
    BY <1>1, <1>6, <2>1, <2>4, RowsSeq, Zenon DEF Log!Commit, Rows, IInv
  <2> QED
    BY <2>5, Zenon
<1>8. CASE Closing
  <2>1. /\ Append(accepted, RunEnded) \in Seq(Draft \cup {RunEnded})
        /\ Len(Append(accepted, RunEnded)) = Len(accepted) + 1
        /\ Append(accepted, RunEnded)[Len(accepted) + 1] = RunEnded
        /\ \A i \in 1 .. Len(accepted) : Append(accepted, RunEnded)[i] = accepted[i]
    BY <1>4
  <2>2. \A i \in 1 .. Len(durable') : Rows'[i] = Append(accepted, RunEnded)[i]
    <3>a. Len(durable') = Len(accepted) + 1 /\ Len(accepted) \in Nat
      BY <1>8, FlushCommitRows, Lengths, Zenon DEF IInv
    <3> SUFFICES ASSUME NEW i \in 1 .. Len(durable')
                 PROVE  Rows'[i] = Append(accepted, RunEnded)[i]
      BY Zenon
    <3>1. CASE i \in 1 .. Len(accepted)
      BY <1>3, <1>8, <2>1, <3>1, FlushCommitRows, Zenon
    <3>2. CASE i = Len(accepted) + 1
      BY <1>3, <1>8, <2>1, <3>2, FlushCommitRows, Zenon
    <3> QED
      BY <3>a, <3>1, <3>2
  <2>3. Len(Rows') = Len(Append(accepted, RunEnded))
    BY <1>3, <1>8, <2>1, FlushCommitRows, Zenon
  <2>4. Rows' = Append(accepted, RunEnded)
    BY <1>3, <2>1, <2>2, <2>3
  <2> QED
    BY <1>1, <1>6, <2>4, Zenon DEF Log!Finish, Rows
<1> QED
  BY <1>7, <1>8, FlushCommitRows, Zenon

\* Sealing the manifest is Seal.
LEMMA SealOkLog ==
  ASSUME IInv, SealOk
  PROVE  Log!Seal
<1>1. Closing /\ bpc = "seal"
  BY Zenon DEF IInv, ThreadInv, Closing, SealOk
<1>2. /\ Len(durable) = Len(accepted) + 1
      /\ durable[Len(durable)].draft = RunEnded
  BY <1>1, Lengths DEF IInv, ClosePipeline
<1>3. Rows # << >> /\ Rows[Len(Rows)] = RunEnded
  BY <1>2, RowsSeq, Lengths DEF IInv
<1>4. status = "Running"
  BY <1>1, Zenon DEF IInv, TypeOK, CloseInv
<1>5. status' = "Ended" /\ UNCHANGED <<accepted, durable>>
  BY Zenon DEF SealOk, historyVars
<1> QED
  BY <1>3, <1>4, <1>5, Zenon DEF Log!Seal, Log!Ended, Rows

\* Every other step leaves the abstract state alone.
LEMMA NextLog == IInv /\ [Next]_vars => [Log!LogNext]_(Log!logVars)
<1> SUFFICES ASSUME IInv, [Next]_vars
             PROVE  Log!LogNext \/ UNCHANGED <<accepted, durable, status>>
  BY Zenon DEF Log!logVars
<1> USE DEF submitVars, batcherVars, runVars, historyVars
<1>1. ASSUME NEW p \in Submitter, SubmitStep(p)
      PROVE  Log!LogNext \/ UNCHANGED <<accepted, durable, status>>
  <2>1. CASE TrySend(p)
    BY <2>1, TrySendLog, Zenon DEF Log!LogNext
  <2>2. CASE ~TrySend(p)
    BY <1>1, <2>2, Zenon DEF SubmitStep, Submit, SendDisconnected, Stall, FireStallHalt
  <2> QED
    BY <2>1, <2>2, Zenon
<1>2. CASE Batcher
  <2>1. CASE FlushCommit
    BY <2>1, FlushCommitLog, Zenon DEF Log!LogNext
  <2>2. CASE SealOk
    BY <2>2, SealOkLog, Zenon DEF Log!LogNext
  <2>3. CASE ~FlushCommit /\ ~SealOk
    BY <1>2, <2>3, Zenon DEF Batcher, RecvEntry, RecvClose, RecvTimeout, RecvDisconnected,
                      FlushPublish, FlushFail, SealFail, Exit
  <2> QED
    BY <2>1, <2>2, <2>3, Zenon
<1>3. CASE Owner
  BY <1>3, Zenon DEF Owner, CloseStart, CloseSend, CloseSendFail, CloseReturn, DropStart,
              DropReturn
<1>4. CASE UNCHANGED vars
  BY <1>4, Zenon DEF vars
<1> QED
  BY <1>1, <1>2, <1>3, <1>4, Zenon DEF Next, Terminated

\* The writer implements the durable log, for any number of submitters, any
\* capacities and any pattern of stalls and backend failures.
THEOREM WriterImplementsDurableLog == Spec => ImplementsDurableLog
  BY InitLog, NextLog, WriterIInv, PTL DEF Spec, ImplementsDurableLog, Log!LogSpec

\* Only a commit changes the table, and it only adds rows after the ones that are
\* there; only the publishing store changes the mirror, to the table's length.
LEMMA NextHwm ==
  ASSUME IInv, [Next]_vars
  PROVE  /\ hwm <= hwm'
         /\ hwm' <= Len(durable')
         /\ SubSeq(durable', 1, hwm) = SubSeq(durable, 1, hwm)
<1> USE DEF submitVars, batcherVars, runVars, historyVars
<1>1. hwm \in Nat /\ hwm <= Len(durable) /\ durable \in Seq(Entry) /\ batch \in Seq(Entry)
  BY Zenon DEF IInv, TypeOK, HwmInv
<1>2. CASE FlushCommit
  <2>1. durable' = durable \o batch /\ hwm' = hwm
    BY <1>2, Zenon DEF FlushCommit
  <2>2. Len(durable') = Len(durable) + Len(batch) /\ Len(batch) \in Nat /\ Len(durable) \in Nat
    BY <1>1, <2>1
  <2>3. SubSeq(durable', 1, hwm) = SubSeq(durable, 1, hwm)
    <3>1. CASE hwm = 0
      BY <3>1
    <3>2. CASE hwm \in 1 .. Len(durable)
      <4>1. 1 \in 1 .. Len(durable)
        BY <2>2, <3>2
      <4> QED
        BY <1>1, <2>1, <3>2, <4>1
    <3> QED
      BY <1>1, <2>2, <3>1, <3>2
  <2> QED
    BY <1>1, <2>1, <2>2, <2>3
<1>3. CASE FlushPublish
  <2>1. hwm' = Len(durable) /\ durable' = durable
    BY <1>3, Zenon DEF FlushPublish
  <2> QED
    BY <1>1, <2>1
<1>4. CASE ~FlushCommit /\ ~FlushPublish
  <2>1. UNCHANGED <<durable, hwm>>
    <3>1. ASSUME NEW p \in Submitter, SubmitStep(p)
          PROVE  UNCHANGED <<durable, hwm>>
      BY <3>1, Zenon DEF SubmitStep, Submit, TrySend, SendDisconnected, Stall, FireStallHalt
    <3>2. CASE Batcher
      BY <1>4, <3>2, Zenon DEF Batcher, RecvEntry, RecvClose, RecvTimeout, RecvDisconnected,
                        FlushFail, SealOk, SealFail, Exit
    <3>3. CASE Owner
      BY <3>3, Zenon DEF Owner, CloseStart, CloseSend, CloseSendFail, CloseReturn, DropStart,
                  DropReturn
    <3>4. CASE UNCHANGED vars
      BY <3>4, Zenon DEF vars
    <3> QED
      BY <3>1, <3>2, <3>3, <3>4, Zenon DEF Next, Terminated
  <2> QED
    BY <1>1, <2>1
<1> QED
  BY <1>2, <1>3, <1>4, Zenon

\* The high-watermark mirror is safe to anchor a snapshot against, for every
\* instance: it is monotonic, never ahead of the table, and what it covers is final.
THEOREM WriterHwmAnchorsDurableRows == Spec => HwmAnchorsDurableRows
<1>1. IInv /\ [Next]_vars => [ /\ hwm <= hwm'
                               /\ hwm' <= Len(durable')
                               /\ SubSeq(durable', 1, hwm) = SubSeq(durable, 1, hwm) ]_vars
  BY NextHwm, Zenon
<1> QED
  BY <1>1, WriterIInv, PTL DEF Spec, HwmAnchorsDurableRows
=============================================================================
