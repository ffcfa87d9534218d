-------------------------- MODULE EventStoreSession --------------------------
(***************************************************************************)
(* One event store session of the kernel (crates/system/src/event_store.rs *)
(* and crates/event_store/src/capture/adapter.rs), composed with the       *)
(* writer it owns.                                                         *)
(*                                                                         *)
(* The engine thread opens the run and waits for RunStarted to be durable, *)
(* installs the bus tap, dispatches messages, and finally seals.  Every    *)
(* dispatch calls the tap before its handlers, and a handler may dispatch  *)
(* again.  Two threads, engine and writer, can call the one HaltSignal     *)
(* callback, which swaps a flag and then stores the reason under a lock.   *)
(***************************************************************************)
EXTENDS EventStoreWriter, Functions

CONSTANTS
    Engine,      \* the engine thread, the writer's only submitter
    RunStarted,  \* the first draft of every run
    Message,     \* messages dispatched on the bus
    Encodable,   \* messages whose type is registered and whose encoder succeeds
    NoMessage,   \* the cause of a message no handler dispatched
    MaxDepth     \* bound: nesting of dispatches

ASSUME SessionAssumption ==
    /\ Submitter = {Engine}
    /\ RunStarted \notin Message
    /\ NoMessage \notin Message
    /\ RunEnded \notin Message
    /\ Encodable \subseteq Message
    /\ Draft = Encodable \cup {RunStarted}
    /\ InitialEntries = 0
    /\ Cardinality(Encodable) < MaxSubmits
    /\ MaxDepth \in Nat

VARIABLES
    phase,          \* where open() or seal() has brought the session
    stack,          \* dispatches in progress, innermost last
    cause,          \* the message whose handler dispatched each message
    delivered,      \* messages whose handlers have begun, in order
    adapterHalted,  \* BusCaptureAdapter::halted
    flag,           \* HaltSignal::halted
    reason,         \* HaltSignal::reason
    claim,          \* the callback that won the swap and has not stored its reason
    signals,        \* history: reasons the callback was invoked with, in order
    seen            \* history: encodable messages in the order their dispatch began

signalVars  == <<flag, reason, claim, signals>>
busVars     == <<stack, cause, delivered, adapterHalted, seen>>
sessionVars == <<phase, stack, cause, delivered, adapterHalted, flag, reason, claim,
                 signals, seen>>
allVars     == <<vars, sessionVars>>

Reason  == {"BackpressureStall", "BackendError"}
NoClaim == [thread |-> "none", reason |-> "none"]
Step    == {"tap", "submit", "stalled", "closed", "fanout", "handlers"}
Frames  == [msg : Message, todo : Seq(Step)]

dispatched == {m \in Message : m \in Range(delivered) \/ \E i \in DOMAIN stack : stack[i].msg = m}

SessionTypeOK ==
    /\ TypeOK
    /\ phase \in {"submitting", "waiting", "running", "failed", "sealing"}
    /\ stack \in Seq(Frames)
    /\ Len(stack) <= MaxDepth
    /\ cause \in [Message -> Message \cup {NoMessage}]
    /\ delivered \in Seq(Message)
    /\ adapterHalted \in BOOLEAN
    /\ flag \in BOOLEAN
    /\ reason \in Reason \cup {"none"}
    /\ claim \in [thread : {"none", "engine", "writer"}, reason : Reason \cup {"none"}]
    /\ signals \in Seq(Reason)
    /\ seen \in Seq(Encodable)

SessionInit ==
    /\ Init
    /\ phase = "submitting"
    /\ stack = << >>
    /\ cause = [m \in Message |-> NoMessage]
    /\ delivered = << >>
    /\ adapterHalted = FALSE
    /\ flag = FALSE
    /\ reason = "none"
    /\ claim = NoClaim
    /\ signals = << >>
    /\ seen = << >>

-----------------------------------------------------------------------------
(* HaltSignal                                                              *)

\* Mutant: the callback stores its reason without winning the swap.
Callback_LastWins(t, r) ==
    /\ signals' = Append(signals, r)
    /\ flag' = TRUE
    /\ claim' = [thread |-> t, reason |-> r]
    /\ UNCHANGED reason

\* The callback: the first caller swaps the flag and owes the reason; for every
\* later caller the swap fails and nothing happens.
Callback(t, r) ==
    /\ signals' = Append(signals, r)
    /\ flag' = TRUE
    /\ claim' = IF flag THEN claim ELSE [thread |-> t, reason |-> r]
    /\ UNCHANGED reason

\* The winner stores its reason; until then it is still inside the callback.
StoreReason ==
    /\ claim # NoClaim
    /\ reason' = claim.reason
    /\ claim' = NoClaim
    /\ UNCHANGED <<vars, phase, busVars, flag, signals>>

\* A thread acts only when it is not inside the callback.
Free(t) == claim.thread # t

-----------------------------------------------------------------------------
(* Dispatch: publish_typed, publish_any, send_any and the send_endpoint    *)
(* family all call the tap first and then the handlers they looked up.     *)

\* Mutant: the tap fires after the fanout.
Todo_TapAfterFanout == <<"fanout", "tap">>

Todo == <<"tap", "fanout">>

Top == stack[Len(stack)]
InStep(s) == stack # << >> /\ Top.todo # << >> /\ Head(Top.todo) = s
Continue(todo) == stack' = [stack EXCEPT ![Len(stack)] = [msg |-> Top.msg, todo |-> todo]]
ReplaceStep(s) == Continue(<<s>> \o Tail(Top.todo))
StepDone == Continue(Tail(Top.todo))

\* A dispatch begins: at the top of the engine loop, or inside a handler.
Dispatch(m) ==
    /\ phase = "running"
    /\ stack = << >> \/ InStep("handlers")
    /\ Len(stack) < MaxDepth
    /\ m \notin dispatched
    /\ stack' = Append(stack, [msg |-> m, todo |-> Todo])
    /\ cause' = [cause EXCEPT ![m] = IF stack = << >> THEN NoMessage ELSE Top.msg]
    /\ seen' = IF m \in Encodable THEN Append(seen, m) ELSE seen
    /\ UNCHANGED <<vars, phase, delivered, adapterHalted, signalVars>>

\* The handlers begin to run.
Fanout ==
    /\ InStep("fanout")
    /\ Free("engine")
    /\ delivered' = Append(delivered, Top.msg)
    /\ ReplaceStep("handlers")
    /\ UNCHANGED <<vars, phase, cause, adapterHalted, seen, signalVars>>

HandlersDone ==
    /\ InStep("handlers")
    /\ StepDone
    /\ UNCHANGED <<vars, phase, cause, delivered, adapterHalted, seen, signalVars>>

Return ==
    /\ stack # << >>
    /\ Top.todo = << >>
    /\ Free("engine")
    /\ stack' = SubSeq(stack, 1, Len(stack) - 1)
    /\ UNCHANGED <<vars, phase, cause, delivered, adapterHalted, seen, signalVars>>

-----------------------------------------------------------------------------
(* The tap: capture_any, and fail_stop on any submit error.  The tap only  *)
(* logs what capture_any returns, so the fanout follows in every case.     *)

\* A halted adapter returns Halted; an unregistered type returns Ok(false); an
\* encoder's rejection returns Encode.  None of them reaches the writer.
TapSkips ==
    /\ InStep("tap")
    /\ adapterHalted \/ Top.msg \notin Encodable
    /\ StepDone
    /\ UNCHANGED <<vars, phase, cause, delivered, adapterHalted, seen, signalVars>>

\* The draft goes to submit(), which refuses it at once when the writer is halted.
TapSubmits ==
    /\ InStep("tap")
    /\ ~adapterHalted
    /\ Top.msg \in Encodable
    /\ IF halted
       THEN ReplaceStep("stalled") /\ UNCHANGED vars
       ELSE ReplaceStep("submit") /\ Submit(Engine, Top.msg)
    /\ UNCHANGED <<phase, cause, delivered, adapterHalted, seen, signalVars>>

\* submit() returns Ok, inside the tap or inside submit_run_started_blocking.
SubmitOk ==
    /\ TrySend(Engine)
    /\ IF phase = "submitting"
       THEN phase' = "waiting" /\ UNCHANGED stack
       ELSE StepDone /\ UNCHANGED phase
    /\ UNCHANGED <<cause, delivered, adapterHalted, seen, signalVars>>

\* submit() returns Closed: the tap goes on to fail_stop, open_run fails.
SubmitClosed ==
    /\ SendDisconnected(Engine)
    /\ IF phase = "submitting"
       THEN phase' = "failed" /\ UNCHANGED stack
       ELSE ReplaceStep("closed") /\ UNCHANGED phase
    /\ UNCHANGED <<cause, delivered, adapterHalted, seen, signalVars>>

SubmitStalls ==
    /\ Stall(Engine)
    /\ UNCHANGED sessionVars

\* submit() fires the writer's callback and returns HaltSignaled.
SubmitHalted ==
    /\ FireStallHalt(Engine)
    /\ Callback("engine", "BackpressureStall")
    /\ IF phase = "submitting"
       THEN phase' = "failed" /\ UNCHANGED stack
       ELSE ReplaceStep("stalled") /\ UNCHANGED phase
    /\ UNCHANGED <<cause, delivered, adapterHalted, seen>>

\* halt_reason_from_submit.
HaltReasonFromSubmit(err) == IF err = "stalled" THEN "BackpressureStall" ELSE "BackendError"

\* Mutant: the adapter waits for the writer thread before it signals.
FailStop_Joins ==
    /\ InStep("stalled") \/ InStep("closed")
    /\ Free("engine")
    /\ bpc = "exited"
    /\ adapterHalted' = TRUE
    /\ Callback("engine", "BackendError")
    /\ StepDone
    /\ UNCHANGED <<vars, phase, cause, delivered, seen>>

\* fail_stop: the adapter halts for good and invokes the kernel's callback.
FailStop ==
    /\ InStep("stalled") \/ InStep("closed")
    /\ Free("engine")
    /\ adapterHalted' = TRUE
    /\ IF adapterHalted
       THEN UNCHANGED signalVars
       ELSE Callback("engine", HaltReasonFromSubmit(Head(Top.todo)))
    /\ StepDone
    /\ UNCHANGED <<vars, phase, cause, delivered, seen>>

-----------------------------------------------------------------------------
(* open() and seal()                                                       *)

SubmitRunStarted ==
    /\ phase = "submitting"
    /\ accepted = << >>
    /\ Submit(Engine, RunStarted)
    /\ UNCHANGED sessionVars

\* The mirror moved off 0: RunStarted is durable and the tap is installed.
InstallTap ==
    /\ phase = "waiting"
    /\ hwm # 0
    /\ phase' = "running"
    /\ UNCHANGED <<vars, busVars, signalVars>>

\* The wait ends without a commit: the signal is halted or the timeout passed.  The
\* mirror was 0 when it was last read, which may be before the commit.
GiveUp ==
    /\ phase = "waiting"
    /\ phase' = "failed"
    /\ UNCHANGED <<vars, busVars, signalVars>>

\* open_run returned an error: its writer is dropped and the run stays unsealed.
DropFailedRun ==
    /\ phase = "failed"
    /\ Free("engine")
    /\ DropStart
    /\ UNCHANGED sessionVars

\* Mutant: seal() closes the writer of a halted session too.
Seal_Always ==
    /\ phase = "running"
    /\ stack = << >>
    /\ phase' = "sealing"
    /\ CloseStart
    /\ UNCHANGED <<busVars, signalVars>>

\* seal() clears the tap; a halted session is dropped and left to recovery.
Seal ==
    /\ phase = "running"
    /\ stack = << >>
    /\ phase' = "sealing"
    /\ IF flag THEN DropStart ELSE CloseStart
    /\ UNCHANGED <<busVars, signalVars>>

OwnerWaits ==
    /\ CloseSend \/ CloseSendFail \/ CloseReturn \/ DropReturn
    /\ UNCHANGED sessionVars

-----------------------------------------------------------------------------
(* The writer thread, its failures wired to the callback.                  *)

WriterServes ==
    /\ Free("writer")
    /\ \/ RecvEntry \/ RecvClose \/ RecvTimeout \/ RecvDisconnected
       \/ FlushCommit \/ FlushPublish \/ SealOk \/ Exit
    /\ UNCHANGED sessionVars

WriterFails ==
    /\ FlushFail \/ SealFail
    /\ Callback("writer", "BackendError")
    /\ UNCHANGED <<phase, busVars>>

SessionOver ==
    /\ owner \in {"closed", "failed", "dropped"}
    /\ bpc = "exited"
    /\ claim = NoClaim
    /\ UNCHANGED allVars

Opening == SubmitRunStarted \/ InstallTap \/ GiveUp \/ DropFailedRun

Submitting == SubmitOk \/ SubmitClosed \/ SubmitStalls \/ SubmitHalted

Tapping == TapSkips \/ TapSubmits \/ FailStop

SessionNext ==
    \/ Opening
    \/ Submitting
    \/ Tapping
    \/ \E m \in Message : Dispatch(m)
    \/ Fanout
    \/ HandlersDone
    \/ Return
    \/ Seal
    \/ OwnerWaits
    \/ WriterServes
    \/ WriterFails
    \/ StoreReason
    \/ SessionOver

\* Both threads run; handlers return; nobody is obliged to dispatch or to seal.
SessionFairness ==
    /\ WF_allVars(Opening)
    /\ WF_allVars(Submitting)
    /\ WF_allVars(Tapping)
    /\ WF_allVars(Fanout \/ HandlersDone \/ Return)
    /\ WF_allVars(OwnerWaits)
    /\ WF_allVars(WriterServes \/ WriterFails)
    /\ WF_allVars(StoreReason)

SessionSpec == SessionInit /\ [][SessionNext]_allVars /\ SessionFairness

-----------------------------------------------------------------------------
(* Properties                                                              *)

\* The log has no hole: after RunStarted, what the writer accepted is a prefix of
\* the dispatched encodable messages, in dispatch order.  Once one message escapes
\* capture no later one is captured either.
CapturedPrefix ==
    accepted # << >> =>
        /\ Head(accepted) = RunStarted
        /\ \E n \in 0 .. Len(seen) : Tail(accepted) = SubSeq(seen, 1, n)

\* Fail-stop coupling: when the first handler sees an encodable message, either the
\* writer has accepted it or the kernel's halt flag is already up.
UnauditedOnlyAfterHalt ==
    \A m \in Range(delivered) \cap Encodable : m \in Range(accepted) \/ flag

\* Causal order in every crash image: a durable message dispatched by a handler is
\* preceded by the message that handler was handling.
CauseBeforeEffect ==
    \A i \in DOMAIN durable :
        LET m == durable[i].draft
        IN  m \in Message /\ cause[m] \in Encodable
                => \E j \in 1 .. i - 1 : durable[j].draft = cause[m]

\* A run sealed Ended holds every encodable message its handlers saw: a session that
\* halted, and so may have let messages through, is never sealed as complete.
SealedRunIsComplete ==
    status = "Ended" =>
        \A m \in Range(delivered) \cap Encodable : \E i \in DOMAIN durable : durable[i].draft = m

\* The README's durable-before-dispatch guarantee, taken literally.
DurableBeforeConsumers ==
    \A m \in Range(delivered) \cap Encodable : \E i \in DOMAIN durable : durable[i].draft = m

\* check_halt reads the reason alone: a halted signal comes to have one, and it is
\* for ever the reason of the first callback invocation, whichever thread made it.
HaltGetsReason == flag ~> [](signals # << >> /\ reason = signals[1])

\* open() returns: RunStarted becomes durable, or the wait fails.  So do seal() and the
\* drop of a run that failed to open.
OpenAndSealReturn ==
    /\ phase \in {"submitting", "waiting"} ~> phase \notin {"submitting", "waiting"}
    /\ phase \in {"sealing", "failed"} ~> owner \in {"closed", "failed", "dropped"}

\* Capture never keeps a dispatch from its handlers, whatever the writer does.
DispatchReachesHandlers ==
    \A m \in Message : m \in dispatched ~> m \in Range(delivered)
=============================================================================
