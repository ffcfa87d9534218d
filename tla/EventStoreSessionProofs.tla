------------------------ MODULE EventStoreSessionProofs ------------------------
(***************************************************************************)
(* Proofs about the event store session, for any set of messages, any      *)
(* depth of nested dispatches and any capacities of the writer.  A step of *)
(* the session is a step of its writer or leaves the writer alone, so the  *)
(* writer's inductive invariant is the session's too.  SInv adds what the  *)
(* engine thread knows while it is inside the tap: whether the message at  *)
(* hand is the only one that the writer has not accepted.                  *)
(***************************************************************************)
EXTENDS EventStoreSession, EventStoreWriterProofs

\* What can be left to do in a dispatch, and what is left once its tap returned.
Tapped == {<<"fanout">>, <<"handlers">>, << >>}
Plans  == {<<"tap", "fanout">>, <<"submit", "fanout">>, <<"stalled", "fanout">>,
           <<"closed", "fanout">>} \cup Tapped

\* The engine thread is between the start of a dispatch and the end of its tap,
\* with a message that ought to be captured.
InTap == stack # << >> /\ Top.msg \in Encodable /\ Top.todo \notin Tapped

\* Only the innermost dispatch is not waiting for its handlers, and what it is nested
\* in is its cause.
StackInv ==
    /\ \A i \in 1 .. Len(stack) :
          /\ stack[i].todo \in Plans
          /\ i < Len(stack) => stack[i].todo = <<"handlers">>
          /\ stack[i].todo \in {<<"handlers">>, << >>} => stack[i].msg \in Range(delivered)
          /\ cause[stack[i].msg] = IF i = 1 THEN NoMessage ELSE stack[i - 1].msg
    /\ \A i \in 1 .. Len(seen) :
          \/ seen[i] \in Range(delivered)
          \/ \E j \in 1 .. Len(stack) : stack[j].msg = seen[i]

\* Why the engine thread can be inside submit().
CallerInv ==
    /\ pc[Engine] # "idle" =>
          \/ phase = "submitting" /\ pending[Engine] = RunStarted
          \/ /\ phase = "running"
             /\ stack # << >>
             /\ Top.todo = <<"submit", "fanout">>
             /\ pending[Engine] = Top.msg
    /\ stack # << >> /\ Top.todo = <<"submit", "fanout">> =>
          ~adapterHalted /\ Top.msg \in Encodable

\* What open() and seal() have established.
PhaseInv ==
    /\ phase # "running" => stack = << >>
    /\ phase = "submitting" => accepted = << >>
    /\ phase \in {"waiting", "running", "sealing"} => accepted # << >>
    /\ phase \in {"submitting", "waiting", "running"} => owner = "open"
    /\ adapterHalted => flag
    /\ owner \in {"closing", "awaiting", "closed", "failed"} => ~adapterHalted

\* Until the adapter halts, everything seen is accepted except the message whose
\* tap has not returned.
CaptureInv ==
    /\ accepted = << >> => seen = << >>
    /\ accepted # << >> =>
          /\ accepted[1] = RunStarted
          /\ Len(accepted) - 1 <= Len(seen)
          /\ \A i \in 1 .. Len(accepted) - 1 : accepted[i + 1] = seen[i]
          /\ ~adapterHalted =>
                Len(accepted) - 1 = IF InTap THEN Len(seen) - 1 ELSE Len(seen)
    /\ InTap => seen # << >> /\ seen[Len(seen)] = Top.msg

\* A message that is past its tap was accepted, unless the adapter has halted.
AuditInv ==
    /\ \A i \in 1 .. Len(stack) :
          stack[i].todo \in Tapped /\ stack[i].msg \in Encodable
              => stack[i].msg \in Range(accepted) \/ adapterHalted
    /\ \A m \in Range(delivered) \cap Encodable : m \in Range(accepted) \/ adapterHalted

\* The cause of an accepted message was accepted first.
CauseInv ==
    \A i \in 2 .. Len(accepted) :
        cause[accepted[i]] \in Encodable
            => \E j \in 1 .. i - 1 : accepted[j] = cause[accepted[i]]

\* The signal is up once the callback has run, and its reason is the first one.
ReasonInv ==
    /\ flag <=> signals # << >>
    /\ reason # "none" => flag /\ reason = signals[1]
    /\ claim # NoClaim => flag /\ claim.reason = signals[1]

SInv ==
    /\ IInv
    /\ SessionTypeOK
    /\ StackInv
    /\ CallerInv
    /\ PhaseInv
    /\ CaptureInv
    /\ AuditInv
    /\ CauseInv
    /\ ReasonInv
-----------------------------------------------------------------------------
\* A step of the session is a step of its writer, or none.
LEMMA SessionStepIsWriterStep == SessionNext => [Next]_vars
<1> SUFFICES ASSUME SessionNext PROVE [Next]_vars
  BY Zenon
<1> USE SessionAssumption
<1>1. Engine \in Submitter /\ Encodable \subseteq Draft /\ RunStarted \in Draft
  BY Zenon DEF SessionAssumption
<1>2. CASE Opening
  BY <1>1, <1>2, Zenon DEF Opening, SubmitRunStarted, InstallTap, GiveUp, DropFailedRun, Next,
                    SubmitStep, Owner
<1>3. CASE Submitting
  BY <1>1, <1>3, Zenon DEF Submitting, SubmitOk, SubmitClosed, SubmitStalls, SubmitHalted, Next,
                    SubmitStep
<1>4. CASE Tapping
  BY <1>1, <1>4, Zenon DEF Tapping, TapSkips, TapSubmits, FailStop, Next, SubmitStep
<1>5. CASE (\E m \in Message : Dispatch(m)) \/ Fanout \/ HandlersDone \/ Return \/ StoreReason
           \/ SessionOver
  BY <1>5, Zenon DEF Dispatch, Fanout, HandlersDone, Return, StoreReason, SessionOver, allVars
<1>6. CASE Seal \/ OwnerWaits
  BY <1>6, Zenon DEF Seal, OwnerWaits, Next, Owner
<1>7. CASE WriterServes \/ WriterFails
  BY <1>7, Zenon DEF WriterServes, WriterFails, Next, Batcher
<1> QED
  BY <1>2, <1>3, <1>4, <1>5, <1>6, <1>7, Zenon DEF SessionNext

\* What is appended joins the range.
LEMMA RangeAppend ==
  ASSUME NEW S, NEW s \in Seq(S), NEW e \in S
  PROVE  Range(Append(s, e)) = Range(s) \cup {e}
<1>1. /\ DOMAIN Append(s, e) = 1 .. Len(s) + 1
      /\ \A i \in 1 .. Len(s) : Append(s, e)[i] = s[i]
      /\ Append(s, e)[Len(s) + 1] = e
      /\ DOMAIN s = 1 .. Len(s)
      /\ Len(s) \in Nat
  OBVIOUS
<1>2. ASSUME NEW x \in Range(s) PROVE x \in Range(Append(s, e))
  BY ONLY <1>1, <1>2 DEF Range
<1>3. e \in Range(Append(s, e))
  <2>1. Len(s) + 1 \in DOMAIN Append(s, e)
    BY ONLY <1>1
  <2> QED
    BY <1>1, <2>1, Zenon DEF Range
<1>4. ASSUME NEW x \in Range(Append(s, e)) PROVE x \in Range(s) \cup {e}
  <2>1. PICK i \in 1 .. Len(s) + 1 : x = Append(s, e)[i]
    BY <1>1, <1>4, Zenon DEF Range
  <2>2. i \in 1 .. Len(s) \/ i = Len(s) + 1
    BY ONLY <1>1
  <2> QED
    BY <1>1, <2>1, <2>2, Zenon DEF Range
<1> QED
  BY <1>2, <1>3, <1>4, Zenon

\* The members of a sequence, by their places.
LEMMA RangeIndex ==
  ASSUME NEW S, NEW s \in Seq(S), NEW x
  PROVE  x \in Range(s) <=> \E i \in 1 .. Len(s) : s[i] = x
<1>1. DOMAIN s = 1 .. Len(s)
  OBVIOUS
<1> QED
  BY <1>1, Zenon DEF Range

\* The step an innermost dispatch is in determines all that it has left to do.
LEMMA PlanOfStep ==
  ASSUME SInv, NEW s \in Step, InStep(s)
  PROVE  /\ stack # << >>
         /\ Len(stack) \in 1 .. Len(stack)
         /\ s \in {"fanout", "handlers"} => Top.todo = <<s>> /\ Tail(Top.todo) = << >>
         /\ s \notin {"fanout", "handlers"} => Top.todo = <<s, "fanout">>
                                               /\ Tail(Top.todo) = <<"fanout">>
<1>1. stack \in Seq(Frames) /\ stack # << >>
  BY Zenon DEF SInv, SessionTypeOK, InStep
<1>2. Len(stack) \in 1 .. Len(stack)
  BY ONLY <1>1
<1>3. Top.todo \in Plans /\ Top.todo # << >> /\ Head(Top.todo) = s
  BY <1>2, Zenon DEF SInv, StackInv, Top, InStep
<1>4. \/ Top.todo = <<"tap", "fanout">>
      \/ Top.todo = <<"submit", "fanout">>
      \/ Top.todo = <<"stalled", "fanout">>
      \/ Top.todo = <<"closed", "fanout">>
      \/ Top.todo = <<"fanout">>
      \/ Top.todo = <<"handlers">>
  BY <1>3, Zenon DEF Plans, Tapped
<1>5. /\ Head(<<"tap", "fanout">>) = "tap" /\ Tail(<<"tap", "fanout">>) = <<"fanout">>
      /\ Head(<<"submit", "fanout">>) = "submit" /\ Tail(<<"submit", "fanout">>) = <<"fanout">>
      /\ Head(<<"stalled", "fanout">>) = "stalled" /\ Tail(<<"stalled", "fanout">>) = <<"fanout">>
      /\ Head(<<"closed", "fanout">>) = "closed" /\ Tail(<<"closed", "fanout">>) = <<"fanout">>
      /\ Head(<<"fanout">>) = "fanout" /\ Tail(<<"fanout">>) = << >>
      /\ Head(<<"handlers">>) = "handlers" /\ Tail(<<"handlers">>) = << >>
  OBVIOUS
<1>6. s = "tap" \/ s = "submit" \/ s = "stalled" \/ s = "closed" \/ s = "fanout" \/ s = "handlers"
  BY Zenon DEF Step
<1> QED
  BY <1>1, <1>2, <1>3, <1>4, <1>5, <1>6, Zenon

\* A new last element leaves the rest of a sequence alone.
LEMMA ReplaceLast ==
  ASSUME NEW S, NEW s \in Seq(S), s # << >>, NEW e \in S
  PROVE  /\ [s EXCEPT ![Len(s)] = e] \in Seq(S)
         /\ [s EXCEPT ![Len(s)] = e] # << >>
         /\ Len([s EXCEPT ![Len(s)] = e]) = Len(s)
         /\ [s EXCEPT ![Len(s)] = e][Len(s)] = e
         /\ \A i \in 1 .. Len(s) : i < Len(s) => [s EXCEPT ![Len(s)] = e][i] = s[i]
<1> DEFINE u == [s EXCEPT ![Len(s)] = e]
<1>1. Len(s) \in Nat \ {0}
  OBVIOUS
<1>2. Len(s) \in 1 .. Len(s)
  BY ONLY <1>1
<1>3. /\ u \in Seq(S)
      /\ Len(u) = Len(s)
      /\ \A i \in 1 .. Len(s) : u[i] = IF i = Len(s) THEN e ELSE s[i]
  BY ONLY <1>2
<1> HIDE DEF u
<1>4. u # << >>
  BY <1>1, <1>3, Zenon
<1>5. u[Len(s)] = e
  BY <1>2, <1>3, Zenon
<1>6. \A i \in 1 .. Len(s) : i < Len(s) => u[i] = s[i]
  BY ONLY <1>1, <1>3
<1> QED
  BY <1>3, <1>4, <1>5, <1>6, Zenon DEF u

\* Replacing the plan of the innermost dispatch changes nothing else on the stack.
LEMMA TopPlan ==
  ASSUME stack \in Seq(Frames), stack # << >>, NEW t \in Seq(Step), Continue(t)
  PROVE  /\ stack' \in Seq(Frames)
         /\ Len(stack') = Len(stack)
         /\ stack' # << >>
         /\ Top' = [msg |-> Top.msg, todo |-> t]
         /\ \A i \in 1 .. Len(stack) : stack'[i].msg = stack[i].msg
         /\ \A i \in 1 .. Len(stack) : i < Len(stack) => stack'[i] = stack[i]
<1> DEFINE frame == [msg |-> Top.msg, todo |-> t]
<1>1. Len(stack) \in 1 .. Len(stack)
  OBVIOUS
<1>2. Top \in Frames
  BY <1>1 DEF Top
<1>3. frame \in Frames /\ frame.msg = Top.msg
  BY <1>2, Zenon DEF Frames
<1>4. stack' = [stack EXCEPT ![Len(stack)] = frame]
  BY Zenon DEF Continue
<1> HIDE DEF frame
<1>5. /\ stack' \in Seq(Frames)
      /\ Len(stack') = Len(stack)
      /\ stack' # << >>
      /\ stack'[Len(stack)] = frame
      /\ \A i \in 1 .. Len(stack) : i < Len(stack) => stack'[i] = stack[i]
  <2> DEFINE u == [stack EXCEPT ![Len(stack)] = frame]
  <2>1. /\ u \in Seq(Frames)
        /\ u # << >>
        /\ Len(u) = Len(stack)
        /\ u[Len(stack)] = frame
        /\ \A i \in 1 .. Len(stack) : i < Len(stack) => u[i] = stack[i]
    BY <1>3, ReplaceLast
  <2>2. stack' = u
    BY <1>4, Zenon
  <2> HIDE DEF u
  <2> QED
    BY <2>1, <2>2, Zenon
<1>6. Top' = frame
  BY <1>5, Zenon DEF Top
<1>7. \A i \in 1 .. Len(stack) : i < Len(stack) \/ i = Len(stack)
  BY ONLY <1>1
<1>8. \A i \in 1 .. Len(stack) : stack'[i].msg = stack[i].msg
  BY <1>3, <1>5, <1>7, Zenon DEF Top
<1> QED
  BY <1>5, <1>6, <1>8, Zenon DEF frame

\* A plan is a sequence of steps; its first step tells whether the tap has returned.
LEMMA PlanFacts ==
  /\ Plans \subseteq Seq(Step)
  /\ Tapped \subseteq Plans
  /\ <<"fanout">> \in Tapped /\ <<"handlers">> \in Tapped /\ << >> \in Tapped
  /\ \A s \in {"tap", "submit", "stalled", "closed"} :
        /\ <<s, "fanout">> \in Plans
        /\ <<s, "fanout">> \notin Tapped
<1>1. <<"fanout">> \in Tapped /\ <<"handlers">> \in Tapped /\ << >> \in Tapped /\ Tapped \subseteq Plans
  BY Zenon DEF Plans, Tapped
<1>2. ASSUME NEW s \in {"tap", "submit", "stalled", "closed"}
      PROVE  <<s, "fanout">> \in Plans /\ <<s, "fanout">> \notin Tapped
  <2>1. <<s, "fanout">> \in Plans
    BY Zenon DEF Plans
  <2>2. /\ Len(<<s, "fanout">>) = 2
        /\ Len(<<"fanout">>) = 1
        /\ Len(<<"handlers">>) = 1
        /\ Len(<< >>) = 0
    BY Zenon
  <2>3. \A t \in Tapped : Len(t) # 2
    BY ONLY <2>2 DEF Tapped
  <2> QED
    BY <2>1, <2>2, <2>3, Zenon
<1>3. Plans \subseteq Seq(Step)
  <2>1. /\ \A s \in Step : <<s, "fanout">> \in Seq(Step)
        /\ \A s \in Step : <<s>> \in Seq(Step)
        /\ << >> \in Seq(Step)
    BY DEF Step
  <2> QED
    BY <2>1, Zenon DEF Plans, Tapped, Step
<1> QED
  BY <1>1, <1>2, <1>3, Zenon

\* The innermost dispatch goes on with the plan t.
LEMMA Advance ==
  ASSUME SInv, stack # << >>, NEW t \in Plans, Continue(t), UNCHANGED <<cause, seen>>,
         Range(delivered) \subseteq Range(delivered'),
         t \in {<<"handlers">>, << >>} => Top.msg \in Range(delivered')
  PROVE  /\ StackInv'
         /\ stack' \in Seq(Frames)
         /\ Len(stack') = Len(stack)
         /\ stack' # << >>
         /\ Top'.msg = Top.msg /\ Top'.todo = t
<1>1. stack \in Seq(Frames) /\ t \in Seq(Step)
  BY PlanFacts, Zenon DEF SInv, SessionTypeOK
<1>2. /\ stack' \in Seq(Frames)
      /\ Len(stack') = Len(stack)
      /\ stack' # << >>
      /\ Top' = [msg |-> Top.msg, todo |-> t]
      /\ \A i \in 1 .. Len(stack) : stack'[i].msg = stack[i].msg
      /\ \A i \in 1 .. Len(stack) : i < Len(stack) => stack'[i] = stack[i]
  BY <1>1, TopPlan, Zenon
<1>3. Top'.msg = Top.msg /\ Top'.todo = t /\ stack'[Len(stack)].todo = t
      /\ stack'[Len(stack)].msg = Top.msg
  BY ONLY <1>2 DEF Top
<1>4. Len(stack) \in Nat
  BY ONLY <1>1
<1>5. ASSUME NEW i \in 1 .. Len(stack')
      PROVE  /\ stack'[i].todo \in Plans
             /\ i < Len(stack') => stack'[i].todo = <<"handlers">>
             /\ stack'[i].todo \in {<<"handlers">>, << >>} => stack'[i].msg \in Range(delivered')
             /\ cause'[stack'[i].msg] = IF i = 1 THEN NoMessage ELSE stack'[i - 1].msg
  <2>0. i \in 1 .. Len(stack)
    BY <1>2, Zenon
  <2>1. /\ stack[i].todo \in Plans
        /\ i < Len(stack) => stack[i].todo = <<"handlers">>
        /\ stack[i].todo \in {<<"handlers">>, << >>} => stack[i].msg \in Range(delivered)
        /\ cause[stack[i].msg] = IF i = 1 THEN NoMessage ELSE stack[i - 1].msg
    BY <2>0, Zenon DEF SInv, StackInv
  <2>2. cause'[stack'[i].msg] = IF i = 1 THEN NoMessage ELSE stack'[i - 1].msg
    <3>1. i # 1 => i - 1 \in 1 .. Len(stack)
      BY ONLY <1>4, <2>0
    <3> QED
      BY <1>2, <2>0, <2>1, <3>1, Zenon
  <2>3. CASE i < Len(stack)
    BY <1>2, <2>0, <2>1, <2>2, <2>3, Zenon
  <2>4. CASE i = Len(stack)
    <3>1. ~(i < Len(stack'))
      BY ONLY <1>2, <1>4, <2>4
    <3> QED
      BY <1>3, <2>2, <2>4, <3>1, Zenon
  <2> QED
    BY ONLY <1>4, <2>0, <2>3, <2>4
<1>6. ASSUME NEW i \in 1 .. Len(seen')
      PROVE  \/ seen'[i] \in Range(delivered')
             \/ \E j \in 1 .. Len(stack') : stack'[j].msg = seen'[i]
  <2>1. \/ seen[i] \in Range(delivered)
        \/ \E j \in 1 .. Len(stack) : stack[j].msg = seen[i]
    BY Zenon DEF SInv, StackInv
  <2> QED
    BY <1>2, <2>1, Zenon
<1> QED
  BY <1>2, <1>3, <1>5, <1>6, Zenon DEF StackInv

\* A message that is past its tap was accepted, or the adapter has halted.
LEMMA AdvanceAudit ==
  ASSUME SInv, stack # << >>, NEW t \in Plans, Continue(t),
         Range(accepted) \subseteq Range(accepted'),
         adapterHalted => adapterHalted',
         t \in Tapped /\ Top.msg \in Encodable => Top.msg \in Range(accepted') \/ adapterHalted',
         \A m \in Range(delivered') : m \in Range(delivered) \/ (t \in Tapped /\ m = Top.msg)
  PROVE  AuditInv'
<1>1. stack \in Seq(Frames) /\ t \in Seq(Step)
  BY PlanFacts, Zenon DEF SInv, SessionTypeOK
<1>2. /\ Len(stack') = Len(stack)
      /\ Top' = [msg |-> Top.msg, todo |-> t]
      /\ \A i \in 1 .. Len(stack) : i < Len(stack) => stack'[i] = stack[i]
  BY <1>1, TopPlan, Zenon
<1>3. stack'[Len(stack)].todo = t /\ stack'[Len(stack)].msg = Top.msg
  BY ONLY <1>2 DEF Top
<1>4. ASSUME NEW i \in 1 .. Len(stack'), stack'[i].todo \in Tapped, stack'[i].msg \in Encodable
      PROVE  stack'[i].msg \in Range(accepted') \/ adapterHalted'
  <2>1. i \in 1 .. Len(stack) /\ (i < Len(stack) \/ i = Len(stack))
    BY ONLY <1>1, <1>2
  <2>2. CASE i < Len(stack)
    BY <1>2, <1>4, <2>1, <2>2, Zenon DEF SInv, AuditInv
  <2>3. CASE i = Len(stack)
    BY <1>3, <1>4, <2>3, Zenon
  <2> QED
    BY <2>1, <2>2, <2>3, Zenon
<1>5. ASSUME NEW m \in Range(delivered') \cap Encodable
      PROVE  m \in Range(accepted') \/ adapterHalted'
  BY <1>5, Zenon DEF SInv, AuditInv
<1> QED
  BY <1>4, <1>5, Zenon DEF AuditInv

\* A conjunct of the invariant whose variables do not change is preserved.
LEMMA SessionFrame ==
  /\ StackInv /\ UNCHANGED <<stack, delivered, seen, cause>> => StackInv'
  /\ CallerInv /\ UNCHANGED <<pc, pending, phase, stack, adapterHalted>> => CallerInv'
  /\ PhaseInv /\ UNCHANGED <<phase, stack, accepted, owner, adapterHalted, flag>> => PhaseInv'
  /\ CaptureInv /\ UNCHANGED <<accepted, seen, adapterHalted, stack>> => CaptureInv'
  /\ AuditInv /\ UNCHANGED <<stack, accepted, delivered, adapterHalted>> => AuditInv'
  /\ CauseInv /\ UNCHANGED <<accepted, cause>> => CauseInv'
  /\ ReasonInv /\ UNCHANGED <<flag, reason, claim, signals>> => ReasonInv'
  /\ SessionTypeOK /\ TypeOK' /\ UNCHANGED sessionVars => SessionTypeOK'
<1>1. StackInv /\ UNCHANGED <<stack, delivered, seen, cause>> => StackInv'
  BY ZenonT(60) DEF StackInv
<1>2. CallerInv /\ UNCHANGED <<pc, pending, phase, stack, adapterHalted>> => CallerInv'
  BY DEF CallerInv, Top
<1>3. PhaseInv /\ UNCHANGED <<phase, stack, accepted, owner, adapterHalted, flag>> => PhaseInv'
  BY DEF PhaseInv
<1>4. CaptureInv /\ UNCHANGED <<accepted, seen, adapterHalted, stack>> => CaptureInv'
  BY DEF CaptureInv, InTap, Top
<1>5. AuditInv /\ UNCHANGED <<stack, accepted, delivered, adapterHalted>> => AuditInv'
  BY DEF AuditInv
<1>6. CauseInv /\ UNCHANGED <<accepted, cause>> => CauseInv'
  BY Zenon DEF CauseInv
<1>7. ReasonInv /\ UNCHANGED <<flag, reason, claim, signals>> => ReasonInv'
  BY DEF ReasonInv
<1>8. SessionTypeOK /\ TypeOK' /\ UNCHANGED sessionVars => SessionTypeOK'
  BY Zenon DEF SessionTypeOK, sessionVars
<1> QED
  BY ONLY <1>1, <1>2, <1>3, <1>4, <1>5, <1>6, <1>7, <1>8, SMTT(60)

\* What each step of the writer leaves alone of what the session looks at.
LEMMA WriterLeaves ==
  /\ Batcher => UNCHANGED <<pc, pending, accepted, owner, halted>>
  /\ Owner => UNCHANGED <<pc, pending, accepted, halted>>
  /\ CloseSend \/ CloseSendFail \/ CloseReturn \/ DropReturn =>
        /\ owner \notin {"open", "closed", "failed", "dropped"}
        /\ owner = "dropping" => owner' = "dropped"
        /\ owner' # "open"
        /\ owner # "dropping" => owner \in {"closing", "awaiting"}
  /\ \A d : Submit(Engine, d) => UNCHANGED <<accepted, owner, halted>>
  /\ SendDisconnected(Engine) \/ Stall(Engine) \/ FireStallHalt(Engine)
        => UNCHANGED <<accepted, owner>>
<1>1. Batcher => UNCHANGED <<pc, pending, accepted, owner, halted>>
  BY Zenon DEF Batcher, RecvEntry, RecvClose, RecvTimeout, RecvDisconnected, FlushCommit, FlushPublish,
         FlushFail, SealOk, SealFail, Exit, submitVars, historyVars
<1>2. Owner => UNCHANGED <<pc, pending, accepted, halted>>
  BY Zenon DEF Owner, CloseStart, CloseSend, CloseSendFail, CloseReturn, DropStart, DropReturn,
         submitVars, historyVars
<1>3. CloseSend \/ CloseSendFail \/ CloseReturn \/ DropReturn =>
        /\ owner \notin {"open", "closed", "failed", "dropped"}
        /\ owner = "dropping" => owner' = "dropped"
        /\ owner' # "open"
        /\ owner # "dropping" => owner \in {"closing", "awaiting"}
  BY Zenon DEF CloseSend, CloseSendFail, CloseReturn, DropReturn
<1>4. \A d : Submit(Engine, d) => UNCHANGED <<accepted, owner, halted>>
  BY Zenon DEF Submit, historyVars
<1>5. SendDisconnected(Engine) \/ Stall(Engine) \/ FireStallHalt(Engine)
        => UNCHANGED <<accepted, owner>>
  BY Zenon DEF SendDisconnected, Stall, FireStallHalt, historyVars
<1> QED
  BY <1>1, <1>2, <1>3, <1>4, <1>5, Zenon

\* A session begins with nothing seen and nothing accepted.
LEMMA SessionInitInv == SessionInit => SInv
<1> SUFFICES ASSUME SessionInit PROVE SInv
  BY Zenon
<1>1. IInv
  BY InitIInv, Zenon DEF SessionInit
<1>2. accepted = << >> /\ pc[Engine] = "idle" /\ owner = "open"
  <2>1. \E n \in 0 .. InitialEntries : \E d \in [1 .. n -> Draft] : accepted = d
    BY Zenon DEF SessionInit, Init
  <2>2. accepted \in [1 .. 0 -> Draft]
    BY ONLY <2>1, SessionAssumption DEF SessionAssumption
  <2>3. accepted = << >>
    BY ONLY <1>1, <2>2 DEF IInv, TypeOK
  <2> QED
    BY <2>3, SessionAssumption, Zenon DEF SessionAssumption, SessionInit, Init
<1>3. stack = << >> /\ seen = << >> /\ delivered = << >> /\ signals = << >>
  BY Zenon DEF SessionInit
<1>4. SessionTypeOK
  <2>1. /\ stack \in Seq(Frames) /\ Len(stack) <= MaxDepth
        /\ delivered \in Seq(Message) /\ seen \in Seq(Encodable) /\ signals \in Seq(Reason)
    BY ONLY <1>3, SessionAssumption DEF SessionAssumption
  <2>2. cause \in [Message -> Message \cup {NoMessage}]
    BY Zenon DEF SessionInit
  <2>3. adapterHalted \in BOOLEAN /\ flag \in BOOLEAN
    BY Zenon DEF SessionInit
  <2> QED
    BY <1>1, <2>1, <2>2, <2>3, Zenon DEF SessionTypeOK, SessionInit, NoClaim, IInv
<1>5. Range(delivered) = {}
  <2>1. DOMAIN delivered = {}
    BY ONLY <1>3
  <2> QED
    BY <2>1, Zenon DEF Range
<1>6. StackInv /\ AuditInv /\ CauseInv
  BY ONLY <1>2, <1>3, <1>5 DEF StackInv, AuditInv, CauseInv
<1>7. CallerInv /\ PhaseInv /\ CaptureInv
  BY <1>2, <1>3, Zenon DEF CallerInv, PhaseInv, CaptureInv, InTap, SessionInit
<1>8. ReasonInv
  BY <1>3, Zenon DEF ReasonInv, SessionInit
<1> QED
  BY <1>1, <1>4, <1>6, <1>7, <1>8, Zenon DEF SInv

\* Steps of the writer and its owner that the session does not notice.
LEMMA WriterOnlyInv ==
  ASSUME SInv, IInv', WriterServes \/ OwnerWaits \/ SubmitStalls \/ SubmitRunStarted \/ DropFailedRun
  PROVE  SInv'
<1> USE SessionAssumption DEF SessionAssumption
<1>1. UNCHANGED sessionVars
  BY Zenon DEF WriterServes, OwnerWaits, SubmitStalls, SubmitRunStarted, DropFailedRun
<1>2. UNCHANGED accepted
  <2>1. CASE WriterServes
    BY <2>1, WriterLeaves, Zenon DEF WriterServes, Batcher
  <2>2. CASE OwnerWaits \/ DropFailedRun
    BY <2>2, WriterLeaves, Zenon DEF OwnerWaits, DropFailedRun, Owner
  <2>3. CASE SubmitStalls \/ SubmitRunStarted
    BY <2>3, WriterLeaves, Zenon DEF SubmitStalls, SubmitRunStarted
  <2> QED
    BY <2>1, <2>2, <2>3, Zenon
<1>3. StackInv' /\ CaptureInv' /\ AuditInv' /\ CauseInv' /\ ReasonInv' /\ SessionTypeOK'
  BY <1>1, <1>2, SessionFrame, Zenon DEF SInv, sessionVars, IInv
<1>4. CASE WriterServes
  <2>1. UNCHANGED <<pc, pending, owner>>
    BY <1>4, WriterLeaves, Zenon DEF WriterServes, Batcher
  <2>2. CallerInv' /\ PhaseInv'
    BY <1>1, <1>2, <2>1, SessionFrame, Zenon DEF SInv, sessionVars
  <2> QED
    BY <1>3, <2>2, Zenon DEF SInv
<1>5. CASE OwnerWaits
  <2>1. UNCHANGED <<pc, pending>>
    BY <1>5, WriterLeaves, Zenon DEF OwnerWaits, Owner
  <2>2. CallerInv'
    BY <1>1, <2>1, SessionFrame, Zenon DEF SInv, sessionVars
  <2>3. /\ owner \notin {"open", "closed", "failed", "dropped"}
        /\ owner = "dropping" => owner' = "dropped"
        /\ owner # "dropping" => owner \in {"closing", "awaiting"}
    BY <1>5, WriterLeaves, Zenon DEF OwnerWaits
  <2>4. PhaseInv'
    BY <1>1, <1>2, <2>3, Zenon DEF SInv, PhaseInv, sessionVars
  <2> QED
    BY <1>3, <2>2, <2>4, Zenon DEF SInv
<1>6. CASE SubmitStalls \/ SubmitRunStarted
  <2>1. UNCHANGED owner
    BY <1>6, WriterLeaves, Zenon DEF SubmitStalls, SubmitRunStarted
  <2>2. PhaseInv'
    BY <1>1, <1>2, <2>1, SessionFrame, Zenon DEF SInv, sessionVars
  <2>3. CASE SubmitStalls
    <3>1. pc[Engine] = "sending" /\ UNCHANGED pending
      BY <2>3, Zenon DEF SubmitStalls, Stall
    <3> QED
      BY <1>1, <1>3, <2>2, <3>1, Zenon DEF SInv, CallerInv, Top, sessionVars
  <2>4. CASE SubmitRunStarted
    <3>1. phase = "submitting" /\ pending' = [pending EXCEPT ![Engine] = RunStarted]
      BY <2>4, Zenon DEF SubmitRunStarted, Submit
    <3>2. pending'[Engine] = RunStarted
      BY <3>1, Zenon DEF SInv, IInv, TypeOK
    <3>3. CallerInv'
      BY <1>1, <3>1, <3>2, Zenon DEF SInv, CallerInv, PhaseInv, Top, sessionVars
    <3> QED
      BY <1>3, <2>2, <3>3, Zenon DEF SInv
  <2> QED
    BY <1>6, <2>3, <2>4, Zenon
<1>7. CASE DropFailedRun
  <2>1. UNCHANGED <<pc, pending>> /\ phase = "failed" /\ owner' = "dropping"
    BY <1>7, WriterLeaves, Zenon DEF DropFailedRun, Owner, DropStart
  <2>2. CallerInv'
    BY <1>1, <2>1, SessionFrame, Zenon DEF SInv, sessionVars
  <2>3. PhaseInv'
    BY <1>1, <1>2, <2>1, Zenon DEF SInv, PhaseInv, sessionVars
  <2> QED
    BY <1>3, <2>2, <2>3, Zenon DEF SInv
<1> QED
  BY <1>4, <1>5, <1>6, <1>7, Zenon

\* The wait for RunStarted ends, and seal() begins.
LEMMA PhaseStepInv ==
  ASSUME SInv, IInv', InstallTap \/ GiveUp \/ Seal
  PROVE  SInv'
<1> USE SessionAssumption DEF SessionAssumption
<1>1. UNCHANGED <<busVars, signalVars>> /\ UNCHANGED <<accepted, pc, pending>>
  <2>1. CASE InstallTap \/ GiveUp
    BY <2>1, Zenon DEF InstallTap, GiveUp, vars
  <2>2. CASE Seal
    BY <2>2, WriterLeaves, Zenon DEF Seal, Owner
  <2> QED
    BY <2>1, <2>2, Zenon
<1>2. StackInv' /\ CaptureInv' /\ AuditInv' /\ CauseInv' /\ ReasonInv'
  BY <1>1, SessionFrame, Zenon DEF SInv, busVars, signalVars
<1>3. SessionTypeOK'
  <2>1. phase' \in {"submitting", "waiting", "running", "failed", "sealing"}
    BY Zenon DEF InstallTap, GiveUp, Seal
  <2> QED
    BY <1>1, <2>1, Zenon DEF SInv, IInv, SessionTypeOK, busVars, signalVars
<1>4. stack = << >> /\ stack' = << >> /\ phase # "submitting" /\ phase' # "submitting"
  BY <1>1, Zenon DEF InstallTap, GiveUp, Seal, SInv, PhaseInv, busVars
<1>5. CallerInv'
  BY <1>1, <1>4, Zenon DEF SInv, CallerInv
<1>6. PhaseInv'
  <2>1. CASE InstallTap \/ GiveUp
    <3>1. UNCHANGED owner
      BY <2>1, Zenon DEF InstallTap, GiveUp, vars
    <3> QED
      BY <1>1, <1>4, <2>1, <3>1, Zenon DEF SInv, PhaseInv, InstallTap, GiveUp, busVars, signalVars
  <2>2. CASE Seal
    <3>1. phase = "running" /\ phase' = "sealing"
      BY <2>2, Zenon DEF Seal
    <3>2. owner' = "dropping" \/ (~flag /\ owner' = "closing")
      <4>1. IF flag THEN DropStart ELSE CloseStart
        BY <2>2, Zenon DEF Seal
      <4>2. flag = TRUE \/ flag = FALSE
        BY Zenon DEF SInv, SessionTypeOK
      <4>3. CASE flag = TRUE
        <5>1. DropStart
          BY <4>1, <4>3, Zenon
        <5>2. owner' = "dropping"
          BY <5>1, Zenon DEF DropStart
        <5> QED
          BY <5>2, Zenon
      <4>4. CASE flag = FALSE
        <5>1. CloseStart
          BY <4>1, <4>4, Zenon
        <5> QED
          BY <4>4, <5>1, Zenon DEF CloseStart
      <4> QED
        BY <4>2, <4>3, <4>4, Zenon
    <3> QED
      BY <1>1, <1>4, <3>1, <3>2, Zenon DEF SInv, PhaseInv, busVars, signalVars
  <2> QED
    BY <2>1, <2>2, Zenon
<1> QED
  BY <1>2, <1>3, <1>5, <1>6, Zenon DEF SInv

\* The callback keeps the first reason, whichever thread runs it.
LEMMA CallbackInv ==
  ASSUME SInv, NEW t \in {"engine", "writer"}, NEW r \in Reason, Callback(t, r)
  PROVE  /\ ReasonInv' /\ flag'
         /\ flag' \in BOOLEAN
         /\ reason' \in Reason \cup {"none"}
         /\ claim' \in [thread : {"none", "engine", "writer"}, reason : Reason \cup {"none"}]
         /\ signals' \in Seq(Reason)
<1>1. signals \in Seq(Reason) /\ flag \in BOOLEAN
  BY Zenon DEF SInv, SessionTypeOK
<1>2. /\ signals' \in Seq(Reason)
      /\ signals' # << >>
      /\ signals = << >> => signals'[1] = r
      /\ signals # << >> => signals'[1] = signals[1]
  BY <1>1 DEF Callback
<1>3. flag' /\ reason' = reason /\ claim' = IF flag THEN claim ELSE [thread |-> t, reason |-> r]
  BY Zenon DEF Callback
<1>4. /\ flag <=> signals # << >>
      /\ reason # "none" => flag /\ reason = signals[1]
      /\ claim # NoClaim => flag /\ claim.reason = signals[1]
  BY Zenon DEF SInv, ReasonInv
<1>5. ReasonInv'
  <2>1. CASE flag
    BY <1>2, <1>3, <1>4, <2>1, Zenon DEF ReasonInv
  <2>2. CASE ~flag
    <3>1. claim' = [thread |-> t, reason |-> r] /\ claim'.reason = r
      BY <1>3, <2>2, Zenon
    <3> QED
      BY <1>2, <1>3, <1>4, <2>2, <3>1, Zenon DEF ReasonInv
  <2> QED
    BY <2>1, <2>2, Zenon
<1>6. claim' \in [thread : {"none", "engine", "writer"}, reason : Reason \cup {"none"}]
  BY <1>3, Zenon DEF SInv, SessionTypeOK
<1> QED
  BY <1>2, <1>3, <1>5, <1>6, Zenon DEF SInv, SessionTypeOK, Callback

\* The halt signal's steps that concern nothing but the signal.
LEMMA SignalInv ==
  ASSUME SInv, IInv', StoreReason \/ WriterFails
  PROVE  SInv'
<1>1. UNCHANGED <<phase, busVars>> /\ UNCHANGED <<accepted, pc, pending, owner>>
  <2>1. CASE StoreReason
    BY <2>1, Zenon DEF StoreReason, vars
  <2>2. CASE WriterFails
    BY <2>2, WriterLeaves, Zenon DEF WriterFails, Batcher
  <2> QED
    BY <2>1, <2>2, Zenon
<1>2. StackInv' /\ CaptureInv' /\ AuditInv' /\ CauseInv' /\ CallerInv'
  BY <1>1, SessionFrame, Zenon DEF SInv, busVars
<1>3. /\ ReasonInv' /\ (flag => flag')
      /\ flag' \in BOOLEAN
      /\ reason' \in Reason \cup {"none"}
      /\ claim' \in [thread : {"none", "engine", "writer"}, reason : Reason \cup {"none"}]
      /\ signals' \in Seq(Reason)
  <2>1. CASE WriterFails
    <3>1. Callback("writer", "BackendError") /\ "BackendError" \in Reason
      BY <2>1, Zenon DEF WriterFails, Reason
    <3> QED
      BY <3>1, CallbackInv, Zenon
  <2>2. CASE StoreReason
    <3>1. /\ claim # NoClaim /\ reason' = claim.reason /\ claim' = NoClaim
          /\ flag' = flag /\ signals' = signals
      BY <2>2, Zenon DEF StoreReason
    <3>2. claim.reason \in Reason \cup {"none"} /\ flag \in BOOLEAN /\ signals \in Seq(Reason)
      BY Zenon DEF SInv, SessionTypeOK
    <3>3. claim' \in [thread : {"none", "engine", "writer"}, reason : Reason \cup {"none"}]
      BY <3>1, Zenon DEF NoClaim
    <3> QED
      BY <3>1, <3>2, <3>3, Zenon DEF SInv, ReasonInv
  <2> QED
    BY <2>1, <2>2, Zenon
<1>4. PhaseInv'
  BY <1>1, <1>3, Zenon DEF SInv, PhaseInv, busVars
<1>5. SessionTypeOK'
  BY <1>1, <1>3, Zenon DEF SInv, IInv, SessionTypeOK, busVars
<1> QED
  BY <1>2, <1>3, <1>4, <1>5, Zenon DEF SInv

\* Finishing a step, and replacing it, in terms of the plan that is left.
LEMMA NextPlan ==
  ASSUME SInv, NEW s \in Step, InStep(s)
  PROVE  /\ s \in {"fanout", "handlers"} /\ StepDone => Continue(<< >>)
         /\ s \notin {"fanout", "handlers"} /\ StepDone => Continue(<<"fanout">>)
         /\ s \in {"fanout", "handlers"} /\ ReplaceStep("handlers") => Continue(<<"handlers">>)
         /\ s \notin {"fanout", "handlers"} =>
              \A r \in Step : ReplaceStep(r) => Continue(<<r, "fanout">>)
<1>1. /\ s \in {"fanout", "handlers"} => Tail(Top.todo) = << >>
      /\ s \notin {"fanout", "handlers"} => Tail(Top.todo) = <<"fanout">>
  BY PlanOfStep, Zenon
<1>2. ASSUME NEW r \in Step PROVE <<r>> \o << >> = <<r>> /\ <<r>> \o <<"fanout">> = <<r, "fanout">>
  <2>1. <<r>> \in Seq(Step) /\ <<"fanout">> \in Seq(Step) /\ <<r, "fanout">> \in Seq(Step)
    BY DEF Step
  <2>2. <<r>> \o << >> = <<r>>
    BY ONLY <2>1
  <2>3. /\ <<r>> \o <<"fanout">> \in Seq(Step)
        /\ Len(<<r>> \o <<"fanout">>) = 2
        /\ (<<r>> \o <<"fanout">>)[1] = r
        /\ (<<r>> \o <<"fanout">>)[2] = "fanout"
    BY ONLY <2>1
  <2>4. <<r>> \o <<"fanout">> = <<r, "fanout">>
    <3>1. /\ Len(<<r, "fanout">>) = 2
          /\ <<r, "fanout">>[1] = r
          /\ <<r, "fanout">>[2] = "fanout"
      BY Zenon
    <3>2. \A i \in 1 .. 2 : (<<r>> \o <<"fanout">>)[i] = <<r, "fanout">>[i]
      BY ONLY <2>3, <3>1
    <3>3. \A a, b \in Seq(Step) :
            Len(a) = 2 /\ Len(b) = 2 /\ (\A i \in 1 .. 2 : a[i] = b[i]) => a = b
      OBVIOUS
    <3> QED
      BY <2>1, <2>3, <3>1, <3>2, <3>3, Zenon
  <2> QED
    BY <2>2, <2>4, Zenon
<1>3. "handlers" \in Step
  BY Zenon DEF Step
<1>4. s \in {"fanout", "handlers"} /\ StepDone => Continue(<< >>)
  BY <1>1, Zenon DEF StepDone
<1>5. s \notin {"fanout", "handlers"} /\ StepDone => Continue(<<"fanout">>)
  BY <1>1, Zenon DEF StepDone
<1>6. s \in {"fanout", "handlers"} /\ ReplaceStep("handlers") => Continue(<<"handlers">>)
  BY <1>1, <1>2, <1>3, Zenon DEF ReplaceStep
<1>7. s \notin {"fanout", "handlers"} =>
          \A r \in Step : ReplaceStep(r) => Continue(<<r, "fanout">>)
  BY <1>1, <1>2, Zenon DEF ReplaceStep
<1> QED
  BY <1>4, <1>5, <1>6, <1>7, Zenon

\* The log stays a prefix while the innermost dispatch goes on and nothing is accepted.
LEMMA AdvanceCapture ==
  ASSUME SInv, stack # << >>, NEW t \in Plans, Continue(t), UNCHANGED <<cause, seen, accepted>>,
         Range(delivered) \subseteq Range(delivered'),
         t \in {<<"handlers">>, << >>} => Top.msg \in Range(delivered'),
         adapterHalted' \in BOOLEAN, adapterHalted => adapterHalted',
         t \notin Tapped => Top.todo \notin Tapped,
         t \in Tapped /\ Top.todo \notin Tapped /\ Top.msg \in Encodable => adapterHalted'
  PROVE  CaptureInv'
<1>1. stack' # << >> /\ Top'.msg = Top.msg /\ Top'.todo = t
  BY Advance, Zenon
<1>2. InTap' <=> Top.msg \in Encodable /\ t \notin Tapped
  BY <1>1, Zenon DEF InTap
<1>3. InTap <=> Top.msg \in Encodable /\ Top.todo \notin Tapped
  BY Zenon DEF InTap
<1>4. InTap' => InTap
  BY <1>2, <1>3, Zenon
<1>5. ~adapterHalted' => ~adapterHalted /\ (InTap' <=> InTap)
  BY <1>2, <1>3, Zenon
<1>6. /\ accepted = << >> => seen = << >>
      /\ accepted # << >> =>
            /\ accepted[1] = RunStarted
            /\ Len(accepted) - 1 <= Len(seen)
            /\ \A i \in 1 .. Len(accepted) - 1 : accepted[i + 1] = seen[i]
            /\ ~adapterHalted =>
                  Len(accepted) - 1 = IF InTap THEN Len(seen) - 1 ELSE Len(seen)
      /\ InTap => seen # << >> /\ seen[Len(seen)] = Top.msg
  BY Zenon DEF SInv, CaptureInv
<1>7. InTap' => seen # << >> /\ seen[Len(seen)] = Top'.msg
  BY <1>1, <1>4, <1>6, Zenon
<1>8. accepted # << >> /\ ~adapterHalted' =>
          Len(accepted) - 1 = IF InTap' THEN Len(seen) - 1 ELSE Len(seen)
  BY <1>5, <1>6, Zenon
<1> QED
  BY <1>6, <1>7, <1>8, Zenon DEF CaptureInv

\* A dispatch begins at the top of the loop or inside a handler.
LEMMA DispatchInv ==
  ASSUME SInv, IInv', NEW m \in Message, Dispatch(m)
  PROVE  SInv'
<1> DEFINE frame == [msg |-> m, todo |-> <<"tap", "fanout">>]
<1>1. /\ phase = "running" /\ Len(stack) < MaxDepth
      /\ m \notin Range(delivered)
      /\ \A i \in 1 .. Len(stack) : stack[i].msg # m
      /\ stack' = Append(stack, frame)
      /\ cause' = [cause EXCEPT ![m] = IF stack = << >> THEN NoMessage ELSE Top.msg]
      /\ seen' = IF m \in Encodable THEN Append(seen, m) ELSE seen
      /\ UNCHANGED <<vars, phase, delivered, adapterHalted, signalVars>>
  <2>1. DOMAIN stack = 1 .. Len(stack)
    BY DEF SInv, SessionTypeOK
  <2> QED
    BY <2>1, Zenon DEF Dispatch, dispatched, Todo
<1>2. stack \in Seq(Frames) /\ Len(stack) \in Nat /\ seen \in Seq(Encodable) /\ Len(seen) \in Nat
      /\ cause \in [Message -> Message \cup {NoMessage}] /\ accepted \in Seq(Draft)
  <2>1. stack \in Seq(Frames) /\ seen \in Seq(Encodable)
        /\ cause \in [Message -> Message \cup {NoMessage}]
    BY Zenon DEF SInv, SessionTypeOK
  <2>2. accepted \in Seq(Draft)
    BY Zenon DEF SInv, IInv, TypeOK
  <2> QED
    BY ONLY <2>1, <2>2
<1>3. frame \in Frames /\ frame.msg = m /\ frame.todo = <<"tap", "fanout">>
  <2>1. <<"tap", "fanout">> \in Seq(Step)
    BY PlanFacts, Zenon
  <2> QED
    BY <2>1, Zenon DEF Frames
<1> HIDE DEF frame
<1>4. /\ stack' \in Seq(Frames)
      /\ Len(stack') = Len(stack) + 1
      /\ stack'[Len(stack) + 1] = frame
      /\ \A i \in 1 .. Len(stack) : stack'[i] = stack[i]
  BY ONLY <1>1, <1>2, <1>3
<1>5. stack' # << >> /\ Top' = frame
  BY ONLY <1>2, <1>4 DEF Top
<1>6. stack # << >> => Top.todo = <<"handlers">> /\ Top \in Frames
  <2>1. CASE stack # << >>
    <3>1. InStep("handlers") /\ "handlers" \in Step
      BY <2>1, Zenon DEF Dispatch, Step
    <3>2. Len(stack) \in 1 .. Len(stack)
      BY ONLY <1>2, <2>1
    <3> QED
      BY <1>2, <3>1, <3>2, PlanOfStep DEF Top
  <2> QED
    BY <2>1, Zenon
<1>7. \A i \in 1 .. Len(stack) : stack[i].todo = <<"handlers">>
  <2> TAKE i \in 1 .. Len(stack)
  <2>1. stack # << >> /\ (i < Len(stack) \/ i = Len(stack))
    BY ONLY <1>2
  <2> QED
    BY <1>6, <2>1, Zenon DEF SInv, StackInv, Top
<1>8. /\ cause' \in [Message -> Message \cup {NoMessage}]
      /\ cause'[m] = IF stack = << >> THEN NoMessage ELSE Top.msg
      /\ \A x \in Message : x # m => cause'[x] = cause[x]
  <2>1. (IF stack = << >> THEN NoMessage ELSE Top.msg) \in Message \cup {NoMessage}
    BY <1>6, Zenon DEF Frames
  <2> QED
    BY <1>1, <1>2, <2>1, Zenon
<1>9. SessionTypeOK'
  <2>1. seen' \in Seq(Encodable)
    BY ONLY <1>1, <1>2
  <2>2. Len(stack') <= MaxDepth
    BY ONLY <1>1, <1>2, <1>4, SessionAssumption DEF SessionAssumption
  <2> QED
    BY <1>1, <1>4, <1>8, <2>1, <2>2, Zenon DEF SInv, IInv, SessionTypeOK, signalVars
<1>10. StackInv'
  <2>1. ASSUME NEW i \in 1 .. Len(stack')
        PROVE  /\ stack'[i].todo \in Plans
               /\ i < Len(stack') => stack'[i].todo = <<"handlers">>
               /\ stack'[i].todo \in {<<"handlers">>, << >>} => stack'[i].msg \in Range(delivered')
               /\ cause'[stack'[i].msg] = IF i = 1 THEN NoMessage ELSE stack'[i - 1].msg
    <3>1. CASE i \in 1 .. Len(stack)
      <4>1. /\ stack'[i] = stack[i]
            /\ stack[i].msg \in Message /\ stack[i].msg # m
        <5>1. stack[i] \in Frames
          BY ONLY <1>2, <3>1
        <5> QED
          BY <1>1, <1>4, <3>1, <5>1, Zenon DEF Frames
      <4>2. i # 1 => i - 1 \in 1 .. Len(stack)
        BY ONLY <1>2, <3>1
      <4>3. i # 1 => stack'[i - 1] = stack[i - 1]
        BY <1>4, <4>2, Zenon
      <4>4. /\ stack[i].todo \in Plans
            /\ stack[i].todo \in {<<"handlers">>, << >>} => stack[i].msg \in Range(delivered)
            /\ cause[stack[i].msg] = IF i = 1 THEN NoMessage ELSE stack[i - 1].msg
        BY <3>1, Zenon DEF SInv, StackInv
      <4>5. delivered' = delivered
        BY <1>1, Zenon
      <4> QED
        BY <1>7, <1>8, <3>1, <4>1, <4>3, <4>4, <4>5, Zenon
    <3>2. CASE i = Len(stack) + 1
      <4>1. stack'[i].msg = m /\ stack'[i].todo = <<"tap", "fanout">> /\ ~(i < Len(stack'))
        BY ONLY <1>2, <1>3, <1>4, <3>2
      <4>2. cause'[m] = IF i = 1 THEN NoMessage ELSE stack'[i - 1].msg
        <5>1. CASE stack = << >>
          BY ONLY <1>2, <1>8, <3>2, <5>1
        <5>2. CASE stack # << >>
          <6>1. i # 1 /\ i - 1 = Len(stack) /\ Len(stack) \in 1 .. Len(stack)
            BY ONLY <1>2, <3>2, <5>2, SMTT(60)
          <6> QED
            BY <1>4, <1>8, <5>2, <6>1, Zenon DEF Top
        <5> QED
          BY <5>1, <5>2, Zenon
      <4> QED
        BY <4>1, <4>2, PlanFacts, Zenon
    <3> QED
      BY ONLY <1>2, <1>4, <3>1, <3>2, SMTT(60)
  <2>2. ASSUME NEW i \in 1 .. Len(seen')
        PROVE  \/ seen'[i] \in Range(delivered')
               \/ \E j \in 1 .. Len(stack') : stack'[j].msg = seen'[i]
    <3>1. CASE i \in 1 .. Len(seen) /\ seen'[i] = seen[i]
      <4>1. \/ seen[i] \in Range(delivered)
            \/ \E j \in 1 .. Len(stack) : stack[j].msg = seen[i]
        BY <3>1, Zenon DEF SInv, StackInv
      <4>2. \A j \in 1 .. Len(stack) : j \in 1 .. Len(stack')
        BY ONLY <1>2, <1>4
      <4> QED
        BY <1>1, <1>4, <3>1, <4>1, <4>2, Zenon
    <3>2. CASE seen'[i] = m
      <4>1. Len(stack) + 1 \in 1 .. Len(stack')
        BY ONLY <1>2, <1>4
      <4> QED
        BY <1>3, <1>4, <3>2, <4>1, Zenon
    <3> QED
      BY ONLY <1>1, <1>2, <3>1, <3>2, SMTT(60)
  <2> QED
    BY <2>1, <2>2, Zenon DEF StackInv
<1>11. CallerInv'
  <2>1. <<"handlers">> # <<"submit", "fanout">> /\ <<"tap", "fanout">> # <<"submit", "fanout">>
    BY Zenon
  <2>2. pc[Engine] = "idle"
    BY <1>1, <1>6, <2>1, Zenon DEF SInv, CallerInv
  <2>3. pc' = pc
    BY <1>1, Zenon DEF vars
  <2> QED
    BY <1>3, <1>5, <2>1, <2>2, <2>3, Zenon DEF CallerInv
<1>12. CaptureInv'
  <2>1. ~InTap /\ (InTap' <=> m \in Encodable)
    BY <1>3, <1>5, <1>6, PlanFacts, Zenon DEF InTap
  <2>2. accepted' = accepted /\ accepted # << >>
    BY <1>1, Zenon DEF SInv, PhaseInv, vars
  <2>3. CASE m \in Encodable
    <3>1. seen' # << >> /\ Len(seen') = Len(seen) + 1 /\ seen'[Len(seen) + 1] = m
          /\ \A i \in 1 .. Len(seen) : seen'[i] = seen[i]
      <4>1. seen' = Append(seen, m) /\ seen \in Seq(Encodable)
        BY <1>1, <1>2, <2>3, Zenon
      <4> QED
        BY ONLY <2>3, <4>1
    <3>2. /\ accepted[1] = RunStarted
          /\ Len(accepted) - 1 <= Len(seen)
          /\ \A i \in 1 .. Len(accepted) - 1 : accepted[i + 1] = seen[i]
          /\ ~adapterHalted => Len(accepted) - 1 = Len(seen)
      BY <2>1, <2>2, Zenon DEF SInv, CaptureInv
    <3>3. Len(accepted) \in Nat
      BY ONLY <1>2
    <3>4. /\ Len(accepted) - 1 <= Len(seen')
          /\ \A i \in 1 .. Len(accepted) - 1 : accepted[i + 1] = seen'[i]
          /\ ~adapterHalted => Len(accepted) - 1 = Len(seen') - 1
          /\ seen'[Len(seen')] = m
      <4>1. ASSUME NEW i \in 1 .. Len(accepted) - 1
            PROVE  accepted[i + 1] = seen'[i]
        <5>1. i \in 1 .. Len(seen)
          BY ONLY <1>2, <3>2, <3>3
        <5> QED
          BY <3>1, <3>2, <5>1, Zenon
      <4>2. /\ Len(accepted) - 1 <= Len(seen')
            /\ ~adapterHalted => Len(accepted) - 1 = Len(seen') - 1
            /\ seen'[Len(seen')] = m
        BY ONLY <1>2, <3>1, <3>2, <3>3
      <4> QED
        BY <4>1, <4>2, Zenon
    <3> QED
      BY <1>1, <1>3, <1>5, <2>1, <2>2, <2>3, <3>1, <3>2, <3>4, Zenon DEF CaptureInv
  <2>4. CASE m \notin Encodable
    BY <1>1, <2>1, <2>2, <2>4, Zenon DEF SInv, CaptureInv
  <2> QED
    BY <2>3, <2>4, Zenon
<1>13. AuditInv'
  <2>1. ASSUME NEW i \in 1 .. Len(stack'), stack'[i].todo \in Tapped, stack'[i].msg \in Encodable
        PROVE  stack'[i].msg \in Range(accepted') \/ adapterHalted'
    <3>1. i # Len(stack) + 1
      BY <1>3, <1>4, <2>1, PlanFacts, Zenon
    <3>2. i \in 1 .. Len(stack) /\ stack'[i] = stack[i]
      BY ONLY <1>2, <1>4, <3>1
    <3> QED
      BY <1>1, <2>1, <3>2, Zenon DEF SInv, AuditInv, vars
  <2> QED
    BY <1>1, <2>1, Zenon DEF SInv, AuditInv, vars
<1>14. CauseInv'
  <2>1. accepted' = accepted /\ accepted # << >>
    BY <1>1, Zenon DEF SInv, PhaseInv, vars
  <2>2. ASSUME NEW i \in 2 .. Len(accepted)
        PROVE  cause'[accepted[i]] = cause[accepted[i]]
    <3>1. i - 1 \in 1 .. Len(accepted) - 1 /\ (i - 1) + 1 = i /\ i - 1 \in 1 .. Len(seen)
      BY <1>2, <2>1 DEF SInv, CaptureInv
    <3>2. accepted[i] = seen[i - 1]
      BY <2>1, <3>1, Zenon DEF SInv, CaptureInv
    <3>3. seen[i - 1] # m
      <4>1. \/ seen[i - 1] \in Range(delivered)
            \/ \E j \in 1 .. Len(stack) : stack[j].msg = seen[i - 1]
        BY <3>1, Zenon DEF SInv, StackInv
      <4> QED
        BY <1>1, <4>1, Zenon
    <3>4. seen[i - 1] \in Message
      BY ONLY <1>2, <3>1, SessionAssumption DEF SessionAssumption
    <3> QED
      BY <1>8, <3>2, <3>3, <3>4, Zenon
  <2>3. CauseInv
    BY Zenon DEF SInv
  <2> QED
    BY <2>1, <2>2, <2>3, ZenonT(60) DEF CauseInv
<1>15. PhaseInv' /\ ReasonInv'
  BY <1>1, Zenon DEF SInv, PhaseInv, ReasonInv, vars, signalVars
<1> QED
  BY <1>9, <1>10, <1>11, <1>12, <1>13, <1>14, <1>15, Zenon DEF SInv

\* Steps of a dispatch that neither reach the writer nor touch the signal.
LEMMA FanoutInv ==
  ASSUME SInv, IInv', Fanout \/ HandlersDone \/ TapSkips
  PROVE  SInv'
<1>1. UNCHANGED <<vars, phase, cause, adapterHalted, seen, signalVars>>
  BY Zenon DEF Fanout, HandlersDone, TapSkips
<1>2. UNCHANGED <<pc, pending, accepted, owner>>
  BY <1>1, Zenon DEF vars
<1>3. delivered \in Seq(Message) /\ stack \in Seq(Frames) /\ adapterHalted \in BOOLEAN
  BY Zenon DEF SInv, SessionTypeOK
<1>4. PICK t \in Plans :
        /\ stack # << >>
        /\ Continue(t)
        /\ Range(delivered) \subseteq Range(delivered')
        /\ delivered' \in Seq(Message)
        /\ t \in {<<"handlers">>, << >>} => Top.msg \in Range(delivered')
        /\ t \in Tapped
        /\ Top.msg \in Encodable => Top.todo \in Tapped \/ adapterHalted
        /\ \A m \in Range(delivered') : m \in Range(delivered) \/ m = Top.msg
  <2>1. CASE Fanout
    <3>1. InStep("fanout") /\ "fanout" \in Step
      BY <2>1, Zenon DEF Fanout, Step
    <3>2. stack # << >> /\ Len(stack) \in 1 .. Len(stack) /\ Top.todo = <<"fanout">>
      BY <3>1, PlanOfStep, Zenon
    <3>3. Continue(<<"handlers">>)
      BY <2>1, <3>1, NextPlan, Zenon DEF Fanout
    <3>4. Top.msg \in Message
      <4>1. Top \in Frames
        BY ONLY <1>3, <3>2 DEF Top
      <4> QED
        BY <4>1, Zenon DEF Frames
    <3>5. Range(delivered') = Range(delivered) \cup {Top.msg} /\ delivered' \in Seq(Message)
      <4>1. delivered' = Append(delivered, Top.msg)
        BY <2>1, Zenon DEF Fanout
      <4> QED
        BY ONLY <1>3, <3>4, <4>1, RangeAppend
    <3> QED
      <4>1. <<"handlers">> \in Plans /\ <<"handlers">> \in Tapped /\ <<"fanout">> \in Tapped
        BY PlanFacts, Zenon
      <4> QED
        BY <3>2, <3>3, <3>5, <4>1, Zenon
  <2>2. CASE HandlersDone
    <3>1. InStep("handlers") /\ "handlers" \in Step
      BY <2>2, Zenon DEF HandlersDone, Step
    <3>2. stack # << >> /\ Len(stack) \in 1 .. Len(stack) /\ Top.todo = <<"handlers">>
      BY <3>1, PlanOfStep, Zenon
    <3>3. Continue(<< >>)
      BY <2>2, <3>1, NextPlan, Zenon DEF HandlersDone
    <3>4. Top.msg \in Range(delivered)
      BY <3>2, Zenon DEF SInv, StackInv, Top
    <3>5. delivered' = delivered
      BY <2>2, Zenon DEF HandlersDone
    <3> QED
      <4>1. << >> \in Plans /\ << >> \in Tapped /\ <<"handlers">> \in Tapped
        BY PlanFacts, Zenon
      <4> QED
        BY <1>3, <3>2, <3>3, <3>4, <3>5, <4>1, Zenon
  <2>3. CASE TapSkips
    <3>1. InStep("tap") /\ "tap" \in Step
      BY <2>3, Zenon DEF TapSkips, Step
    <3>2. stack # << >>
      BY <3>1, PlanOfStep, Zenon
    <3>3. Continue(<<"fanout">>)
      BY <2>3, <3>1, NextPlan, Zenon DEF TapSkips
    <3>4. delivered' = delivered /\ (Top.msg \in Encodable => adapterHalted)
      BY <2>3, Zenon DEF TapSkips
    <3>5. <<"fanout">> \notin {<<"handlers">>, << >>}
      BY Zenon
    <3> QED
      <4>1. <<"fanout">> \in Plans /\ <<"fanout">> \in Tapped
        BY PlanFacts, Zenon
      <4> QED
        BY <1>3, <3>2, <3>3, <3>4, <3>5, <4>1, Zenon
  <2> QED
    BY <2>1, <2>2, <2>3, Zenon
<1>5. StackInv' /\ stack' \in Seq(Frames) /\ Len(stack') = Len(stack) /\ stack' # << >>
      /\ Top'.todo = t
  BY <1>1, <1>4, Advance, Zenon
<1>6. CaptureInv'
  BY <1>1, <1>2, <1>3, <1>4, AdvanceCapture, Zenon
<1>7. AuditInv'
  <2>1. Top.msg \in Encodable => Top.msg \in Range(accepted) \/ adapterHalted
    <3>1. Len(stack) \in 1 .. Len(stack)
      BY ONLY <1>3, <1>4
    <3> QED
      BY <1>4, <3>1, Zenon DEF SInv, AuditInv, Top
  <2> QED
    BY <1>1, <1>2, <1>4, <2>1, AdvanceAudit, Zenon
<1>8. CallerInv'
  <2>1. t # <<"submit", "fanout">>
    BY <1>4, PlanFacts, Zenon
  <2>2. Top.todo # <<"submit", "fanout">>
    <3>1. CASE Fanout
      BY <3>1, PlanOfStep DEF Fanout, Step
    <3>2. CASE HandlersDone
      BY <3>2, PlanOfStep DEF HandlersDone, Step
    <3>3. CASE TapSkips
      BY <3>3, PlanOfStep DEF TapSkips, Step
    <3> QED
      BY <3>1, <3>2, <3>3, Zenon
  <2>3. pc[Engine] # "idle" => phase = "submitting" /\ pending[Engine] = RunStarted
    BY <2>2, Zenon DEF SInv, CallerInv
  <2> QED
    BY <1>1, <1>2, <1>5, <2>1, <2>3, Zenon DEF CallerInv
<1>9. CauseInv' /\ ReasonInv'
  BY <1>1, <1>2, SessionFrame, Zenon DEF SInv, signalVars
<1>10. PhaseInv'
  BY <1>1, <1>2, <1>4, <1>5, Zenon DEF SInv, PhaseInv, signalVars
<1>11. SessionTypeOK'
  BY <1>1, <1>4, <1>5, Zenon DEF SInv, IInv, SessionTypeOK, signalVars
<1> QED
  BY <1>5, <1>6, <1>7, <1>8, <1>9, <1>10, <1>11, Zenon DEF SInv

\* A dispatch returns to the handler it is nested in.
LEMMA ReturnInv ==
  ASSUME SInv, IInv', Return
  PROVE  SInv'
<1>1. /\ stack # << >> /\ Top.todo = << >>
      /\ stack' = SubSeq(stack, 1, Len(stack) - 1)
      /\ UNCHANGED <<vars, phase, cause, delivered, adapterHalted, seen, signalVars>>
  BY Zenon DEF Return
<1>2. UNCHANGED <<pc, pending, accepted, owner>>
  BY <1>1, Zenon DEF vars
<1>3. stack \in Seq(Frames) /\ Len(stack) \in Nat /\ Len(stack) \in 1 .. Len(stack)
      /\ Len(stack) <= MaxDepth
  BY <1>1 DEF SInv, SessionTypeOK
<1>4. /\ stack' \in Seq(Frames)
      /\ Len(stack') = Len(stack) - 1
      /\ \A i \in 1 .. Len(stack') : stack'[i] = stack[i] /\ i \in 1 .. Len(stack) /\ i < Len(stack)
  <2>1. 1 \in 1 .. Len(stack) + 1 /\ Len(stack) - 1 \in 1 - 1 .. Len(stack)
    BY ONLY <1>3
  <2>2. /\ SubSeq(stack, 1, Len(stack) - 1) \in Seq(Frames)
        /\ Len(SubSeq(stack, 1, Len(stack) - 1)) = Len(stack) - 1
        /\ \A i \in 1 .. Len(stack) - 1 : SubSeq(stack, 1, Len(stack) - 1)[i] = stack[i]
    <3>1. /\ SubSeq(stack, 1, Len(stack) - 1) \in Seq(Frames)
          /\ Len(SubSeq(stack, 1, Len(stack) - 1)) = IF 1 <= Len(stack) - 1 THEN Len(stack) - 1 - 1 + 1 ELSE 0
          /\ \A i \in 1 .. Len(stack) - 1 - 1 + 1 : SubSeq(stack, 1, Len(stack) - 1)[i] = stack[1 + i - 1]
      BY ONLY <1>3, <2>1
    <3>2. \A i \in 1 .. Len(stack) - 1 : i \in 1 .. Len(stack) - 1 - 1 + 1 /\ 1 + i - 1 = i
      BY ONLY <1>3
    <3>3. (IF 1 <= Len(stack) - 1 THEN Len(stack) - 1 - 1 + 1 ELSE 0) = Len(stack) - 1
      <4>1. Len(stack) \in Nat \ {0}
        BY ONLY <1>1, <1>3
      <4>2. \A n \in Nat \ {0} : (IF 1 <= n - 1 THEN n - 1 - 1 + 1 ELSE 0) = n - 1
        OBVIOUS
      <4> QED
        BY <4>1, <4>2, Zenon
    <3> QED
      BY ONLY <3>1, <3>2, <3>3
  <2>3. \A i \in 1 .. Len(stack) - 1 : i \in 1 .. Len(stack) /\ i < Len(stack)
    BY ONLY <1>3
  <2> QED
    BY <1>1, <2>2, <2>3, Zenon
<1>5. Top.msg \in Range(delivered)
  BY <1>1, <1>3, Zenon DEF SInv, StackInv, Top
<1>6. stack' # << >> => Top'.todo = <<"handlers">> /\ Len(stack') \in 1 .. Len(stack')
  <2>1. ASSUME stack' # << >> PROVE Len(stack') \in 1 .. Len(stack')
    BY ONLY <1>4, <2>1
  <2>2. ASSUME stack' # << >> PROVE Top'.todo = <<"handlers">>
    BY <1>4, <2>1, <2>2, SMTT(60) DEF SInv, StackInv, Top
  <2> QED
    BY <2>1, <2>2, Zenon
<1>7. StackInv'
  <2>1. ASSUME NEW i \in 1 .. Len(stack')
        PROVE  /\ stack'[i].todo \in Plans
               /\ i < Len(stack') => stack'[i].todo = <<"handlers">>
               /\ stack'[i].todo \in {<<"handlers">>, << >>} => stack'[i].msg \in Range(delivered')
               /\ cause'[stack'[i].msg] = IF i = 1 THEN NoMessage ELSE stack'[i - 1].msg
    <3>1. i # 1 => i - 1 \in 1 .. Len(stack')
      BY ONLY <1>3, <1>4
    <3>2. /\ stack'[i] = stack[i] /\ i \in 1 .. Len(stack) /\ i < Len(stack)
          /\ i # 1 => stack'[i - 1] = stack[i - 1]
      BY <1>4, <2>1, <3>1, Zenon
    <3>3. cause' = cause /\ delivered' = delivered
      BY <1>1, Zenon
    <3> QED
      BY <3>2, <3>3, Zenon DEF SInv, StackInv
  <2>2. ASSUME NEW i \in 1 .. Len(seen')
        PROVE  \/ seen'[i] \in Range(delivered')
               \/ \E j \in 1 .. Len(stack') : stack'[j].msg = seen'[i]
    <3>1. \/ seen[i] \in Range(delivered)
          \/ \E j \in 1 .. Len(stack) : stack[j].msg = seen[i]
      BY <1>1, <2>2, Zenon DEF SInv, StackInv
    <3>2. \A j \in 1 .. Len(stack) : j = Len(stack) \/ j \in 1 .. Len(stack')
      BY ONLY <1>3, <1>4
    <3> QED
      BY <1>1, <1>4, <1>5, <3>1, <3>2, Zenon DEF Top
  <2> QED
    BY <2>1, <2>2, Zenon DEF StackInv
<1>8. ~InTap /\ ~InTap'
  BY <1>1, <1>6, PlanFacts, Zenon DEF InTap
<1>9. CaptureInv'
  BY <1>1, <1>2, <1>8, Zenon DEF SInv, CaptureInv
<1>10. AuditInv'
  BY <1>1, <1>2, <1>4, Zenon DEF SInv, AuditInv
<1>11. CallerInv'
  <2>1. << >> # <<"submit", "fanout">> /\ <<"handlers">> # <<"submit", "fanout">>
    BY Zenon
  <2> QED
    BY <1>1, <1>2, <1>6, <2>1, Zenon DEF SInv, CallerInv
<1>12. CauseInv' /\ ReasonInv'
  BY <1>1, <1>2, SessionFrame, Zenon DEF SInv, signalVars
<1>13. PhaseInv'
  BY <1>1, <1>2, Zenon DEF SInv, PhaseInv, signalVars
<1>14. SessionTypeOK'
  <2>1. Len(stack') <= MaxDepth
    BY ONLY <1>3, <1>4, SessionAssumption DEF SessionAssumption
  <2> QED
    BY <1>1, <1>4, <2>1, Zenon DEF SInv, IInv, SessionTypeOK, signalVars
<1> QED
  BY <1>7, <1>9, <1>10, <1>11, <1>12, <1>13, <1>14, Zenon DEF SInv

\* The types of the signal's variables, as one fact.
SignalTypes ==
    /\ flag \in BOOLEAN
    /\ reason \in Reason \cup {"none"}
    /\ claim \in [thread : {"none", "engine", "writer"}, reason : Reason \cup {"none"}]
    /\ signals \in Seq(Reason)

\* The engine thread goes on inside the tap: nothing is accepted and nothing escapes.
LEMMA InsideTapInv ==
  ASSUME SInv, IInv', stack # << >>, Top.todo \notin Tapped, NEW t \in Plans \ Tapped, Continue(t),
         UNCHANGED <<phase, cause, delivered, adapterHalted, seen, accepted, owner>>,
         pc'[Engine] # "idle" => t = <<"submit", "fanout">> /\ pending'[Engine] = Top.msg,
         t = <<"submit", "fanout">> => ~adapterHalted /\ Top.msg \in Encodable,
         ReasonInv', SignalTypes', flag => flag'
  PROVE  SInv'
<1>1. t \notin {<<"handlers">>, << >>}
  BY PlanFacts, Zenon
<1>2. StackInv' /\ stack' \in Seq(Frames) /\ Len(stack') = Len(stack) /\ stack' # << >>
      /\ Top'.msg = Top.msg /\ Top'.todo = t
  BY <1>1, Advance, Zenon
<1>3. adapterHalted' \in BOOLEAN
  BY Zenon DEF SInv, SessionTypeOK
<1>4. CaptureInv'
  BY <1>1, <1>3, AdvanceCapture, Zenon
<1>5. AuditInv'
  BY AdvanceAudit, Zenon
<1>6. phase = "running"
  BY Zenon DEF SInv, PhaseInv
<1>7. CallerInv'
  BY <1>2, <1>6, Zenon DEF CallerInv
<1>8. CauseInv'
  BY SessionFrame, Zenon DEF SInv
<1>9. PhaseInv'
  BY <1>2, <1>6, Zenon DEF SInv, PhaseInv
<1>10. SessionTypeOK'
  BY <1>2, Zenon DEF SInv, IInv, SessionTypeOK, SignalTypes
<1> QED
  BY <1>2, <1>4, <1>5, <1>7, <1>8, <1>9, <1>10, Zenon DEF SInv

\* The tap hands its draft to submit(), or is refused at once.
LEMMA TapSubmitsInv ==
  ASSUME SInv, IInv', TapSubmits
  PROVE  SInv'
<1> USE SessionAssumption DEF SessionAssumption
<1>1. /\ InStep("tap") /\ ~adapterHalted /\ Top.msg \in Encodable
      /\ UNCHANGED <<phase, cause, delivered, adapterHalted, seen, signalVars>>
  BY Zenon DEF TapSubmits
<1>2. "tap" \in Step /\ "stalled" \in Step /\ "submit" \in Step
  BY Zenon DEF Step
<1>3. stack # << >> /\ Top.todo = <<"tap", "fanout">>
  BY <1>1, <1>2, PlanOfStep, Zenon
<1>4. Top.todo \notin Tapped
  BY <1>3, PlanFacts, Zenon
<1>5. ReasonInv' /\ SignalTypes' /\ (flag => flag')
  BY <1>1, Zenon DEF SInv, ReasonInv, SessionTypeOK, SignalTypes, signalVars
<1>6. <<"tap", "fanout">> # <<"submit", "fanout">> /\ <<"stalled", "fanout">> # <<"submit", "fanout">>
  BY Zenon
<1>7. CASE ReplaceStep("stalled") /\ UNCHANGED vars
  <2>1. Continue(<<"stalled", "fanout">>)
    BY <1>1, <1>2, <1>7, NextPlan, Zenon
  <2>2. UNCHANGED <<accepted, owner, pc, pending>>
    BY <1>7, Zenon DEF vars
  <2>3. pc[Engine] = "idle"
    BY <1>3, <1>6, Zenon DEF SInv, CallerInv, PhaseInv
  <2>4. <<"stalled", "fanout">> \in Plans \ Tapped
    BY PlanFacts, Zenon
  <2>5. /\ UNCHANGED <<phase, cause, delivered, adapterHalted, seen, accepted, owner>>
        /\ ~(pc'[Engine] # "idle") /\ <<"stalled", "fanout">> # <<"submit", "fanout">>
    BY <1>1, <1>6, <2>2, <2>3, Zenon
  <2> QED
    BY <1>3, <1>4, <1>5, <2>1, <2>4, <2>5, InsideTapInv, Zenon
<1>8. CASE ReplaceStep("submit") /\ Submit(Engine, Top.msg)
  <2>1. Continue(<<"submit", "fanout">>)
    BY <1>1, <1>2, <1>8, NextPlan, Zenon
  <2>2. UNCHANGED <<accepted, owner>> /\ pending' = [pending EXCEPT ![Engine] = Top.msg]
    BY <1>8, WriterLeaves, Zenon DEF Submit
  <2>3. pending'[Engine] = Top.msg
    BY <2>2, Zenon DEF SInv, IInv, TypeOK
  <2>4. <<"submit", "fanout">> \in Plans \ Tapped
    BY PlanFacts, Zenon
  <2>5. UNCHANGED <<phase, cause, delivered, adapterHalted, seen, accepted, owner>>
    BY <1>1, <2>2, Zenon
  <2> QED
    BY <1>1, <1>3, <1>4, <1>5, <2>1, <2>3, <2>4, <2>5, InsideTapInv, Zenon
<1> QED
  BY <1>7, <1>8, Zenon DEF TapSubmits

\* submit() fails: the tap goes on to fail_stop, or the run fails to open.
LEMMA SubmitFailsInv ==
  ASSUME SInv, IInv', SubmitClosed \/ SubmitHalted
  PROVE  SInv'
<1> USE SessionAssumption DEF SessionAssumption
<1>1. /\ UNCHANGED <<cause, delivered, adapterHalted, seen>>
      /\ UNCHANGED <<accepted, owner>>
      /\ pc[Engine] # "idle"
      /\ pc' = [pc EXCEPT ![Engine] = "idle"]
  BY WriterLeaves, Zenon DEF SubmitClosed, SubmitHalted, SendDisconnected, FireStallHalt
<1>2. pc'[Engine] = "idle"
  BY <1>1, Zenon DEF SInv, IInv, TypeOK
<1>3. ReasonInv' /\ SignalTypes' /\ (flag => flag')
  <2>1. CASE SubmitClosed
    <3>1. UNCHANGED signalVars
      BY <2>1, Zenon DEF SubmitClosed
    <3> QED
      BY <3>1, Zenon DEF SInv, ReasonInv, SessionTypeOK, SignalTypes, signalVars
  <2>2. CASE SubmitHalted
    <3>1. Callback("engine", "BackpressureStall") /\ "BackpressureStall" \in Reason
      BY <2>2, Zenon DEF SubmitHalted, Reason
    <3> QED
      BY <3>1, CallbackInv, Zenon DEF SignalTypes
  <2> QED
    BY <2>1, <2>2, Zenon
<1>4. CASE phase = "submitting"
  <2>1. phase' = "failed" /\ UNCHANGED stack
    BY <1>4, Zenon DEF SubmitClosed, SubmitHalted
  <2>2. StackInv' /\ CaptureInv' /\ AuditInv' /\ CauseInv'
    BY <1>1, <2>1, SessionFrame, Zenon DEF SInv
  <2>3. stack = << >> /\ owner = "open"
    BY <1>4, Zenon DEF SInv, PhaseInv
  <2>4. CallerInv' /\ PhaseInv'
    BY <1>1, <1>2, <1>3, <2>1, <2>3, Zenon DEF SInv, CallerInv, PhaseInv
  <2>5. SessionTypeOK'
    BY <1>1, <1>3, <2>1, Zenon DEF SInv, IInv, SessionTypeOK, SignalTypes
  <2> QED
    BY <1>3, <2>2, <2>4, <2>5, Zenon DEF SInv
<1>5. CASE phase # "submitting"
  <2>1. /\ stack # << >>
        /\ Top.todo = <<"submit", "fanout">>
    BY <1>1, <1>5, Zenon DEF SInv, CallerInv
  <2>2. Top.todo \notin Tapped
    BY <2>1, PlanFacts, Zenon
  <2>3. InStep("submit") /\ "submit" \in Step
    BY ONLY <2>1 DEF InStep, Step
  <2>4. PICK s \in {"closed", "stalled"} : ReplaceStep(s) /\ UNCHANGED phase
    BY <1>5, Zenon DEF SubmitClosed, SubmitHalted
  <2>5. s \in Step
    BY Zenon DEF Step
  <2>6. Continue(<<s, "fanout">>)
    BY <2>3, <2>4, <2>5, NextPlan, Zenon
  <2>7. <<s, "fanout">> \in Plans \ Tapped
    BY PlanFacts, Zenon
  <2>8. <<s, "fanout">> # <<"submit", "fanout">>
    BY Zenon
  <2> QED
    BY <1>1, <1>2, <1>3, <2>1, <2>2, <2>4, <2>6, <2>7, <2>8, InsideTapInv, Zenon
<1> QED
  BY <1>4, <1>5, Zenon

\* fail_stop: the adapter halts and the signal is up before the handlers run.
LEMMA FailStopInv ==
  ASSUME SInv, IInv', FailStop
  PROVE  SInv'
<1>1. PICK s \in {"stalled", "closed"} : InStep(s)
  BY Zenon DEF FailStop
<1>2. s \in Step
  BY Zenon DEF Step
<1>3. stack # << >> /\ Top.todo = <<s, "fanout">>
  BY <1>1, <1>2, PlanOfStep, Zenon
<1>4. /\ UNCHANGED <<vars, phase, cause, delivered, seen>>
      /\ adapterHalted' = TRUE
      /\ Continue(<<"fanout">>)
  BY <1>1, <1>2, NextPlan, Zenon DEF FailStop
<1>5. UNCHANGED <<pc, pending, accepted, owner>>
  BY <1>4, Zenon DEF vars
<1>6. ReasonInv' /\ SignalTypes' /\ flag'
  <2>1. adapterHalted = TRUE \/ adapterHalted = FALSE
    BY Zenon DEF SInv, SessionTypeOK
  <2>2. CASE adapterHalted = TRUE
    <3>1. UNCHANGED signalVars
      BY <2>2, Zenon DEF FailStop
    <3>2. flag
      BY <2>2, Zenon DEF SInv, PhaseInv
    <3> QED
      BY <3>1, <3>2, Zenon DEF SInv, ReasonInv, SessionTypeOK, SignalTypes, signalVars
  <2>3. CASE adapterHalted = FALSE
    <3>1. Callback("engine", HaltReasonFromSubmit(Head(Top.todo)))
      BY <2>3, Zenon DEF FailStop
    <3>2. HaltReasonFromSubmit(Head(Top.todo)) \in Reason
      BY Zenon DEF HaltReasonFromSubmit, Reason
    <3> QED
      BY <3>1, <3>2, CallbackInv, Zenon DEF SignalTypes
  <2> QED
    BY <2>1, <2>2, <2>3, Zenon
<1>7. <<"fanout">> \notin {<<"handlers">>, << >>} /\ <<"fanout">> # <<"submit", "fanout">>
      /\ <<s, "fanout">> # <<"submit", "fanout">>
  BY Zenon
<1>8. StackInv' /\ stack' \in Seq(Frames) /\ Len(stack') = Len(stack) /\ stack' # << >>
      /\ Top'.msg = Top.msg /\ Top'.todo = <<"fanout">>
  BY <1>3, <1>4, <1>7, PlanFacts, Advance, Zenon
<1>9. adapterHalted' \in BOOLEAN
  BY <1>4, Zenon
<1>10. CaptureInv'
  BY <1>3, <1>4, <1>5, <1>7, <1>9, PlanFacts, AdvanceCapture, Zenon
<1>11. AuditInv'
  BY <1>3, <1>4, <1>5, PlanFacts, AdvanceAudit, Zenon
<1>12. phase = "running"
  BY <1>3, Zenon DEF SInv, PhaseInv
<1>13. CallerInv'
  BY <1>3, <1>4, <1>5, <1>7, <1>8, <1>12, Zenon DEF SInv, CallerInv
<1>14. CauseInv'
  BY <1>4, <1>5, SessionFrame, Zenon DEF SInv
<1>15. PhaseInv'
  BY <1>4, <1>5, <1>6, <1>8, <1>12, Zenon DEF SInv, PhaseInv
<1>16. SessionTypeOK'
  BY <1>4, <1>6, <1>8, <1>9, Zenon DEF SInv, IInv, SessionTypeOK, SignalTypes
<1> QED
  BY <1>6, <1>8, <1>10, <1>11, <1>13, <1>14, <1>15, <1>16, Zenon DEF SInv

\* submit() returns Ok: RunStarted opens the log, and after that the message the tap
\* was called with is the one the log lacks.
LEMMA SubmitOkInv ==
  ASSUME SInv, IInv', SubmitOk
  PROVE  SInv'
<1>1. /\ UNCHANGED <<cause, delivered, adapterHalted, seen, signalVars>>
      /\ pc[Engine] = "sending"
      /\ accepted' = Append(accepted, pending[Engine])
      /\ pc' = [pc EXCEPT ![Engine] = "idle"]
      /\ owner' = owner
  BY Zenon DEF SubmitOk, TrySend
<1>2. pc'[Engine] = "idle" /\ accepted \in Seq(Draft) /\ Len(accepted) \in Nat
  BY <1>1 DEF SInv, IInv, TypeOK
<1>3. ReasonInv' /\ SignalTypes' /\ (flag => flag')
  BY <1>1, Zenon DEF SInv, ReasonInv, SessionTypeOK, SignalTypes, signalVars
<1>4. CASE phase = "submitting"
  <2>1. phase' = "waiting" /\ UNCHANGED stack
    BY <1>4, Zenon DEF SubmitOk
  <2>2. stack = << >> /\ owner = "open" /\ accepted = << >> /\ seen = << >>
    BY <1>4, Zenon DEF SInv, PhaseInv, CaptureInv
  <2>3. pending[Engine] = RunStarted
    BY <1>1, <1>4, Zenon DEF SInv, CallerInv
  <2>4. accepted' = <<RunStarted>>
    BY ONLY <1>1, <2>2, <2>3
  <2>5. accepted' # << >> /\ accepted'[1] = RunStarted /\ Len(accepted') = 1
    BY <2>4, Zenon
  <2>6. StackInv'
    BY <1>1, <2>1, SessionFrame, Zenon DEF SInv
  <2>7. CaptureInv'
    BY ONLY <1>1, <2>1, <2>2, <2>5 DEF CaptureInv, InTap
  <2>8. AuditInv'
    <3>1. Range(accepted) = {}
      BY ONLY <2>2 DEF Range
    <3> QED
      BY <1>1, <2>1, <2>2, <3>1, Zenon DEF SInv, AuditInv
  <2>9. CauseInv'
    BY ONLY <2>5 DEF CauseInv
  <2>10. CallerInv' /\ PhaseInv'
    BY <1>1, <1>2, <1>3, <2>1, <2>2, <2>5, Zenon DEF SInv, CallerInv, PhaseInv
  <2>11. SessionTypeOK'
    BY <1>1, <1>3, <2>1, Zenon DEF SInv, IInv, SessionTypeOK, SignalTypes
  <2> QED
    BY <1>3, <2>6, <2>7, <2>8, <2>9, <2>10, <2>11, Zenon DEF SInv
<1>5. CASE phase # "submitting"
  <2>1. /\ phase = "running" /\ stack # << >>
        /\ Top.todo = <<"submit", "fanout">>
        /\ pending[Engine] = Top.msg
        /\ ~adapterHalted /\ Top.msg \in Encodable
    BY <1>1, <1>5, Zenon DEF SInv, CallerInv
  <2>2. InStep("submit") /\ "submit" \in Step
    BY ONLY <2>1 DEF InStep, Step
  <2>3. Continue(<<"fanout">>) /\ UNCHANGED phase
    BY <1>5, <2>2, NextPlan, Zenon DEF SubmitOk
  <2>4. <<"fanout">> \notin {<<"handlers">>, << >>} /\ <<"fanout">> # <<"submit", "fanout">>
    BY Zenon
  <2>5. StackInv' /\ stack' \in Seq(Frames) /\ Len(stack') = Len(stack) /\ stack' # << >>
        /\ Top'.msg = Top.msg /\ Top'.todo = <<"fanout">>
    <3>1. <<"fanout">> \in Plans
      BY PlanFacts, Zenon
    <3>2. UNCHANGED <<cause, seen>> /\ Range(delivered) \subseteq Range(delivered')
      BY <1>1, Zenon
    <3> QED
      BY <2>1, <2>3, <2>4, <3>1, <3>2, Advance, Zenon
  <2>6. /\ Len(accepted') = Len(accepted) + 1
        /\ accepted'[Len(accepted) + 1] = Top.msg
        /\ \A i \in 1 .. Len(accepted) : accepted'[i] = accepted[i]
        /\ accepted' # << >>
    BY ONLY <1>1, <1>2, <2>1
  <2>7. Top.msg \in Draft /\ Range(accepted') = Range(accepted) \cup {Top.msg}
    <3>1. Top.msg \in Draft
      BY <2>1, SessionAssumption, Zenon DEF SessionAssumption
    <3>2. accepted' = Append(accepted, Top.msg)
      BY <1>1, <2>1, Zenon
    <3>3. Range(Append(accepted, Top.msg)) = Range(accepted) \cup {Top.msg}
      BY ONLY <1>2, <3>1, RangeAppend, SMTT(60)
    <3> QED
      BY <3>1, <3>2, <3>3, ZenonT(60)
  <2>8. accepted # << >> /\ Len(accepted) >= 1
    BY <1>2, <2>1 DEF SInv, PhaseInv
  <2>9. InTap /\ ~InTap'
    BY <2>1, <2>5, PlanFacts, Zenon DEF InTap
  <2>10. CaptureInv'
    <3>1. /\ accepted[1] = RunStarted
          /\ Len(accepted) - 1 = Len(seen) - 1
          /\ \A i \in 1 .. Len(accepted) - 1 : accepted[i + 1] = seen[i]
          /\ seen # << >> /\ seen[Len(seen)] = Top.msg
      BY <2>1, <2>8, <2>9, Zenon DEF SInv, CaptureInv
    <3>2. seen \in Seq(Encodable) /\ Len(seen) \in Nat
      BY DEF SInv, SessionTypeOK
    <3>3. Len(accepted) = Len(seen)
      BY ONLY <1>2, <3>1, <3>2
    <3>4. accepted'[1] = RunStarted
      BY ONLY <2>6, <2>8, <3>1, <1>2
    <3>5. Len(accepted') - 1 = Len(seen)
      BY ONLY <1>2, <2>6, <3>3
    <3>6. \A i \in 1 .. Len(accepted') - 1 : accepted'[i + 1] = seen[i]
      <4> TAKE i \in 1 .. Len(accepted') - 1
      <4>1. CASE i \in 1 .. Len(accepted) - 1
        <5>1. i + 1 \in 1 .. Len(accepted)
          BY ONLY <1>2, <4>1
        <5> QED
          BY <2>6, <3>1, <4>1, <5>1, Zenon
      <4>2. CASE i = Len(accepted)
        BY <2>6, <3>1, <3>3, <4>2, Zenon
      <4> QED
        BY ONLY <1>2, <2>6, <2>8, <4>1, <4>2
    <3> QED
      BY ONLY <1>1, <2>6, <2>9, <3>2, <3>4, <3>5, <3>6, SMTT(60) DEF CaptureInv
  <2>11. AuditInv'
    BY <1>1, <2>1, <2>3, <2>7, PlanFacts, AdvanceAudit, Zenon
  <2>12. CauseInv'
    <3> SUFFICES ASSUME NEW i \in 2 .. Len(accepted'), cause'[accepted'[i]] \in Encodable
                 PROVE  \E j \in 1 .. i - 1 : accepted'[j] = cause'[accepted'[i]]
      BY Zenon DEF CauseInv
    <3>1. CASE i \in 2 .. Len(accepted)
      <4>1. i \in 1 .. Len(accepted) /\ accepted'[i] = accepted[i]
        BY ONLY <1>2, <2>6, <3>1
      <4>2. \E j \in 1 .. i - 1 : accepted[j] = cause[accepted[i]]
        BY <1>1, <3>1, <4>1, Zenon DEF SInv, CauseInv
      <4>3. \A j \in 1 .. i - 1 : j \in 1 .. Len(accepted)
        BY ONLY <1>2, <3>1
      <4> QED
        BY <1>1, <2>6, <4>1, <4>2, <4>3, Zenon
    <3>2. CASE i = Len(accepted) + 1
      <4>1. accepted'[i] = Top.msg /\ cause[Top.msg] \in Encodable
        BY <1>1, <2>6, <3>2, Zenon
      <4>2. stack \in Seq(Frames) /\ Len(stack) \in Nat /\ Len(stack) \in 1 .. Len(stack)
        BY <2>1 DEF SInv, SessionTypeOK
      <4>3. cause[Top.msg] = IF Len(stack) = 1 THEN NoMessage ELSE stack[Len(stack) - 1].msg
        BY <4>2, Zenon DEF SInv, StackInv, Top
      <4>4. Len(stack) # 1 /\ cause[Top.msg] = stack[Len(stack) - 1].msg
        BY <4>1, <4>3, SessionAssumption, Zenon DEF SessionAssumption
      <4>5. Len(stack) - 1 \in 1 .. Len(stack) /\ Len(stack) - 1 < Len(stack)
        <5>1. Len(stack) \in Nat \ {0, 1}
          BY ONLY <2>1, <4>2, <4>4
        <5>2. \A n \in Nat \ {0, 1} : n - 1 \in 1 .. n /\ n - 1 < n
          OBVIOUS
        <5> QED
          BY <5>1, <5>2, Zenon
      <4>6. stack[Len(stack) - 1].todo \in Tapped
        BY <4>5, PlanFacts, Zenon DEF SInv, StackInv
      <4>7. stack[Len(stack) - 1].msg \in Range(accepted)
        BY <2>1, <4>1, <4>4, <4>5, <4>6, Zenon DEF SInv, AuditInv
      <4>8. PICK j \in 1 .. Len(accepted) : accepted[j] = cause[Top.msg]
        BY ONLY <1>2, <4>4, <4>7, RangeIndex
      <4>9. j \in 1 .. i - 1 /\ accepted'[j] = accepted[j]
        BY ONLY <1>2, <2>6, <3>2
      <4> QED
        BY <1>1, <4>1, <4>8, <4>9, Zenon
    <3> QED
      BY ONLY <1>2, <2>6, <3>1, <3>2
  <2>13. CallerInv'
    BY <1>2, <2>4, <2>5, Zenon DEF CallerInv
  <2>14. PhaseInv'
    BY <1>1, <1>3, <2>1, <2>3, <2>5, <2>6, Zenon DEF SInv, PhaseInv
  <2>15. SessionTypeOK'
    BY <1>1, <1>3, <2>3, <2>5, Zenon DEF SInv, IInv, SessionTypeOK, SignalTypes
  <2> QED
    BY <1>3, <2>5, <2>10, <2>11, <2>12, <2>13, <2>14, <2>15, Zenon DEF SInv
<1> QED
  BY <1>4, <1>5, Zenon

\* No step of the session breaks the invariant.
LEMMA SessionNextInv == SInv /\ [SessionNext]_allVars => SInv'
<1> SUFFICES ASSUME SInv, [SessionNext]_allVars PROVE SInv'
  BY Zenon
<1>1. CASE UNCHANGED allVars
  <2>1. UNCHANGED <<vars, sessionVars>>
    BY <1>1, Zenon DEF allVars
  <2>2. IInv'
    BY <2>1, NextIInv, Zenon DEF SInv
  <2> QED
    BY <2>1, <2>2, SessionFrame, Zenon DEF SInv, IInv, vars, sessionVars
<1>2. CASE SessionNext
  <2>1. IInv'
    BY <1>2, SessionStepIsWriterStep, NextIInv, Zenon DEF SInv
  <2>2. CASE Opening
    BY <2>1, <2>2, WriterOnlyInv, PhaseStepInv, Zenon DEF Opening
  <2>3. CASE Submitting
    BY <2>1, <2>3, WriterOnlyInv, SubmitOkInv, SubmitFailsInv, Zenon DEF Submitting
  <2>4. CASE Tapping
    BY <2>1, <2>4, FanoutInv, TapSubmitsInv, FailStopInv, Zenon DEF Tapping
  <2>5. CASE \E m \in Message : Dispatch(m)
    BY <2>1, <2>5, DispatchInv, Zenon
  <2>6. CASE Fanout \/ HandlersDone \/ Return
    BY <2>1, <2>6, FanoutInv, ReturnInv, Zenon
  <2>7. CASE Seal \/ OwnerWaits \/ WriterServes \/ WriterFails \/ StoreReason
    BY <2>1, <2>7, PhaseStepInv, WriterOnlyInv, SignalInv, Zenon
  <2>8. CASE SessionOver
    BY <1>1, <2>8, Zenon DEF SessionOver
  <2> QED
    BY <1>2, <2>2, <2>3, <2>4, <2>5, <2>6, <2>7, <2>8, Zenon DEF SessionNext
<1> QED
  BY <1>1, <1>2, Zenon

\* Every reachable state of a session satisfies the inductive invariant.
LEMMA SessionSInv == SessionSpec => []SInv
  BY SessionInitInv, SessionNextInv, PTL DEF SessionSpec

\* The session only uses its writer as any submitter and owner may: what is proved of
\* every behaviour of EventStoreWriter holds of the writer inside a session.
THEOREM SessionImplementsWriter == SessionSpec => Init /\ [][Next]_vars
<1>1. SessionInit => Init
  BY Zenon DEF SessionInit
<1>2. [SessionNext]_allVars => [Next]_vars
  BY SessionStepIsWriterStep, Zenon DEF allVars
<1> QED
  BY <1>1, <1>2, PTL DEF SessionSpec

\* The log has no hole, for any number of messages nested to any depth: after
\* RunStarted, submit() has accepted a prefix of the encodable messages in the order
\* their dispatch began, however submit() and the writer thread fail.
THEOREM SessionCapturedPrefix == SessionSpec => []CapturedPrefix
<1>1. SInv => CapturedPrefix
  <2> SUFFICES ASSUME SInv, accepted # << >>
               PROVE  /\ Head(accepted) = RunStarted
                      /\ \E n \in 0 .. Len(seen) : Tail(accepted) = SubSeq(seen, 1, n)
    BY Zenon DEF CapturedPrefix
  <2> DEFINE n == Len(accepted) - 1
             S == Draft \cup Encodable
  <2>1. accepted \in Seq(Draft) /\ seen \in Seq(Encodable)
    BY Zenon DEF SInv, IInv, TypeOK, SessionTypeOK
  <2>2. /\ accepted[1] = RunStarted
        /\ n <= Len(seen)
        /\ \A i \in 1 .. n : accepted[i + 1] = seen[i]
    BY Zenon DEF SInv, CaptureInv
  <2>3. Head(accepted) = RunStarted
    BY ONLY <2>1, <2>2
  <2>4. Len(seen) \in Nat /\ Len(accepted) \in Nat /\ n \in Nat
    BY <2>1
  <2>5. /\ Tail(accepted) \in Seq(S)
        /\ Len(Tail(accepted)) = n
        /\ \A i \in 1 .. n : Tail(accepted)[i] = accepted[i + 1]
    BY <2>1
  <2>6. /\ SubSeq(seen, 1, n) \in Seq(S)
        /\ Len(SubSeq(seen, 1, n)) = n
        /\ \A i \in 1 .. n : SubSeq(seen, 1, n)[i] = seen[i]
    <3>1. \A i \in 1 .. n : seen[i] \in S
      BY ONLY <2>1, <2>2, <2>4
    <3>2. /\ SubSeq(seen, 1, n) \in Seq(S)
          /\ Len(SubSeq(seen, 1, n)) = IF 1 <= n THEN n - 1 + 1 ELSE 0
          /\ \A i \in 1 .. n - 1 + 1 : SubSeq(seen, 1, n)[i] = seen[1 + i - 1]
      BY ONLY <2>4, <3>1
    <3>3. \A k \in Nat : /\ (IF 1 <= k THEN k - 1 + 1 ELSE 0) = k
                         /\ \A i \in 1 .. k : i \in 1 .. k - 1 + 1 /\ 1 + i - 1 = i
      OBVIOUS
    <3> HIDE DEF n, S
    <3> QED
      BY <2>4, <3>2, <3>3, Zenon
  <2> HIDE DEF n, S
  <2>7. Tail(accepted) = SubSeq(seen, 1, n)
    <3>1. \A i \in 1 .. n : Tail(accepted)[i] = SubSeq(seen, 1, n)[i]
      BY <2>2, <2>5, <2>6, Zenon
    <3> QED
      BY ONLY <2>5, <2>6, <3>1
  <2>8. n \in 0 .. Len(seen)
    BY ONLY <2>2, <2>4
  <2> QED
    BY <2>3, <2>7, <2>8, Zenon
<1> QED
  BY <1>1, SessionSInv, PTL

\* Fail-stop coupling: when handlers see an encodable message, submit() has accepted
\* it or the halt flag is up, so nothing is acted on unaudited in a healthy session.
THEOREM SessionUnauditedOnlyAfterHalt == SessionSpec => []UnauditedOnlyAfterHalt
<1>1. SInv => UnauditedOnlyAfterHalt
  BY Zenon DEF SInv, AuditInv, PhaseInv, UnauditedOnlyAfterHalt
<1> QED
  BY <1>1, SessionSInv, PTL

\* Causal order of the table, and so of every crash image: a durable message that a
\* handler dispatched is preceded by the message that handler was handling.
THEOREM SessionCauseBeforeEffect == SessionSpec => []CauseBeforeEffect
<1>1. SInv => CauseBeforeEffect
  <2> SUFFICES ASSUME SInv, NEW i \in DOMAIN durable, durable[i].draft \in Message,
                      cause[durable[i].draft] \in Encodable
               PROVE  \E j \in 1 .. i - 1 : durable[j].draft = cause[durable[i].draft]
    BY Zenon DEF CauseBeforeEffect
  <2>1. /\ durable \in Seq(Entry) /\ accepted \in Seq(Draft)
        /\ Len(durable) \in Nat /\ Len(accepted) \in Nat
    BY DEF SInv, IInv, TypeOK
  <2>2. DOMAIN durable = 1 .. Len(durable)
    BY ONLY <2>1
  <2>3. i \in 1 .. Len(accepted) /\ durable[i].draft = accepted[i]
    <3>1. \/ i <= Len(accepted) /\ durable[i].draft = accepted[i]
          \/ durable[i].draft = RunEnded
      BY Zenon DEF SInv, IInv, DurablePrefix
    <3> QED
      BY <2>1, <2>2, <3>1, SessionAssumption DEF SessionAssumption
  <2>4. i # 1
    <3>1. accepted # << >>
      BY ONLY <2>1, <2>3
    <3>2. accepted[1] = RunStarted
      BY <3>1, Zenon DEF SInv, CaptureInv
    <3> QED
      BY <2>3, <3>2, SessionAssumption, Zenon DEF SessionAssumption
  <2>5. i \in 2 .. Len(accepted)
    BY ONLY <2>1, <2>3, <2>4
  <2>6. PICK j \in 1 .. i - 1 : accepted[j] = cause[accepted[i]]
    BY <2>3, <2>5, Zenon DEF SInv, CauseInv
  <2>7. j \in DOMAIN durable /\ j # Len(accepted) + 1
    BY ONLY <2>1, <2>2, <2>5
  <2>8. durable[j].draft = accepted[j]
    BY <2>7, Zenon DEF SInv, IInv, DurablePrefix
  <2> QED
    BY <2>3, <2>6, <2>8, Zenon
<1> QED
  BY <1>1, SessionSInv, PTL

\* A run that seal() has marked Ended holds every encodable message its handlers saw.
THEOREM SessionSealedRunIsComplete == SessionSpec => []SealedRunIsComplete
<1>1. SInv => SealedRunIsComplete
  <2> SUFFICES ASSUME SInv, status = "Ended", NEW m \in Range(delivered) \cap Encodable
               PROVE  \E i \in DOMAIN durable : durable[i].draft = m
    BY Zenon DEF SealedRunIsComplete
  <2>1. /\ durable \in Seq(Entry) /\ accepted \in Seq(Draft)
        /\ Len(durable) \in Nat /\ Len(accepted) \in Nat
    BY DEF SInv, IInv, TypeOK
  <2>2. owner \in {"awaiting", "closed"} /\ Len(durable) = Len(accepted) + 1
    BY Zenon DEF SInv, IInv, CloseInv, Left
  <2>3. m \in Range(accepted)
    BY <2>2, Zenon DEF SInv, PhaseInv, AuditInv
  <2>4. PICK i \in 1 .. Len(accepted) : accepted[i] = m
    BY <2>1, <2>3, RangeIndex, Zenon
  <2>5. i \in DOMAIN durable /\ i # Len(accepted) + 1
    BY ONLY <2>1, <2>2
  <2>6. durable[i].draft = accepted[i]
    BY <2>5, Zenon DEF SInv, IInv, DurablePrefix
  <2> QED
    BY <2>4, <2>5, <2>6, Zenon
<1> QED
  BY <1>1, SessionSInv, PTL

\* The reason check_halt reads, once there is one, is that of the first invocation of
\* the callback, whichever of the two threads made it.
THEOREM SessionFirstReasonWins ==
    SessionSpec => [](reason # "none" => flag /\ signals # << >> /\ reason = signals[1])
<1>1. SInv => (reason # "none" => flag /\ signals # << >> /\ reason = signals[1])
  BY Zenon DEF SInv, ReasonInv
<1> QED
  BY <1>1, SessionSInv, PTL
=============================================================================
