--------------------------- MODULE WebSocketClient ---------------------------
(***************************************************************************)
(* The reconnecting WebSocket client of                                    *)
(* crates/network/src/websocket/client.rs, in handler mode: callers of     *)
(* send_text, the write task, the read task, the controller task and a     *)
(* caller of disconnect share an atomic connection mode, an AuthTracker    *)
(* and the writer's command channel.                                       *)
(*                                                                         *)
(* A step ends at every await and at every load of the mode that a later   *)
(* store depends on.  Notifications only shorten waits and are left out,   *)
(* as are heartbeats, which are messages nobody waits for.  A session is   *)
(* one connection to the server, numbered in order.                        *)
(***************************************************************************)
EXTENDS Naturals, Sequences, Functions

CONSTANTS
    Messages,                         \* each sent by a call of its own
    reconnect_max_attempts,
    reconnect_buffer_waits_for_auth,
    MaxSessions                       \* bound: connections made

ASSUME WebSocketAssumption ==
    /\ reconnect_max_attempts \in Nat \ {0} /\ MaxSessions \in Nat \ {0}
    /\ reconnect_buffer_waits_for_auth \in BOOLEAN
    /\ Messages \cap Nat = {}

VARIABLES
    connection_mode,
    auth,         \* state of the AuthTracker
    writer_rx,    \* the writer's channel: messages, and sessions to switch to
    writer,       \* the write task
    read_task,    \* the session being read, 0 when the task has finished
    controller,   \* the controller task
    calls,        \* what each call of send_text is doing, or its result
    closing,      \* what the call of disconnect is doing
    made,         \* sessions the server has accepted
    up,           \* sessions whose connection has not broken
    authed,       \* sessions the server has authenticated
    sent,         \* messages written, with the session and whether replayed
    discarded     \* messages dropped because authentication failed

netVars == <<made, up, authed>>
vars == <<connection_mode, auth, writer_rx, writer, read_task, controller, calls, closing,
          made, up, authed, sent, discarded>>

Mode     == {"Active", "Reconnect", "Disconnect", "Closed"}
Terminal == {"Disconnect", "Closed"}
Session  == 1 .. MaxSessions

Writer ==
    [pc : {"top", "drain", "recv", "send", "done"}, session : Session,
     reconnect_buffer : Seq(Messages), msg : SUBSET Messages]

ControllerState ==
    [pc : {"poll", "attempt", "connect", "confirm", "swap", "shutdown", "end", "drop", "done"},
     attempts : 0 .. reconnect_max_attempts, session : 0 .. MaxSessions]

TypeOK ==
    /\ connection_mode \in Mode
    /\ auth \in {"Unauthenticated", "Authenticated", "Failed"}
    /\ writer_rx \in Seq(Messages \cup Session)
    /\ writer \in Writer
    /\ read_task \in 0 .. MaxSessions
    /\ controller \in ControllerState
    /\ calls \in [Messages -> {"start", "wait", "enqueue", "ok", "closed", "timeout", "broken"}]
    /\ closing \in {"idle", "waiting", "returned"}
    /\ made \in Session
    /\ up \subseteq Session /\ authed \subseteq Session
    /\ sent \subseteq Messages \X Session \X BOOLEAN
    /\ discarded \subseteq Messages

Init ==
    /\ connection_mode = "Active" /\ auth = "Unauthenticated"
    /\ writer_rx = << >>
    /\ writer = [pc |-> "top", session |-> 1, reconnect_buffer |-> << >>, msg |-> {}]
    /\ read_task = 1
    /\ controller = [pc |-> "poll", attempts |-> 0, session |-> 0]
    /\ calls = [m \in Messages |-> "start"] /\ closing = "idle"
    /\ made = 1 /\ up = {1} /\ authed = {}
    /\ sent = {} /\ discarded = {}

-----------------------------------------------------------------------------
(* send_text, send_bytes.  The wait for the rate limiter is RateLimiter's. *)

CallUnchanged ==
    UNCHANGED <<connection_mode, auth, writer, read_task, controller, closing, netVars, sent, discarded>>

Call(m, from, to) == calls[m] = from /\ calls' = [calls EXCEPT ![m] = to]

check_not_terminal(m) ==
    /\ Call(m, "start", IF connection_mode \in Terminal THEN "closed" ELSE "wait")
    /\ UNCHANGED writer_rx
    /\ CallUnchanged

(* The call sees the mode change or its reconnect_timeout passes. *)
wait_for_active(m) ==
    /\ \/ connection_mode = "Active" /\ Call(m, "wait", "enqueue")
       \/ connection_mode \in Terminal /\ Call(m, "wait", "closed")
       \/ connection_mode = "Reconnect" /\ Call(m, "wait", "timeout")
    /\ UNCHANGED writer_rx
    /\ CallUnchanged

enqueue(m) ==
    /\ Call(m, "enqueue", IF writer.pc = "done" THEN "broken" ELSE "ok")
    /\ writer_rx' = IF writer.pc = "done" THEN writer_rx ELSE Append(writer_rx, m)
    /\ CallUnchanged

-----------------------------------------------------------------------------
(* The write task: spawn_write_task. *)

WriterUnchanged == UNCHANGED <<read_task, calls, closing, netVars>>

can_drain_reconnect_buffer ==
    IF ~reconnect_buffer_waits_for_auth THEN "Drain"
    ELSE CASE auth = "Authenticated" -> "Drain"
           [] auth = "Failed" -> "Discard"
           [] auth = "Unauthenticated" -> "Wait"

(* Mutant: the buffer is kept for ever. *)
write_top_NoReplay ==
    /\ writer.pc = "top"
    /\ writer' = IF connection_mode \in Terminal
                 THEN [writer EXCEPT !.pc = "done", !.reconnect_buffer = << >>]
                 ELSE [writer EXCEPT !.pc = "recv"]
    /\ UNCHANGED <<connection_mode, auth, writer_rx, controller, sent, discarded>>
    /\ WriterUnchanged

(* Top of the loop: exit, replay or discard the buffer, or wait for a command. *)
write_top ==
    /\ writer.pc = "top"
    /\ LET replay == connection_mode = "Active" /\ writer.reconnect_buffer # << >>
       IN  \/ /\ connection_mode \in Terminal
              /\ writer' = [writer EXCEPT !.pc = "done", !.reconnect_buffer = << >>]
              /\ UNCHANGED discarded
           \/ /\ replay /\ can_drain_reconnect_buffer = "Drain"
              /\ writer' = [writer EXCEPT !.pc = "drain"]
              /\ UNCHANGED discarded
           \/ /\ replay /\ can_drain_reconnect_buffer = "Discard"
              /\ discarded' = discarded \cup Range(writer.reconnect_buffer)
              /\ writer' = [writer EXCEPT !.reconnect_buffer = << >>]
           \/ /\ connection_mode \notin Terminal
              /\ ~replay \/ can_drain_reconnect_buffer = "Wait"
              /\ writer' = [writer EXCEPT !.pc = "recv"]
              /\ UNCHANGED discarded
    /\ UNCHANGED <<connection_mode, auth, writer_rx, controller, sent>>
    /\ WriterUnchanged

(* A send that fails, on a broken connection, makes the writer ask for a new *)
(* one: the store is unconditional.                                          *)
trigger_reconnect ==
    /\ writer.session \notin up
    /\ auth' = "Unauthenticated"
    /\ connection_mode' = "Reconnect"
    /\ UNCHANGED sent

wrote(m, replay) ==
    /\ sent' = sent \cup {<<m, writer.session, replay>>}
    /\ UNCHANGED <<auth, connection_mode>>

drain_reconnect_buffer ==
    /\ writer.pc = "drain"
    /\ \/ /\ writer.reconnect_buffer = << >>
          /\ writer' = [writer EXCEPT !.pc = "top"]
          /\ UNCHANGED <<auth, connection_mode, sent>>
       \/ /\ writer.reconnect_buffer # << >>
          /\ wrote(Head(writer.reconnect_buffer), TRUE)
          /\ writer' = [writer EXCEPT !.reconnect_buffer = Tail(@)]
       \/ /\ writer.reconnect_buffer # << >>
          /\ trigger_reconnect
          /\ writer' = [writer EXCEPT !.pc = "top"]
    /\ UNCHANGED <<writer_rx, controller, discarded>>
    /\ WriterUnchanged

(* The command is Update: the writer switches sockets and tells the          *)
(* controller, if it is still waiting for this session.                      *)
writer_update(s) ==
    /\ writer' = [writer EXCEPT !.pc = "top", !.session = s]
    /\ controller' = IF controller.pc = "confirm" /\ controller.session = s
                     THEN [controller EXCEPT !.pc = "swap"] ELSE controller

writer_recv ==
    /\ writer.pc = "recv" /\ writer_rx # << >>
    /\ writer_rx' = Tail(writer_rx)
    /\ LET cmd == Head(writer_rx)
       IN  \/ /\ connection_mode \in Terminal
              /\ writer' = [writer EXCEPT !.pc = "done"]
              /\ UNCHANGED controller
           \/ connection_mode \notin Terminal /\ cmd \in Session /\ writer_update(cmd)
           \/ /\ connection_mode = "Reconnect" /\ cmd \in Messages
              /\ writer' = [writer EXCEPT !.pc = "top", !.reconnect_buffer = Append(@, cmd)]
              /\ UNCHANGED controller
           \/ /\ connection_mode = "Active" /\ cmd \in Messages
              /\ writer' = [writer EXCEPT !.pc = "send", !.msg = {cmd}]
              /\ UNCHANGED controller
    /\ UNCHANGED <<connection_mode, auth, sent, discarded>>
    /\ WriterUnchanged

writer_timeout ==
    /\ writer.pc = "recv"
    /\ writer' = [writer EXCEPT !.pc = "top"]
    /\ UNCHANGED <<connection_mode, auth, writer_rx, controller, sent, discarded>>
    /\ WriterUnchanged

(* Mutant: the message whose send failed is not kept. *)
writer_send_Drops ==
    /\ writer.pc = "send"
    /\ \E m \in writer.msg :
          \/ wrote(m, FALSE) /\ writer' = [writer EXCEPT !.pc = "top", !.msg = {}]
          \/ trigger_reconnect /\ writer' = [writer EXCEPT !.pc = "top", !.msg = {}]
    /\ UNCHANGED <<writer_rx, controller, discarded>>
    /\ WriterUnchanged

writer_send ==
    /\ writer.pc = "send"
    /\ \E m \in writer.msg :
          \/ wrote(m, FALSE) /\ writer' = [writer EXCEPT !.pc = "top", !.msg = {}]
          \/ /\ trigger_reconnect
             /\ writer' = [writer EXCEPT !.pc = "top", !.msg = {},
                                         !.reconnect_buffer = Append(@, m)]
    /\ UNCHANGED <<writer_rx, controller, discarded>>
    /\ WriterUnchanged

-----------------------------------------------------------------------------
(* The read task ends when the mode is not Active, its connection breaks or *)
(* it has been idle too long.                                               *)
read_task_ends ==
    /\ read_task # 0
    /\ connection_mode # "Active" \/ read_task \notin up \/ made < MaxSessions
    /\ read_task' = 0
    /\ UNCHANGED <<connection_mode, auth, writer_rx, writer, controller, calls, closing, netVars,
                   sent, discarded>>

-----------------------------------------------------------------------------
(* The controller task: spawn_controller_task and reconnect. *)

ControllerUnchanged == UNCHANGED <<calls, closing, authed, sent, discarded>>

is_alive == read_task # 0 /\ writer.pc # "done"

goto(pc) == controller' = [controller EXCEPT !.pc = pc]

(* Mutant: the authentication of the dead session is kept. *)
controller_poll_KeepsAuth ==
    /\ controller.pc = "poll"
    /\ \/ connection_mode = "Disconnect" /\ goto("shutdown") /\ UNCHANGED <<connection_mode, auth>>
       \/ connection_mode = "Closed" /\ goto("end") /\ UNCHANGED <<connection_mode, auth>>
       \/ connection_mode = "Reconnect" /\ goto("attempt") /\ UNCHANGED <<connection_mode, auth>>
       \/ /\ connection_mode = "Active" /\ ~is_alive
          /\ connection_mode' = "Reconnect" /\ UNCHANGED auth
          /\ goto("attempt")
    /\ UNCHANGED <<writer_rx, writer, read_task, made, up>>
    /\ ControllerUnchanged

(* The change to Reconnect is a compare and exchange; it and invalidate are *)
(* one step, the mode keeping the writer from replaying in between.         *)
controller_poll ==
    /\ controller.pc = "poll"
    /\ \/ connection_mode = "Disconnect" /\ goto("shutdown") /\ UNCHANGED <<connection_mode, auth>>
       \/ connection_mode = "Closed" /\ goto("end") /\ UNCHANGED <<connection_mode, auth>>
       \/ connection_mode = "Reconnect" /\ goto("attempt") /\ UNCHANGED <<connection_mode, auth>>
       \/ /\ connection_mode = "Active" /\ ~is_alive
          /\ connection_mode' = "Reconnect" /\ auth' = "Unauthenticated"
          /\ goto("attempt")
    /\ UNCHANGED <<writer_rx, writer, read_task, made, up>>
    /\ ControllerUnchanged

(* reconnect returned Ok, having reconnected or seen the disconnect. *)
reconnect_ok ==
    controller' = [pc |-> "poll", attempts |-> 0, session |-> 0]

reconnect_err ==
    controller' = [controller EXCEPT !.pc = "poll", !.session = 0]

reconnect_attempt ==
    /\ controller.pc = "attempt"
    /\ \/ /\ controller.attempts >= reconnect_max_attempts
          /\ connection_mode' = "Closed"
          /\ goto("end")
       \/ /\ controller.attempts < reconnect_max_attempts
          /\ \/ connection_mode = "Disconnect" /\ reconnect_ok
             \/ /\ connection_mode # "Disconnect"
                /\ controller' = [controller EXCEPT !.pc = "connect", !.attempts = @ + 1]
          /\ UNCHANGED connection_mode
    /\ UNCHANGED <<auth, writer_rx, writer, read_task, made, up>>
    /\ ControllerUnchanged

(* A new connection is handed to the writer, unless it has gone. *)
connect_with_server ==
    /\ controller.pc = "connect" /\ made < MaxSessions
    /\ made' = made + 1 /\ up' = up \cup {made + 1}
    /\ \/ connection_mode = "Disconnect" /\ reconnect_ok /\ UNCHANGED writer_rx
       \/ /\ connection_mode # "Disconnect" /\ writer.pc = "done"
          /\ reconnect_err /\ UNCHANGED writer_rx
       \/ /\ connection_mode # "Disconnect" /\ writer.pc # "done"
          /\ writer_rx' = Append(writer_rx, made + 1)
          /\ controller' = [controller EXCEPT !.pc = "confirm", !.session = made + 1]
    /\ UNCHANGED <<connection_mode, auth, writer, read_task>>
    /\ ControllerUnchanged

(* The attempt fails or times out, at any of its awaits, or a disconnect    *)
(* interrupts it.                                                           *)
reconnect_fails ==
    /\ controller.pc \in {"connect", "confirm", "swap"}
    /\ reconnect_err
    /\ UNCHANGED <<connection_mode, auth, writer_rx, writer, read_task, made, up>>
    /\ ControllerUnchanged

(* Mutant: the controller does not wait for the writer to switch sockets. *)
reconnect_swap_Early ==
    /\ controller.pc \in {"confirm", "swap"}
    /\ reconnect_ok
    /\ \/ /\ connection_mode = "Reconnect"
          /\ connection_mode' = "Active" /\ read_task' = controller.session
       \/ connection_mode # "Reconnect" /\ UNCHANGED connection_mode /\ read_task' = 0
    /\ UNCHANGED <<auth, writer_rx, writer, made, up>>
    /\ ControllerUnchanged

(* After the writer confirmed: the old read task goes, and a compare and    *)
(* exchange decides whether the client becomes Active.                      *)
reconnect_swap ==
    /\ controller.pc = "swap"
    /\ reconnect_ok
    /\ \/ /\ connection_mode = "Reconnect"
          /\ connection_mode' = "Active" /\ read_task' = controller.session
       \/ connection_mode # "Reconnect" /\ UNCHANGED connection_mode /\ read_task' = 0
    /\ UNCHANGED <<auth, writer_rx, writer, made, up>>
    /\ ControllerUnchanged

controller_shutdown ==
    /\ controller.pc = "shutdown"
    /\ read_task' = 0
    /\ goto("end")
    /\ UNCHANGED <<connection_mode, auth, writer_rx, writer, made, up>>
    /\ ControllerUnchanged

controller_end ==
    /\ controller.pc = "end"
    /\ connection_mode' = "Closed"
    /\ goto("drop")
    /\ UNCHANGED <<auth, writer_rx, writer, read_task, made, up>>
    /\ ControllerUnchanged

(* The controller task owns the others and aborts them when it is dropped. *)
clean_drop ==
    /\ read_task' = 0
    /\ writer' = [writer EXCEPT !.pc = "done", !.reconnect_buffer = << >>, !.msg = {}]
    /\ goto("done")

controller_drop ==
    /\ controller.pc = "drop"
    /\ clean_drop
    /\ UNCHANGED <<connection_mode, auth, writer_rx, made, up>>
    /\ ControllerUnchanged

-----------------------------------------------------------------------------
(* disconnect: waits for the controller, or gives up and aborts it. *)

disconnect ==
    /\ closing = "idle"
    /\ connection_mode' = "Disconnect"
    /\ closing' = "waiting"
    /\ UNCHANGED <<auth, writer_rx, writer, read_task, controller, calls, netVars, sent, discarded>>

disconnect_returns ==
    /\ closing = "waiting"
    /\ \/ /\ controller.pc = "done"
          /\ UNCHANGED <<connection_mode, writer, read_task, controller>>
       \/ controller.pc # "done" /\ clean_drop /\ connection_mode' = "Closed"
    /\ closing' = "returned"
    /\ UNCHANGED <<auth, writer_rx, calls, netVars, sent, discarded>>

-----------------------------------------------------------------------------
(* The server and the adapter (external). *)

(* A connection breaks, but for the last one the bound allows. *)
ConnectionBreaks ==
    /\ made < MaxSessions
    /\ \E s \in up : up' = up \ {s}
    /\ UNCHANGED <<connection_mode, auth, writer_rx, writer, read_task, controller, calls, closing,
                   made, authed, sent, discarded>>

(* The server answers the request for authentication that the adapter makes *)
(* for every session: AuthTracker::succeed and fail.                        *)
AuthAnswered ==
    /\ connection_mode = "Active" /\ read_task \in up /\ auth = "Unauthenticated"
    /\ \/ auth' = "Authenticated" /\ authed' = authed \cup {read_task}
       \/ auth' = "Failed" /\ UNCHANGED authed
    /\ UNCHANGED <<connection_mode, writer_rx, writer, read_task, controller, calls, closing, made, up,
                   sent, discarded>>

-----------------------------------------------------------------------------
Calls == \E m \in Messages : check_not_terminal(m) \/ wait_for_active(m) \/ enqueue(m)

WriteTask ==
    \/ write_top \/ drain_reconnect_buffer
    \/ writer_recv \/ writer_timeout
    \/ writer_send

ReconnectStep == reconnect_attempt \/ connect_with_server \/ reconnect_swap

Controller ==
    \/ controller_poll
    \/ ReconnectStep \/ reconnect_fails
    \/ controller_shutdown \/ controller_end \/ controller_drop

Next ==
    \/ Calls \/ WriteTask \/ read_task_ends \/ Controller
    \/ disconnect \/ disconnect_returns
    \/ ConnectionBreaks \/ AuthAnswered

Spec == Init /\ [][Next]_vars

(* The runtime polls every task that can go on, a connection that is broken *)
(* is noticed, and every request for authentication is answered.            *)
FairSpec ==
    /\ Spec
    /\ WF_vars(write_top) /\ WF_vars(drain_reconnect_buffer) /\ WF_vars(writer_send)
    /\ SF_vars(writer_recv) /\ WF_vars(writer_timeout)
    /\ WF_vars(read_task_ends /\ (connection_mode # "Active" \/ read_task \notin up))
    /\ WF_vars(Controller) /\ WF_vars(AuthAnswered)

-----------------------------------------------------------------------------
(* Properties. *)

(* While the client is Active it reads from and writes to the same session. *)
(* A writer that lagged behind the controller would answer on a socket the  *)
(* server has forgotten.                                                    *)
SocketsAgree ==
    connection_mode = "Active" /\ read_task # 0 => writer.session = read_task

(* A message whose send returned Ok has been written or is still held, in   *)
(* the channel, by the writer or in its buffer, through any number of       *)
(* reconnections, until the client disconnects or gives up.                 *)
Held == Range(writer_rx) \cup writer.msg \cup Range(writer.reconnect_buffer)

Written == {w[1] : w \in sent}

Ended == closing # "idle" \/ connection_mode = "Closed" \/ controller.pc \in {"end", "drop", "done"}

NothingLost ==
    \A m \in Messages : calls[m] = "ok" => m \in Held \cup Written \cup discarded \/ Ended

(* set_auth_tracker: with reconnect_buffer_waits_for_auth, what was buffered *)
(* is replayed only on a session the server has authenticated.              *)
ReplayWaitsForAuth ==
    reconnect_buffer_waits_for_auth => \A w \in sent : w[3] => w[2] \in authed

(* A message whose send returned Ok is written in the end, unless the client *)
(* is disconnected, gives up or its credentials are refused.                *)
AcceptedIsWritten ==
    \A m \in Messages : calls[m] = "ok" ~> m \in Written \cup discarded \/ Ended

-----------------------------------------------------------------------------
(* Statements of the code that it does not keep. *)

(* ConnectionMode::Disconnect: "No further reconnection attempts will be    *)
(* made".                                                                   *)
DisconnectIsFinal ==
    [][(connection_mode \in Terminal) => (connection_mode' \in Terminal)]_vars
=============================================================================
