# A TLA+ verification project for Stocky (NautilusTrader)

Stocky is an algorithmic trading platform: the NautilusTrader Rust crates (about a million lines,
of which half are adapters, one per venue), their Python packages, and two EMA strategies of the
repository's own. This directory holds TLA+ modules for the parts of it that concurrency, crashes
and unreliable messages make hard to test, the TLC runs that check them on small instances, and
proofs, checked by TLAPS, for instances of any size.

`PROJECT.json` is the index: every component, every run, the source lines behind every
definition, the hazards, the findings and the theorems.

    tlc -config <run>.cfg <Module>        # one run
    tlapm <Module>Proofs.tla              # the proofs of a module

## 1. The system

| Part | Where | What it holds | Here |
|---|---|---|---|
| Event store writer | `crates/event_store/src/writer` | bounded channel, batching thread, halt | modelled, proved |
| Capture adapter, bus tap | `crates/event_store/src/capture`, `crates/common/src/msgbus` | tap before handlers, fail-stop | control modelled, proved |
| Kernel session | `crates/system/src/event_store.rs` | boot sweep, open, seal, HaltSignal | modelled, proved |
| redb backend | `crates/event_store/src/backend/redb.rs` | run files, manifests, rows | state changes modelled |
| Reader, verifier, memory backend, wire | `crates/event_store/src` | read-only scans; encoding | reader planned |
| Order state machine | `crates/model/src/orders/mod.rs` | `OrderStatus::transition`, `OrderCore::apply` | modelled, proved |
| Execution engine | `crates/execution/src/engine` | `handle_event`, fills, positions | NETTING path modelled, proved |
| Position | `crates/model/src/position.rs` | signed quantity, recorded fills | quantities modelled, proved |
| Cache | `crates/common/src/cache` | order buckets, objects | buckets modelled, proved |
| Strategy commands | `crates/trading/src/strategy` | submit, modify, cancel | three commands modelled |
| Risk engine | `crates/risk` | pre-trade checks, throttles | outcomes modelled |
| Order emulator, order manager | `crates/execution/src/order_emulator`, `order_manager` | local triggers, contingencies | planned |
| Matching engine (Rust) | `crates/execution/src/matching_engine`, `matching_core` | the simulated venue | planned |
| Live manager, node | `crates/live` | the running loop, in-flight and open order checks | continuous checks modelled, proved |
| Order reconciliation | `crates/execution/src/reconciliation` | events inferred from status reports | order reports modelled, proved |
| Rate limiter | `crates/network/src/ratelimiter` | one atomic cell per key, waiting callers | modelled, proved |
| WebSocket client | `crates/network/src/websocket` | connection mode, reconnection, replay, authentication | handler mode modelled, proved |
| Throttler, clocks; raw socket and HTTP clients | `crates/common`, `crates/network` | windows, buffers, timers | planned |
| EMA strategy | `strategies/ema_cross_rr.py` | entry, stop, trailing stop, reversal | modelled without partial fills, ratchet proved |
| Its simulated exchange | `nautilus_trader/backtest/engine.pyx` | market and stop orders, reduce-only checks | what the strategy uses |
| EMA strategy with background analysis | `strategies/ai_ema_cross.py` | a thread that calls a service | planned |
| Backtest engine, execution algorithms, component lifecycle | `crates/backtest`, `crates/trading`, `crates/common` | stream merge; TWAP; states | planned in part |
| Portfolio, indicators, analysis | `crates/portfolio`, ... | numerical computation | left out |
| Data types, order books | `crates/model` | values, fixed point | one operator |
| Persistence, serialization, infrastructure | ... | input, output, encoding | left out |
| Venue adapters | `crates/adapters` | one client per venue | external |
| Other Python and Cython packages | `nautilus_trader` | bindings, the older implementation | left out |

Four chains of interaction are modelled.

*The audit log.* Every dispatch on the message bus first calls the tap. The capture adapter turns
the message into a draft and submits it to the writer, whose thread batches drafts and commits
them to the run's file. The kernel opens a run after it has swept up runs that earlier processes
left behind, and seals it on a graceful stop. When the log cannot keep up or the disk fails, a
callback sets the HaltSignal.

*The order's life.* A strategy submits, modifies and cancels; the venue answers with events; the
engine applies each event to the order, refreshes the cache's buckets and updates the position.
Events may be repeated, late or lost, and fills race requests. In a live node a loop also watches
the order: it tracks each request, queries the venue when no answer comes, asks for open orders from
time to time, and infers the events it has missed.

*The connection.* Adapters send through a WebSocket client whose tasks reconnect, wait for the new
session's authentication and replay what was sent meanwhile. Before a request they wait for
the rate limiter, whose cells are shared by all threads.

*The strategy.* `ema_cross_rr.py` enters on a crossing of two averages, places a stop, moves it with
the price, and reverses on the next crossing, against the simulated exchange.

## 2. Modules

| Module | Role |
|---|---|
| `DurableLog` | abstract: what the event store promises about one run |
| `EventStoreWriter` | the writer: submitting threads, the batching thread, the owner |
| `EventStoreWriterProofs` | the writer's inductive invariant and the theorems from it; that a halt is final; that the writer implements `DurableLog` |
| `EventStoreSession` | composes the writer with the bus, the adapter, the HaltSignal and the kernel's open and seal |
| `EventStoreSessionProofs` | that the session is a writer with one submitter, its own invariant and the theorems from both |
| `RunLifecycle` | run files over many processes: boot, sweep, open, seal, crash, damage |
| `RunLifecycleProofs` | its invariant and theorems |
| `OrderCore` | the order: transition table, quantities, `apply` (no variables) |
| `ExecutionEngine` | strategy, engine, cache buckets, position, venue and event stream |
| `ExecutionEngineProofs` | its invariants and theorems: orders and buckets, the ledgers of fills, catching up with the venue |
| `LiveExecution` | the live node's loop and ExecutionManager over one `OrderCore` order, and a lossy venue |
| `LiveExecutionProofs` | its invariant, and the theorems about maintenance and reconciled fills |
| `RateLimiter`, `MCRateLimiter` | callers racing on rate-limit cells; quotas for TLC |
| `WebSocketClient` | callers, the write, read and controller tasks, disconnect, and the server |
| `NetworkProofs` | the invariants and theorems of the rate limiter and the websocket client |
| `EmaCrossRR` | the EMA strategy, its orders and position in the cache, and the simulated exchange |
| `EmaCrossRRProofs` | its invariants, that the stop only ratchets, and what the strategy's own methods put on their way |
| `EmaProtectedProofs` | what deliveries and the venue do with it, and that a position has its one stop |

An operator named `X_Suffix` above an operator `X` is a variant of it with a plausible slip (a
dropped guard, a missing reset). It is used only to confirm that a property notices the slip.

### EventStoreWriter

| Code | Model |
|---|---|
| `EventStoreWriter::submit` (`writer/mod.rs`) | `Submit`, then `TrySend` until the channel has room, `SendDisconnected`, or `Stall` and `FireStallHalt` |
| the crossbeam channel | `chan`, of length at most `ChannelCapacity` |
| the thread's loop (`writer/batcher.rs`) | `bpc`; `RecvEntry`, `RecvClose`, `RecvTimeout`, `RecvDisconnected` |
| `flush` | `FlushCommit` (the transaction), then `FlushPublish` (the mirror of the high-watermark), or `FlushFail` |
| the seal at close | `SealOk`, `SealFail`; then `Exit` |
| `close` and `Drop` | `CloseStart`, `CloseSend`, `CloseSendFail`, `CloseReturn`; `DropStart`, `DropReturn` |

Reading the halted flag, trying to send and setting the flag are separate steps, because other
threads run between them. A commit and the store to the mirror are separate for the same reason.
`accepted` and `fired` are history variables: what the channel took, and the calls of the halt
callback. Entry contents, hashes and index rows are abstracted to a draft and a sequence number.
A crash needs no action here: whatever `durable` and `status` are at some moment is what a crash
at that moment leaves.

### EventStoreSession

EXTENDS the writer with one submitter, the engine's thread. `stack` is the nest of dispatches in
progress; each frame is tapped, fanned out to handlers (which may dispatch again, to `MaxDepth`),
and returned. The tap runs `capture_any`: an unencodable message is skipped, another is submitted,
and an error reaches `fail_stop`. The HaltSignal's callback is two steps, as in the code: the flag
is swapped, then the reason is stored. Open submits `RunStarted` and waits for it; the tap is
installed only after that. Both an unregistered type and a failing encoder are "not `Encodable`".
`seen`, `delivered`, `cause` and `signals` are history variables: the encodable messages the tap was
called with, the messages handlers have had, which message each was dispatched from, and the
invocations of the callback.

### RunLifecycle

A file is a manifest status, a sequence of rows, a parent and possible damage. Each action is one
transaction of redb or one decision of the kernel between two, and `Crash` may come after any of
them. `Boot` lists the runs, `SweepOne` reopens, scans and seals one unsealed run in start order,
`CreateFile` and `InitializeFresh` are the two steps of opening a file, `CommitRunStarted`,
`CommitEntry`, `CommitRunEnded` and `SealManifest` the run's own commits. `Started`/`StartFails`
are the bounded wait of open, `SealSkips` and `CloseFails` the ways a graceful stop leaves a run
unsealed. The writer is here only by what it commits, which `EventStoreWriter` justifies: rows
appear in order, and `RunEnded` only after all that was accepted.

### OrderCore and ExecutionEngine

`OrderCore` has `transition` (the whole table, as the event types each status admits), `applied`
(`OrderCore::apply` with its fill, update and refusal branches), and `apply_error` (when `apply`
returns an error). `ExecutionEngine!handle_event` is the engine's handler for one event: skipped
(an exact duplicate or an overfill that is not allowed), applied, refused (the order rejects the
transition, and the event is still handed to the position and published), or dropped. Every one
of its calls that changes state is in the one action: `update_order` with the refresh of the
buckets, and `handle_order_fill` with the opening, update, closing or flipping of the position.

The strategy's `modify_order` and `cancel_order` mark the order pending before the command leaves.
The venue is external. It accepts, rejects, triggers, fills, cancels, expires, updates and refuses
as its own state allows. With `Reliable` its events arrive in order and once; without, an
event goes to `archive` instead, from which it may arrive at any time, any number of times, or never.

### LiveExecution

| Code | Model |
|---|---|
| `LiveNode::run`, exec_cmd and exec_evt branches (`live/src/node.rs`) | `handle_exec_command`, `handle_exec_event` |
| `register_inflight`, `clear_recon_tracking`, `observe_execution_report` (`live/src/manager.rs`) | operators of the same names, on `tracking`, `retries`, `recent` |
| `check_inflight_orders` | one action: a retry with a query, or `inflight_resolution` at the limit |
| `check_open_orders` | `query_open_orders` or `query_open_orders_fails`, then `finish_open_check` once the awaited answer is there: `reconcile_open_order` or `handle_missing_order` |
| `generate_reconciliation_order_events`, `reconcile_order_report`, `reconcile_fill_quantity_mismatch` (`reconciliation/orders.rs`) | operators of the same names, from an order and a report to events |

The loop is one task: while it awaits the answer to an open order query it handles nothing else, but
the venue goes on and the channels fill. Every map of the manager is keyed by client order id and no
handler relates two orders, so there is one order. Thresholds are not counted: a timer has run
out or has not, and runs out at any time. With `Lossy`, any message to or from the venue may be lost.

### RateLimiter

`cell[k]` is the atomic of key `k`, its theoretical arrival time. A future of `await_keys_ready` reads
the clock and loads the cell (`load`), decides (`conforms`), and stores with a compare-and-swap that
may fail when another thread was faster (`compare_exchange`, `exchange_failed`), or sleeps
(`not_until`, `wake`) and asks again. `Tick` is the clock. `granted` is a history variable: the clock
readings on which cells were granted.

### WebSocketClient

The atomic connection mode is `connection_mode`. A step ends at every await and at every load of the
mode that a later store depends on. `writer_recv`, `writer_send`, `drain_reconnect_buffer`,
`write_top` are the write task between two awaits; `controller_poll`, `reconnect_attempt`,
`connect_with_server`, `reconnect_swap`, `reconnect_ok`, `reconnect_err`, `controller_shutdown` and
`controller_drop` the controller; `wait_for_active` and `enqueue` a call of `send_text`;
`disconnect` and `disconnect_returns` the call of that name. A connection may break at any time
(`ConnectionBreaks`), and the server authenticates or refuses each session (`AuthAnswered`). `made`,
`authed`, `sent` and `discarded` are history variables.

### EmaCrossRR

`strategy` holds the strategy's fields, `orders` and `net` the engine's cache. `on_bar` takes any
price and either average ahead, moves the stop (`trail`) and trades (`cross`) as one action, as the
handler does; `on_event` is called by `handle_event` after the cache has been updated. `commands` and
`events` are queues: in a backtest events are applied at once, with a latency model commands wait, and
in the sandbox events wait in the engine's queue. The exchange looks orders and the position
up in the cache, as the code does, also when its own last fill has not arrived there. `position` and
`overtaken` are history variables: the sum of its fills, and whether the strategy or the exchange
has decided something while what it looked at was out of date. Prices are integers in a unit smaller
than the instrument's `Tick`: `Price` rounds the triggers of orders, while the fields `trail_px` and
`sl_distance` keep what the code keeps.

## 3. Runs

Passing runs:

| Run | States | Shows |
|---|---|---|
| `writer` | 119,939 | the writer implements `DurableLog`: the run is always an unbroken prefix of the accepted drafts, and complete when sealed; nothing accepted is lost without a reported backend failure; `close` tells the truth; a halt is final; the high-watermark never passes the rows; `submit`, `close` and drop return; accepted drafts become durable or a failure is reported |
| `session` | 177,975 | captures have no holes, causes precede effects, a message goes uncaptured only after a halt, and then the run is never sealed as complete; open and seal return, a halt comes to have the first reason fired and keeps it, capture never keeps a message from its handlers |
| `lifecycle` | 140,767 | logs are well formed, sealed statuses are true and final, no old run is `Running` once boot has returned, lineage is right where recorded |
| `engine_orders` | 114,475 | one order under unreliable reports: quantities, the remembered status and the buckets stay right; only a late fill reopens a closed order |
| `engine_positions` | 240,201 | a buy and a sell: no fill counts twice, the position is the sum of the fills |
| `engine_reliable` | 358,135 | with events in order and once, an engine that has caught up agrees with the venue, and no order stays pending for ever |
| `live` | 2,233,824 | at the retry limit no order is forgotten while in flight; reconciling a report, late or fresh, never books more than the venue has filled |
| `live_fair` | 116,803 | with every event possibly lost, tracking ends, and an order that is filled, canceled or rejected at the venue comes to be closed in the cache |
| `rate_limiter` | 543,908 | grants fit the quota however the compare-and-swap loops interleave, a refusal means the quota is used up, and a waiter is let through |
| `websocket` | 95,900 | an active client reads and writes on one session; an accepted message is held until it is written, and is written; a replay waits for authentication |
| `ema` | 3,036,431 | when everything has arrived, a position has exactly its one stop at the trailed price, and no position has none; a stop is never replaced by one that is farther |

### Bounds

- *Writer.* Two submitters (races need two), two drafts, capacity 2, batches of 2, five
  submissions over a run that already has one entry: the channel fills and a submitter waits or
  stalls, a batch fills, one is left partial, and drafts remain in the channel at close. No
  symmetry is used, since liveness is checked on the same instance.
- *Session.* Three encodable messages and one that is not, nesting to depth 2, four submissions
  including `RunStarted`: a cause, its effect and a sibling.
- *Lifecycle.* Three runs, four boots, two rows: a recovered run, a run that records it, and one
  more; one boot beyond that to fail. The violation runs need only two runs and three boots.
- *Engine.* `engine_orders` has one order of quantity 2, which gives partial and complete fills,
  an update to 1 that fills can overtake, overfills, and two requests, so that an update and a
  cancel are pending together. `engine_positions` has a buy and a sell without requests, which
  close, reopen and flip the position. `engine_reliable` has one order of quantity 3 that is
  triggerable, updates below and above, and three requests.
- *Live.* `live` has an order of quantity 2, an update to 1, one request besides the submission, two
  retries of each check and three messages in the event channel: a fill event, a query's answer and an
  open order report can be under way together. `live_fair` has quantity 1 and no update, which
  keeps the graph small enough for its temporal properties; a cancel, a fill and an expiry still race.
- *Rate limiter.* Two callers with two calls each, on a slow key (a cell every two instants, burst 1) and
  a fast one, over four instants: both lose the compare-and-swap to each other, sleep and wake.
- *WebSocket.* One message and three sessions, with two attempts to reconnect: the message is sent,
  fails, is buffered, replayed, fails again and is replayed once more, and the client may give up.
  The proofs cover any number of messages and sessions.
- *EMA.* Prices 20, 30 and 40 with a tick of 10, stops a third of the entry price away, so that
  rounding changes them in both directions, and bars until five orders have been made: an entry, its
  stop, the stop moved twice, the trade closed and reversed, and the reversed trade's stop. With six
  the run also passes (19,476,927 states).

The bounds `MaxSubmits`, `MaxDepth`, `MaxRuns`, `MaxBoots`, `MaxRows`, `MaxRequests`,
`MaxBacklog`, `MaxCalls`, `Horizon`, `MaxSessions`, `MaxOrders` exist only to keep the instances
finite; the theorems hold for every value of them. Deadlock is not checked where the system may
come to rest: a trader may stay down, orders all end, callers stop calling, a client is closed, a
strategy is stopped. The writer and
the session have an explicit final state, so there deadlock is checked.

### Fairness

- *Writer* (`Fairness`): weak fairness of the batching thread, of each submitter inside `submit`,
  and of the owner inside `close` or drop. The operating system schedules threads, timers expire
  and a commit returns, with or without success. Nobody is obliged to call `submit` or `close`.
- *Session* (`SessionFairness`): the same, and for the engine's thread inside open, a tap, a
  dispatch or the seal. Handlers are assumed to return.
- *Engine* (`FairSpec`): weak fairness of delivery and of the venue's answers, per order. This is
  an assumption about the venue. What happens when the venue stays silent is in `LiveExecution`.
- *Live* (`FairSpec`): the loop handles what is queued and runs its checks, timers expire, and an open
  order query that is repeated for ever is answered again and again. Strong fairness, because the
  loop's select takes turns among branches that are ready only between two awaits. Nothing is
  assumed of the events: all of them may be lost.
- *Rate limiter* (`LimiterFairSpec`): time passes and woken tasks are scheduled.
- *WebSocket* (`FairSpec`): every task that can go on is polled, a broken connection is noticed, and
  authentication is answered. Strong fairness of `writer_recv`, because the select of the write task
  chooses at random between the channel and the timeout.

## 4. Where the code and its documentation differ

The run `websocket_disconnect` checks a sentence about the connection mode: "No further reconnection
attempts will be made" (`crates/network/src/mode.rs:37`). A write that fails while `disconnect` is called
stores `Reconnect` over `Disconnect` (`websocket/client.rs:1193`), and the controller connects again.

The following statements are kept as definitions with a configuration each, beside the runs of
`PROJECT.json`; `tlc -config <file> <Module>` finds the behaviour that contradicts them.

| Configuration, module | Statement | What happens |
|---|---|---|
| `EventStoreSessionDurable.cfg`, `EventStoreSession` | `event_store/README.md:57`: a message "is durably committed before its consumers see it" | handlers run once the channel has accepted a message, before it is durable |
| `RunLifecycleCreateCrash.cfg`, `RunLifecycle` | `event_store/README.md:260`: on boot the kernel "seals it as `crashed-recovered` (or quarantines it for inspection), and starts a new run" | a crash between the creation of a run file and its manifest makes every later boot fail |
| `RunLifecycleUndecodable.cfg`, `RunLifecycle` | `system/src/event_store.rs:586`: "otherwise as `RunStatus::Quarantined`" | a crashed run with an undecodable row fails the boot |
| `ExecutionEngineReplay.cfg`, `ExecutionEngine` | `docs/concepts/execution.md:510`: the check "avoids raising an error for benign exact replays" | a fill of an EXPIRED order is recorded by the position and not by the order; its replay panics in `Position::apply` |
| `ExecutionEngineOverfill.cfg`, `ExecutionEngine` | `docs/concepts/execution.md:488`: "applies the fill, and tracks the excess in `overfill_qty`" | an excess fill of a FILLED order is refused by the order and not tracked |
| `ExecutionEngineOpenBucket.cfg`, `ExecutionEngine` | `common/src/cache/mod.rs:4072`: "whether an order with the `client_order_id` is open" | an order refused back to SUBMITTED stays in the open bucket |
| `LiveExecutionAccount.cfg`, `LiveExecution` | `reconciliation/orders.rs:422`: "Order should have account_id for reconciliation" | a report of Accepted is reconciled before the Submitted event is handled, and the node panics |
| `LiveExecutionInflight.cfg`, `LiveExecution` | `docs/concepts/live.md:160`: an in-flight order "after `inflight_check_retries`, resolves to `REJECTED`" | a report that changes nothing, or an expiry the order refuses, ends the tracking, and the order stays in flight |

Smaller differences have no configuration of their own. They show in the models as follows.

- A stall and a later backend error both invoke the halt callback, which `writer/halt.rs:22` says
  is fired once: `fired` may have two members. The HaltSignal keeps the first (`HaltGetsReason`).
- After a halt the dispatches go on uncaptured (`TapSkips`, `FailStop`), where
  `event_store/README.md:179` says the kernel halts; `check_halt` has no caller in the crates.
  `UnauditedOnlyAfterHalt` and `SealedRunIsComplete` state what does hold.
- A crash after the sweep and before the next run opens loses the parent link, so
  `ParentIsNewestCrashed` speaks only of parents that are recorded.
- A run whose seal failed after `RunEnded` is later sealed `Ended`, not `CrashedRecovered` as the
  message at `system/src/event_store.rs:509` says; `StatusMatchesLog` states the rule the code has.
- An update the venue makes while a cancel is pending is refused by the transition table, and
  the old quantity stays: the exception of `CaughtUpAgrees`.
- `docs/how_to/configure_live_trading.md` describes a targeted query before an order is marked
  missing, and `CANCELED` for a missing PARTIALLY_FILLED order. `handle_missing_order` makes no
  query and generates a rejection, which a partly filled order refuses; and a bulk query that failed
  counts as one that found nothing (`query_open_orders_fails`).
- A fill that is both inferred from a report and delivered as an event counts twice, as
  `docs/concepts/execution.md:450` warns. `ReconciledFillsExist` is therefore about the reconciling
  steps, which never book more than the venue has filled.
- `ratelimiter/quota.rs:40` calls the burst size "the maximum number of cells that the rate
  limiter will ever allow through without replenishing them". After an idle time one more passes, because the arrival time may lie a
  whole burst ahead before a cell is refused; the first use of a key has one less. `QuotaRespected`
  and `RefusalJustified` state the exact limits.
- The README of the repository (line 55) says of the stop of the EMA strategy that it is placed
  "immediately after fill". There is none when a crossing overtakes an entry, whose id is then
  overwritten, or when the strategy is stopped while an entry is under way. In the sandbox, a bar
  that moves the stop and crosses submits a stop and then cancels all orders; the exchange does
  not see the new stop as open until its acceptance has passed through the engine's queue, and leaves
  it working after the position is gone. `Protected` holds outside these cases (`overtaken`), and TLC
  finds each of them when that condition is dropped.

## 5. Proofs

All theorems are for every value of the constants that satisfies the named `ASSUME` of the module
(a channel of positive capacity, special values that are not drafts, disjoint sides, and so on).
`EngineCaughtUpAgrees` alone has hypotheses of its own, which are those of its run: `Reliable` and
`~Overfills`.

Most leaves name the backend that proves them. `Zenon` takes those without arithmetic, which are the
most; a leaf without a pragma, or with `SMTT`, needs integers or sequences. Arithmetic is kept in
steps of its own for this reason. In the long proofs the lemmas only one theorem needs are steps of
its proof (`<1>MoveFlow`). Each module takes up to a quarter of an hour from nothing.

**Writer.** `DurablePrefix` is not inductive: it speaks of what is durable and what was accepted,
and the drafts between the two are in the batch and the channel. `IInv` adds `Pipeline`: durable
rows, batch and channel, in this order, are exactly the accepted drafts, numbered without a gap.
`ClosePipeline` says the same while the close message is in the channel or being served, `Left`
what may be missing once the thread is gone (only what a reported backend failure explains),
`TerminalEntry` where `RunEnded` may be, and `ThreadInv`, `CallInv`, `CloseInv`, `HwmInv` tie the
threads' positions to the data. There is one lemma per action. From `IInv` follow `WriterTypeOK`,
`WriterDurablePrefix`, `WriterAcceptedNotLost`, `WriterSealedComplete`, `WriterCloseResultHonest`.

`WriterHaltIsTerminal` needs a count: `HaltInv` says that after the halt the drafts accepted late and
the submitters still past the entry check are together fewer than the submitters, as the one that
stalled has left and nobody passes the check again. It assumes finitely many submitters
(`SubmitterAssumption`).

**Refinement.** `WriterImplementsDurableLog`: with `log` mapped to the drafts of the durable rows
and `state` to whether the manifest is sealed, every step of the writer is a step of `DurableLog`
or changes nothing of it. Only an accepted send, a commit and a seal are not stutters. `IInv` is
needed to see that a commit extends the log with the next accepted drafts.
`WriterHwmAnchorsDurableRows` is the action property about the mirror.

**Session.** `SessionImplementsWriter`: hiding the stack, the adapter and the HaltSignal, every step of
the session is a step of the writer with one submitter or changes nothing of it, so that `IInv` and all
theorems about the writer hold in the session. `SInv` is `IInv` and what only the session knows:
`PhaseInv` (how far open and seal have come), `StackInv` (what each frame of the nest has still to
do, and that a frame below the top is inside its handlers), `CallerInv` (which call of `submit` the
engine's thread is in), `CaptureInv` (while the adapter runs, the accepted drafts are `RunStarted` and
the messages `seen`, less the one being submitted), `AuditInv` (what was delivered is accepted, or the
halt flag is up), `CauseInv` and `ReasonInv`. `CapturedPrefix` then follows from
`CaptureInv`, and `CauseBeforeEffect`, which is about the durable rows, from `CauseInv` about the accepted
drafts and the writer's `DurablePrefix`: the rows are a prefix, so a crash cannot keep an effect and lose
its cause. `SessionSealedRunIsComplete` needs the writer's `SealedComplete` as well. Also
`SessionUnauditedOnlyAfterHalt` and `SessionFirstReasonWins`, the safety half of `HaltGetsReason`.

**Lifecycle.** `IInv` adds to the invariants: `SessionInv` (the open run is the newest file, and
how far its log has come at each phase), `SweepInv` (what is left of the sweep is exactly the
unsealed runs), `OrderInv` (a recovered run has only sealed ones before it), `ParentInv` and
`LineageInv`. From it: `LifecycleTypeOK`, `LifecycleWellFormedLog`, `LifecycleStatusMatchesLog`,
`LifecycleSweptBeforeOpen`, `LifecycleParentIsNewestCrashed`, and `LifecycleSealedRunsFinal`, an
action property.

**Engine.** Every step of `Next` leaves the orders alone or has one order take one event that
`apply` admits (`NextIsOrdersStep`). The invariants about orders and buckets are then proved
once, for that step: `EngineInv` is `TypeOK`, `OrdersSound` (leaves, overfill, trade ids, and the
remembered status of each order) and `BucketsCoverOrders`. From it: `EngineTypeOK`,
`EngineQuantitiesExact`, `EnginePendingCanBeRestored`, `EngineBucketsCoverOrders`,
`EngineClosedReopensOnlyByFill`. They hold for reliable and unreliable streams alike.

*Ledgers.* Sums are counted: `SumOf(f)` is the number of units, pairs of an element and a number up to
its value, so that facts about finite sets replace induction. `LedgerInv` says that an order's filled
quantity is the sum of its recorded fills, and that all fills the venue has emitted, recorded or still
to come, are apart: a trade id is the total after the fill, so that a fill covers the units up to it,
and two fills are the same or cover none in common (`FillsApart`). They fit into what the
venue has filled, whence `EngineNeverOvercounts`. `PositionInv` says of the position that, unless an
order refused a fill that the position took, its signed quantity is what the buys have filled less what
the sells have (`NetGrows` for one fill), and that it has recorded the same trades as the orders, without
which a fill could be counted by one and skipped by the other. From it `EnginePositionIsSumOfFills`. Both
are for any finite set of orders and any duplication, loss and reordering.

*Catching up.* `CaughtUpAgrees` speaks only of empty streams. `CatchUpInv` speaks of all: the order at
the venue has a history, with one move for each event still in the stream (`Moves`, `Replays`), whose
first member the order in the cache agrees with (`Agrees`), in quantities and in status, up to a request
of the strategy that is pending (`Placing`). The transition table admits each move, whatever the
strategy has marked meanwhile (`MoveAdmitted`, `StageRestored`), so that a delivery takes the first
member off and a step of the venue adds a last one. With an empty stream the history is the venue's
order itself.

**Live execution.** `MaintenanceNeverAbandons` is an action property that rests on the transition table:
each in-flight status admits the event maintenance resolves it with (`ResolutionSettles`).
`ReconciledFillsExist` needs `ReportsTrue`: no report in the event channel, among the answers, or awaited
by the loop counts more than the venue has filled by now. It is inductive since the venue's filled
quantity never goes down, although reports are overtaken and lost. `ReportYields` follows the events a
report is turned into: at most three, and only the last is a fill, for exactly the difference to the
order. `LiveInvariant` is this with the types; from it `LiveMaintenanceNeverAbandons` and
`LiveReconciledFillsExist`, for any quantities, limits and backlog, lossy or not.

**Rate limiter.** `QuotaRespected` compares grants with each other, and says nothing of the cell the
next grant is decided on. `LimiterInv` adds `CellAhead` (the stored time is ahead of every grant by
the cells used since), `CellExplained` (and exactly so far ahead of one of them) and `PrevBehind` (a thread
decides on a value that can only have grown since, so that a compare-and-swap that succeeds decided
on the present one). From it: `QuotaIsRespected` and `RefusalsAreJustified`, for any number of
threads, keys, quotas and any length of time.

**WebSocket client.** `IInv` has three parts. `Sockets`: the sessions handed to the writer are in
order (`UpdatesInOrder`), and how far the writer is at each step of an attempt (`Attempting`,
`Switched`). `Losses`: where an accepted message may be at each step of the write task (`Holding`,
`Kept`), and that a write task that has stopped means the client has ended (`Stopping`). `Auths`: the
tracker says Authenticated only of the session in use (`AuthCurrent`). From it:
`SocketsAlwaysAgree`, `NothingIsLost`, `ReplaysWaitForAuth`, for any messages and sessions.

**EMA strategy.** `trail` compares the exact price it trails, and `RatchetsOnly` speaks of the rounded
triggers of two orders. `IInv` connects them: the trigger of the stop the strategy waits for is
`Price` of `trail_px` (`Sound`), and all ids in the fields, commands and events are of orders that
exist. There is one lemma for each method of the strategy, saying that it keeps `Sound`, never changes
the trigger of an order (`Grows`), and what it does to the two ids. `Price` is monotone and leaves
rounded prices alone (`PriceMonotone`, `PriceOfPrice`). `EmaRatchetsOnly` is then for any prices,
precision, stop distance, number of orders and delays.

*One stop for a position.* `Protected` speaks of moments when nothing is on its way, and says nothing of
how they are reached. `FlowInv` is `IInv` and, until something is `overtaken`, `Flow`, which speaks of
all moments:
- `Lanes`: the commands on their way are in the order in which the methods give them, a cancel, a
  stop, the cancel of all, a close, an entry, with at most one of each (`Ordered`). No order is told
  one thing twice, the position is of one unit, and at most one stop works at the venue, against it.
- `Accounted`: the position of the cache is that of the venue but for the fills not yet delivered. There
  are two of these only when a close and an entry reverse a trade.
- `Covered` and `Waits`: a position is about to be closed, or has a stop that works, is asked for, or was
  just refused, or it comes from an entry whose fill the strategy has not been told. A stop the strategy
  waits for is one of these, or its fill or rejection is on its way.
- `Known`, `Enters`, `Ends`, `Replaces`: what an entry, a close and a replacement may find at the venue
  when they arrive.

The proof goes by the methods, as for `IInv`: `on_bar`, `on_stop` and `on_reset` in `EmaCrossRRProofs`,
`handle_event` and the venue in `EmaProtectedProofs`. A predicate says what a method adds to the commands
(`Submits`, `Drops`, `Reverses`, `Places`), another what the venue takes off them (`Takes`), and what
it then finds (`StopReady`, `CloseReady`, `EntryReady`). This is where the order of the commands
matters: a replaced stop is gone before the new one is looked at, and an entry comes after
the close of the trade it reverses. `EmaProtected` is then for any prices, precision, stop distance,
number of orders and delays; its exclusions are those of section 4.

**Only model-checked.** Every liveness property: fairness and ENABLED are beyond this prover.

## 6. Assumptions and what is left out

*Event store.* `start_ts_init` increases from run to run (two runs with one timestamp have no
defined order in the code). At most one file is damaged, in its rows; a damaged manifest is not
modelled. A redb commit is atomic and durable. All dispatches come from one engine thread. The
HaltSignal outlives the runs of its kernel, as in the code.

*Engine.* One strategy, one instrument, one account, NETTING, so one position. Orders have no
emulation trigger and are modified or cancelled only after they were sent. Trade ids are unique
per order, except where a fill is repeated or corrected. Requests to the venue form a set. Hedging,
order lists and contingencies, own order books, venue order ids, account and instrument lookup
failures, prices beyond two values, commissions, PnL, position adjustment, snapshots and purging
are left out. `signed_qty` is an integer in the model and an `f64` in the code, so rounding is out
of reach here.

*Live.* One limit order of one client. Startup reconciliation by mass status, external orders, fill
and position reports, the position check, purging and the lookback window are left out. Inferred
fills have a trade id of their own, as in the code.

*Rate limiter.* Quotas do not change while callers wait; the 64-bit clock does not overflow.

*WebSocket client.* Handler mode only. Notifications only shorten waits; heartbeats are messages
nobody waits for; both are left out, and so is an answer to the authentication of an earlier session
that arrives late.

*EMA strategy.* NETTING and stop orders rejected when the market is past them (the defaults of
`run_backtest_rr.py` and `run_sandbox_ema.py`). Orders fill at once; a close finds a market; no
order is denied or expires, which `on_event` would not handle. The averages are a choice of which
one is ahead, and a bar has one extreme that matters. Prices are positive, and floating-point error is
left out.

*Not modelled at all*: see `PROJECT.json`, `components`. The adapters are I/O for one venue each;
portfolio, indicators and analysis are numerical; serialization and persistence are encoding.
The modelled lines are therefore a small share of the repository, and the share of the four chains
of section 1 is the one to look at.

## 7. Plan

In this order; each extends what exists.

1. *Live manager*: startup reconciliation, fill and position reports, over several orders.
2. *Throttler* with its timer and buffer, against the quota of `RateLimiter`.
3. *Order emulator and order manager*: release, modification, OTO/OCO/OUO, from `OrderCore`.
4. *Matching engine* as the venue of `ExecutionEngine`: a refinement of the external venue.
5. *Subscription tracking* over `WebSocketClient`, and the raw socket client.
6. *Partial fills in `EmaCrossRR`*; the background thread of `ai_ema_cross.py`.
7. *Reader and verifier* against `DurableLog`; `RunLifecycle` composed with several writers.
8. *Hedging positions, own order books, TWAP, the backtest's stream merge, the component states.*
9. *Proofs*: the order invariants of `ExecutionEngineProofs` for `LiveExecution`.
