# Ahma: TLA+ models and proofs

Ahma is an MCP server that runs a model's shell commands. It puts them into a
kernel sandbox, runs most of them asynchronously, orders those that write, and
hands their results back. This directory holds its formal models: TLA+ modules
translated from the Rust sources, TLC configurations that check them on small
instances, and TLAPS proofs for every value of the constants. Paths below are
relative to `src/`; *WQ* is `ahma_mcp/src/adapter/workspace_queue.rs`, *OM* is
`ahma_mcp/src/operation_monitor.rs`.

To check: `tlc -config MCWorkspaceQueue_lease.cfg MCWorkspaceQueue` and likewise for
each run of the tables below; to prove: `tlapm WorkspaceQueueProofs.tla` and likewise
for each `*Proofs` module.

| module | models | kind |
|---|---|---|
| `WorkspaceLease` | what the write queue promises | abstract specification |
| `WorkspaceQueue` | WQ, `ahma_common/src/fs_lock.rs`, and how `adapter/mod.rs` uses them | detailed specification |
| `OperationOutcome` | what the monitor promises its observers | abstract specification |
| `OperationMonitor` | OM | detailed specification |
| `Delivery` | `mcp_service/delivery.rs`, `handlers/await_tool.rs`, `call_async_tool`; composed with `OperationMonitor` | composition |
| `AsyncRun` | one asynchronous command in `adapter/mod.rs` (*AM* below), `mutex_groups.rs`, `pty_exec.rs`, `shell_pool.rs`; over `WorkspaceLease` | composition |
| `BridgeRequests` | the requests of one session of the HTTP bridge: `ahma_http_bridge/src/session.rs` (*BS* below), `request_handler.rs` | detailed specification |
| `BridgeHandshake` | how that session gets its sandbox: BS, `request_handler.rs`, `bridge.rs`, with `ahma_mcp/src/mcp_service/sandbox_config.rs` at the other end | composition |
| `LiveScopes` | what a session's sandbox allows: `ahma_mcp/src/sandbox/core.rs` | detailed specification |
| `ScopeGrants` | the permission questions that change it: `ahma_common/src/scope_grant.rs`, `sandbox/permission_broker.rs`, `hub_reporter.rs`; EXTENDS `LiveScopes` | composition |
| `MC*` | values of the constants for TLC | |
| `*Proofs`, `LineLemmas` | theorems, and what it does to a line when one leaves it | proofs |

## 1. Inventory

### 1.1 The components and the state they keep

**Workspace write queue** (WQ). *State*: per process and workspace, a FIFO lane
(`LaneState.entries`) with a `Notify`; on disk, one lock file per workspace under an
advisory `flock`, and an advisory `holder.json` beside it; in the environment of
every command, a stamp that says which lease it runs under. *Operations*:
`enqueue`, `Ticket::acquire`, `Lease::release_after`, `Drop` of a ticket and of the
lease, `probe`, `queue_report`. *Hard*: several processes of one user, blocking
closures that outlive the future that awaits them, kills, nested ahma processes, a
lock directory that cannot be written or opened. *Correct when*: one holder per
workspace; arrival order within a process; no lost wake-up; no stale lock; the record
names the holder; a probe that says "free" is right; no waiter starves.

**Operation monitor** (OM). *State*: the active map, the bounded completion history
and its order, a watch channel and a cancellation token per operation, a broadcast
stream of events, the clocks of the timeouts. *Operations*: `add_operation`,
`update_status`, `cancel_operation`, `cancel_all_operations`, the background
monitor's tick and sweep, `append_alert`, `wait_for_operation_bounded`. *Hard*: each
is made of several lock sections, and any task may finish an operation between two of
them. *Correct when*: the first terminal writer wins; one terminal event, after the
history and the watch flag; history and order agree; every operation settles and
every waiter is answered; a suspend is not silence.

**Result delivery** (`mcp_service/delivery.rs`, `mod.rs`, `handlers/await_tool.rs`).
*State*: the session's ledger of ids whose result the model has not seen. *Operations*:
a call that waits out its inline window, `await` by id or by filter, its timeout,
`take_finished` on every later answer. *Hard*: the ledger and the monitor's two maps
are looked at one after the other while operations finish and other requests of the
session settle the same ledger. *Correct when*: no result is lost, none is handed out
twice.

**Adapter** (AM): `run_async_operation` takes a place in line, waits for the lease
and for its mutex group, spawns, collects, settles, releases; `execute_pty_async` does
the same in another order; `Adapter::shutdown` cancels, drains and aborts the tasks.
**Command mutex groups** (`adapter/mutex_groups.rs`): a semaphore per process and an
flock per group. *State*: task handles, the two locks of a group, the process tree of
each command. *Hard*: locks held in turn, cancellation while one is awaited, early
returns and aborts at any await, descendants that outlive their leader, a nested ahma
that wants what its ancestor holds. *Correct when*: a command runs under its lease and
its gate; its result comes after both are free of it; every task ends; what is
cancelled is reaped; shutdown reaches the tasks.

**HTTP bridge sessions** (BS). *State*: the session table; per session the pending
requests (id to one-shot channel), the termination flag, the handshake state, the
bridge's record of the sandbox, replay buffer, event ids. *Operations*: create, the two
halves of the handshake, roots, record the scope, start and finish a request, dispatch
what the worker says, worker end, terminate, sweep, evict, probe for life. *Hard*: check
then act on shared maps; a worker that dies, a client that leaves, a timer and a
termination about one request; ids that clients choose. *Correct when*: every request
ends; who waits is told when the session dies; an answer reaches the request it
answers; an id is given back.

**Sandbox configuration** (`mcp_service/sandbox_config.rs`,
`ahma_common/src/sandbox_state.rs`). *State*: in the worker a one-shot scope and one
configuration at a time; at the bridge a state machine. *Operations*: the notifications
of the client, the roots request, its answer, error and timeout, the commit, its report.
*Hard*: two HTTP requests complete one handshake in either order; the bridge stages a
scope while the worker decides on one. *Correct when*: one commit; the bridge opens
`tools/call` to the scope that was committed; the worker hears `initialized` first;
every handshake ends.

**Permission questions and grants** (`ahma_common/src/scope_grant.rs`,
`sandbox/permission_broker.rs`, `sandbox/core.rs`, `hub_reporter.rs`). *State*: the
coordinator (questions in flight, dedup keys, memo of what was answered, prompt budget),
the live scopes, the once-grants, the ledger's records in force; at the reporter what
it asked at the hub. *Operations*: a refused path becomes a question, goes down a ladder
of surfaces (the client, the TUIs, nobody), is answered, closed, asked again; an answer is
saved, made live, recorded; a command's start reads the ledger and retires once-grants.
*Hard*: several surfaces answer; the connection to the hub comes and goes; an answer's
effects are several lock sections, as is a command's start. *Correct when*: the first
answer counts; no question is lost or asked twice; nothing is live that nothing
accounts for; what a human allowed for one command reaches that command.

**Shell sessions**: a lock, an idle reaper. **Hub**: election of a per-user hub,
takeover, draining, relays between instances and TUIs. **Progress push and event
dispatcher**: a broadcast stream that can lag. **Live logs**: a producer and a consumer
with debounce.

The rest keeps no shared protocol state: execution helpers, the lane classifier, tool
schemas, kernel profiles, diagnostics, egress matching, file tools, the drift report,
the agent loop, the terminal interface, settings, setup, update, vault, guard,
metrics, binaries. `PROJECT.json` lists every component with the reason it is left out.

### 1.2 How they interact

A tool call reaches the **MCP service**, which starts the operation through the
**adapter**. The adapter registers it in the **monitor** (`AddOperation`), enqueues it
in the **write queue** if it writes (`Enqueue`), awaits its lease, spawns, reports
output to the monitor (`ShowsLife`) and its end (`UpdateStatus`), and drops the lease
(`DropLease`). The monitor's background task times operations out and cancels their
tokens, which the queue's selects see (`Cancel`). The service waits on the monitor's
watch channel, remembers in the **ledger** what it could not show, and prepends it to
a later answer. Other ahma processes meet the queue only through the flock and the
holder record. The bridge forwards requests over HTTP to a worker that runs all this, and tells it
when the client is ready to be asked for its roots. A command that is refused a path
raises a question; the client, or a TUI through the **hub**, answers it, and the next
command's policy holds what the answer added.

## 2. The write queue

### 2.1 State and actions

| TLA+ | code |
|---|---|
| `lane[p]` | `LaneState.entries` of process p |
| `pc[o]` | where operation o is in `Ticket::acquire` or `Drop for Held` |
| `woken` | the `Notified` future of o has fired |
| `flock` | the open file description that owns the kernel lock: an operation's, an orphaned attempt's, a probe's |
| `record` | `holder.json`, and whether the process it names lives |
| `cmd` | whether processes of a command run, watched by its ahma (`running`) or not (`left`) |
| `strayTry`, `strayRename` | a `spawn_blocking` closure whose awaiting future was dropped |
| `look[b]` | a call of `probe` and its answer |

`acquire` is cut where another thread or process can run: registration of the
notification, head check, await, `try_acquire`, temporary file, rename, grant.
`Held::drop` is cut likewise: withdraw the record, leave the lane, notify, and (the
drop of the last field) close the lock file. That order is the code's and matters: the
lane moves on before the kernel lock is free.

Dropping the future (`DropFuture`) is possible at every await, leaves `try_acquire` or
the rename running in the blocking pool, and hands their later effects to `StrayTakes`,
`StrayEnds` and `StrayRenames`. `Crash` is SIGKILL of an ahma process: the kernel
closes its files, its commands run on, its record stays. `EndCommand` ends a command's
process group with the nested ahmas in it; their commands lead groups of their own and
may run on. `Abandon` is a command whose ahma stops watching it while processes of it run:
its leader has exited and what it left in the background keeps no pipe open (AM
2917-2943: drain, disarm, no kill), or a shutdown has aborted the task of a
pseudo-terminal. The lease then drops as after any end (`DropLease`), and the
nested ahmas below go on. A nested ahma skips the kernel lock (`Inherits`).
`Degrade` is the "degrade loudly, never wedge" path of a lock file that cannot be
opened; `Confined` processes can lock and cannot publish.

`WorkspaceLease` is the promise: arrive at the end of a line, take the lease as its
head if every holder may overlap with you, leave, vanish. `ImplementsLease` maps
`line` to `lane` and `holders` to the operations between grant and leaving the lane.
`Overlap` names the pairs the promise does not keep apart: where one of the two is
nested or runs in a process that may fail to open the lock file.

### 2.2 Runs

| run | instance | shows |
|---|---|---|
| `wq_record` | two operations in a server that holds softly, may leave its command behind and may be killed, one in a server that may fail to open the lock file; fairness | `RecordNamesHolder`, `LiveRecordHolds`, `EveryTicketServed` |
| `wq_lease` | two operations in one server, one in a second, one in an ahma below the first operation's command, a guard that may fail to open the lock file; soft hold, a command left behind, a dropped future, a kill of the first server | `ImplementsLease`, `MutualExclusion`, `NoLostWakeup`, `NoStaleLock`, `InheritedUnlessHandedOn`, `FreeProbeIsRight` |

*Bounds.* Two operations in one lane make every order and both kinds of waiter; a
second process makes every interleaving of the kernel lock. Every operation returns to `idle` and is used again, so
runs have no bound on the number of operations over time (a name is used again only when
nothing of its command runs). One operation may leave its command behind (`Leaves`) and
hold softly, and one may be dropped (`Dropped`): one nested ahma is below it. `NoLostWakeup` depends on one
lane only, in which three entries add nothing but a longer tail. That only the head of a
lane proceeds (`OnlyHeadProceeds`) is proved for every lane (section 8).

*Fairness* (`wq_record`). Tokio polls every ready task and the blocking pool runs every
closure (weak fairness of `Polling`, `Stray`, `Release`, `ProbeUnlock`); a command that is
watched ends, is left behind or is killed at its time limit (weak fairness of
`EndCommand` or `Abandon` while it is `running`). One that was left behind may run for
ever: nobody watches its time limit. The five-second
re-observation is deliberately *not* counted on: the notification alone must suffice.
`flock` has no queue, so nothing in the code orders pollers of different processes;
what is assumed is that a poller that again and again begins an attempt while the lock
is free, or whose attempt again and again finds it free, succeeds: strong fairness of
`TakeLock` and of `Retry` while the lock is free. Cancellations, dropped futures and
kills are not owed.

## 3. The operation monitor

### 3.1 State and actions

| TLA+ | code |
|---|---|
| `status` | `Operation.state`; the active map holds the operations whose status is `Pending` or `InProgress` |
| `move` | how far `move_to_history_and_notify` has come for the operation |
| `history`, `order` | `completion_history`, `completion_order` |
| `watch`, `told` | the completion watch flag, terminal events emitted |
| `late`, `quiet`, `slept` | total-runtime budget spent, idle budget spent (and whether only by a suspend, and how long a one), a suspend the tick has not seen |
| `loop`, `batch` | the background monitor, `cancel_all_operations`, each with its snapshot |
| `alert`, `wait` | `append_alert`, `wait_for_operation_bounded` |

One action per lock section. `Finish` is the guarded transition
(`try_transition`, removal from the map, its clocks) shared by results,
cancellations and timeouts; each then passes through `StoreInHistory`, `Signal` and
`EmitTerminal`, between which any other task runs. `CancelAll` and `Loop` move each
operation of their snapshot to the history before they look at the next.

A suspend is `long` or `short`: `note_monitor_tick` forgives the idle clocks only for a gap
of `SLEEP_DETECT_THRESHOLD` (30 s) or more (OM 679-681). Suspends between two ticks add up:
the one that reaches the threshold is `long`.

`OperationOutcome` is the promise: an operation is undecided, then has one outcome that
never changes, then one announcement.

### 3.2 Runs

| run | instance | shows |
|---|---|---|
| `om_outcome` | two operations, one of which queues, an alert, the watchdog, cancel-all, suspends, a history of one | `ImplementsOutcome`, `TerminalOrder`, `HistoryInOrder`, `SleepIsNotSilence` |
| `om_waits` | two operations, a waiter, fairness, a history of one | `EveryOperationSettles`, `EveryWaitAnswered`, `MissedInTransitOnly` |

*Bounds.* Every hazard of this module is between two tasks about one operation, or
between two finishing operations; a history of one makes the second evict the first
at every possible moment. An operation's id is used once, as in the code.

*Fairness* (`om_waits`). The runtime polls every ready task (`Move`, `Answer`, the rest
of a cancel-all), the background monitor ticks (`Loop`), and time passes (`RunsLate`).
Nothing is assumed of the command: it may run for ever, show life for ever, or never
leave the queue, and nobody need cancel it. `EveryOperationSettles` therefore rests on
the total-runtime budget alone.

## 4. Delivery

`Delivery` EXTENDS `OperationMonitor` and adds the session's ledger and its requests.
Its next-state relation is the monitor's own steps (operations are added by
`RunCommand` only) or a step of one request. `take_finished` is cut at each of its
awaits: the snapshot of the ledger, and for each id the look into the history and the
look into the active map. The ledger is the set of its ids: no property
depends on the order in which an answer lists them, so `take_finished` may look at its
snapshot in any order. `await` is cut at each wait that ends and at the moment the
answer settles the ledger; its timeout drops what the waits had found. A wait inside
`await` is its outcome (found, or in neither map), because `OperationMonitor` models
the steps of one.

| run | instance | shows |
|---|---|---|
| `dl_one_call` | two operations, one request at a time, nothing evicted | `OwedIsDelivered`, `PrependedOnce`, `LedgerKeepsRunning`, and the type invariant |

*Bounds.* The history holds every
operation, so that what is lost is not lost to eviction, which the code documents.
Symmetry of operations and of requests is used, since the run has no liveness property.

## 5. The asynchronous command

### 5.1 State and actions

| TLA+ | code |
|---|---|
| `line`, `holders` | the write queue as `WorkspaceLease` promises it; `Arrive` is `enqueue`, `Take` a granted `acquire`, `Leave` the drop of a ticket or lease, or the end of a soft hold |
| `handedOn` | leases whose `held` the timer of `Lease::release_after` has taken (WQ 1057) |
| `task[o]` | how far `run_async_operation`, or the task of `execute_pty_async`, has come |
| `status`, `token` | the operation in the monitor, its cancellation token |
| `verdict` | the status the task has decided to publish |
| `tree[o]` | the process tree: its leader runs; a descendant holds the output (`piped`); descendants only (`left`); gone |
| `permit`, `groupLock` | the two layers of a mutex group |
| `stray` | a blocking `FsLock::acquire` whose task was aborted |
| `waited` | `max_wait_secs` has passed for an operation at the gate |
| `handles`, `unstored`, `drained` | `task_handles`, a handle that the spawner has yet to insert, what shutdown has taken out |
| `late` | handles that were inserted after shutdown had looked at `task_handles` for the first time |

`Submit` to `StoreHandle` are the caller's part; `LookUp` to `StartTree` the task up to
the spawn, cut at each await and with each early return; `NoticeExit` to `Close` what
follows. An operation in a pseudo-terminal goes another way where the code does: in
progress before it is in line (`BeginPty`, `SpawnPty`), the end of the terminal
before the end of the command (`PtyHangsUp`, `NoticePtyExit`), its result before its
lease is back (`Report` before `DropLease`), and no guard that kills its tree when its
task is aborted. `KillTree` and `GroupEnds` kill a process group: the ahmas in it die
with all they hold, and the commands *they* ran, each the leader of a group of its
own, run on. A descendant that has left the group survives.

An operation in `SoftHold` is one `soft_hold_for` gives a time (AM 1412-1415): `SoftRelease`
may hand its lease on at any moment after the grant, its command running. A process in
`NoLease` may fail to open the lease's lock file and then, like a nested one, keeps the
order of its own line only (`Lockless`).

*Abstractions.* A terminal transition is one step with its announcement, and the
first one wins: `OperationMonitor` has the steps between. The lease is the abstract
one: `WorkspaceQueue` implements it. The first half of `shutdown` runs under the lock
of `task_handles` and is one step. A process that gets SIGKILL ends.

### 5.2 Runs

| run | instance | shows |
|---|---|---|
| `ar_safe` | a gated command that holds softly and whose group lock may fail to open, and in an ahma below it a command in a pseudo-terminal; the first may leave descendants, both ahmas may shut down | `LeaderUnderLease`, `ResultFreesLease`, `NothingOutlivesTask`, `ShutdownReachesTasks` |
| `ar_ends` | two gated commands in a server, one of them outside the queue, and one in an ahma below the other that wants the same gate; fairness | `GateIsExclusive`, `EveryTaskEnds`, `CancelReapsTree` |
| `ar_reaps` | one command that may leave descendants; fairness | **violation** of `CancelReapsTree` |

`GateIsExclusive` is in the run where two gated commands of one server meet.

*Bounds.* The hazards lie between a task and the monitor, a task and shutdown, two
tasks at a gate, or a command and the ahma below it: two operations make each of
these, and the third in `ar_ends` makes them meet. Every operation runs once, so the
system stops when all have ended and the runs do not check for deadlock; that nobody
waits for ever is `EveryTaskEnds`. `ar_ends` has no shutdown and no descendants left
behind: with them, `CancelReapsTree` fails (`ar_reaps`). Neither liveness run has a soft
hold, which only frees others sooner, or a process in `NoLease`: the two commands of
`ar_safe` are kept apart by nesting already, and the proofs cover it.

*Fairness.* The runtime polls what is ready (`Call`, `Prepare`, `Finish`), and the two
clocks run: `max_wait_secs` for an operation at the gate (`MaxWaitElapses`) and the
command's own time limit (`RunTimesOut`). No command is assumed to end, nobody owes a
cancellation, and the monitor's budgets are not counted on. The nested command that
wants the gate its ancestor holds waits in a blocking thread without a limit: it is
the ancestor's time limit that ends both.

## 6. A session of the bridge

### 6.1 Requests

| TLA+ | code |
|---|---|
| `task[r]` | the handler of r: `live_session`, `register_pending_request`, the send to the I/O task, `await_response`; or how it ended |
| `pending` | `Session.pending_requests`, by the request whose sender it holds; `SameId` is its key |
| `channel[r]` | what was sent on r's one-shot channel: whose answer, or the error of a session's end |
| `outbox` | the `mpsc` channel to the I/O task, with room for `Room` messages (100 in the code, BS 1700) |
| `frame` | what the I/O task is writing to the worker's stdin |
| `asked` | requests the worker has and has not answered |
| `worker`, `io` | the worker runs; how far `handle_session_io` and `finish_session_io` are |
| `terminated`, `mapped`, `ending` | the flag, the entry in the session table, how far `terminate_session` is |

Registration, write, wait, dispatch, the five steps of `terminate_session` and the four
of the I/O task are an action each: any two can interleave. `Disconnect` is a client that
leaves: hyper drops the handler, during the wait (`InFlightRequest::drop` gives the id
back) or during the write, when there is no `InFlightRequest` yet. `Dispatch` routes by
id, as the code does, so a late answer reaches whoever is registered under it.
`Abandon` is a client that leaves while its DELETE waits for the worker to end.
A request goes through the channel (`Send`, which waits for room, BS 481-484) and the I/O
task's hands (`TakeFrame`, `WriteFrame`), and so do notifications and answers about roots
(`SendNote`). `WriteFrame` is owed by nobody: a worker that stops reading its stdin keeps
the I/O task in `write_frame_to_peer` (BS 2150).

`br_requests`: two requests under one id, one answered in its POST's body and one on a
stream, and a channel with room for one message. Every hazard is between two requests of
one id, one request and the end of the session, or a request and a channel that is full;
notes fill it as well as requests do, so its size only decides how many it takes.
*Fairness*: the runtime runs handlers, I/O task and terminator, and the sweep comes every
five seconds (`WF` of `Handle`, `IoTask`, `Terminator`, `Sweep`). Tokio's channel serves
its senders in order, so one that waits gets its turn if there is room again and again
(`SF` of `Send`), and the I/O task's select, which picks at random, does not for ever
miss that the worker's output has closed (`SF` of `StopIo`).
It shows `RightAnswer`, `IdsAreReleased`, `HealthyNotClosed`, `ToldOfTheEnd` and
`EveryRequestEnds`. `ToldOfTheEnd` counts on no timer; `EveryRequestEnds` adds the request's own
(`TimesOut`), and no worker need answer. It excepts a request that is `Stuck`: its timer
starts after the send, and the channel is full behind a write that does not end.

### 6.2 The handshake

| TLA+ | code |
|---|---|
| `hs`, `stage` | `HandshakeState`, and how far each request that carries a half is |
| `sandbox` | `SandboxStateMachine`: state and scope |
| `down`, `up` | the worker's stdin and stdout |
| `asked`, `seen`, `reply` | roots requests the bridge remembers, the client saw, the client's answer being handled |
| `greeted`, `asking`, `rounds`, `committed` | the worker: it had `initialized`, its open roots request, its committed scope |
| `waiter` | a request in `wait_for_mcp_initialized` |
| `elapsed`, `reaper` | the handshake timeout, `prune_stale_sessions` |

The client opens and closes streams, posts `initialized`, answers with roots, none, junk
or an error, once or late, and may change its roots. `mode` is what the operator's
command line makes of empty roots. The worker commits the roots, or what it was started
with, or reports failure; a scope it cannot enforce it reports failed. The sweep makes
its list, then ends what is on it.

`br_handshake`: each mode, two streams, one root, two rounds (the bridge's and the
client's `list_changed` are all that can start one). Two streams make both orders of the
halves and a late or repeated stream. *Fairness*: the runtime runs the bridge's handlers
and the worker (`WF` of `Bridge`, `WorkerHears`), the worker's roots request times out
(`WorkerGivesUp`), time passes and the sweep comes. The client owes nothing.
It shows `ActiveScopeIsCommitted`, `InitializedFirst` and `HandshakeEnds`, which excepts
one case, a gap in the code (section 9); that the scope is committed once and that who
waits is woken (`CommittedOnce`, `ParkedIsWoken`) is proved.

## 7. Permission questions and grants

### 7.1 State and actions

| TLA+ | code |
|---|---|
| `live`, `once`, `saved`, `file`, `fresh` | `Sandbox.scopes` and `.read_scopes`, `once_grants`, the ledger in force, the settings file, whether its stamp is current |
| `cmd`, `copy` | a command's start: `sync_ledger` in two steps, `spend_once_grants`, its wait in line, its policy |
| `inFlight`, `activeKeys`, `dismissed`, `decided`, `resolved`, `window` | the fields of `GrantCoordinator`'s `Inner` |
| `task[q]` | `PermissionBroker::ask`: the client, the TUIs, nobody |
| `apply[q]` | an answer's effects: saved, live, recorded |
| `link`, `viewers`, `chan`, `atHub`, `shown`, `answers` | the reporter's connection, its count of viewers, its queue, `AskedAtHub`, the hub's questions, answers on their way |

The coordinator is one mutex, so each of its operations is a step; what follows it is
not, and another surface may act in between. The reporter is one task: while it applies
an answer (`ReporterBusy`) it neither forwards nor reconnects.

*Abstractions.* A stamp that was refunded and one that expired both leave `window`. A
once-record's `by` is its armed flag, with the command that armed it. `Spend` is one
step where the code releases the ledger's lock between its look and the removal. `Spawn`
returns a command to `idle`, because its policy is fixed from then on. `Down` merges a
hub that goes, a connection that breaks and one the reporter ends. What a human answers
is chosen when the answer arrives. `ClientDismisses` is every way a client yields no answer
and is not at fault. Leases, the denylist, network and web questions and other sessions
are left out.

### 7.2 Runs

| run | instance | shows |
|---|---|---|
| `sg_session` | two questions about one path at either access, answers for one command or for good, one command that starts over and over, a human who revokes, a budget of one | `OneOpenQuestion`, `NoQuestionIsLost`, `LiveIsHeld`, `NotAskedAgain` |
| `sg_once` | one question, two commands | **violation** of `OnceReachesItsCommand` |

*Bounds.* A question's rivals are one other question of its path and the surfaces that
answer it. Two questions make twins, a re-raise of what was answered and a budget that
runs out; one path suffices, because nothing but the budget relates two. One command
starts arbitrarily often; two or more at once are covered by the proofs of section 8.
Questions and commands are symmetric, and there is no liveness property: nobody owes an
answer.

## 8. What is proved

The proofs hold for *any* sets of processes, operations, probes, waiters, requests,
ids, streams, roots, questions, paths and commands, any history size, number of rounds
and budget, and any choice of who may be killed, dropped, degraded or nested.

**`WorkspaceQueueProofs`** assumes `ConstantsAssumption` (the constants have their
types), `NoneAssumption` (the null value is fresh), and `TreeAssumption` with `TreesNest`
(`Below` is the transitive closure of "was started by", to any depth, and no process is
below itself). It rests on lemmas about `RemoveAt` and about `Closed`.

- `TypeCorrect`: `Spec => []TypeOK`. `TypeOK` is not inductive alone: `Without` picks
  *the* place of an operation with CHOOSE, which has a value only if the operation
  is in its lane. The invariant adds that an operation is in its lane exactly while
  its program counter says so, once.
- `LeaseIsExclusive`: `Spec => []MutualExclusion`. The strengthening says who owns the
  kernel lock: an operation past `TakeLock` that neither degraded nor inherited owns
  it until `Unlock`. `flock` being one value, two such operations are one.
- `ProbeIsRight`: `Spec => FreeProbeIsRight`, the action property, from the same
  invariant: a probe that gets the lock found it free, so no ordered operation held.
- `ArrivalOrder`: `Spec => []OnlyHeadProceeds`. Whoever is past the head check is first in
  its lane until it leaves: lanes grow at the end, and only the first or a waiter leaves.
- `LockIsNeverStale`: `Spec => []NoStaleLock`. Strengthening: each way of owning the lock
  fixes where its owner is, and the lock is one value.

Its second half, on the same assumptions, proves the rest of the safety
properties of `wq_lease` and `wq_record`:

- `QueueImplementsLease`: `Spec => ImplementsLease`. Four steps take the lease (the check
  of a nested head, `Degrade`, `WriteTemp` of a confined process, `Grant`). In each the
  operation is first in its lane; in the first two the promise excepts it, in the other
  two it owns the kernel lock, so no holder does. `LeaveLane` leaves, `Die` vanishes.
- `WakeUpsAreKept`: `Spec => []NoLostWakeup`, inductive with the lanes: who becomes a head
  does so by a removal, whose author has yet to notify and reaches everyone registered.
- `InheritedIsHeld`: `Spec => []InheritedUnlessHandedOn`. One lemma says what separates a
  command from its lease while its ahma watches it (`CommandUnderLease`); the other, that
  a nested ahma is gone with the last process of the command that started it (`NestedInv`).
  That needs `TreeAssumption` for the ahmas that outlive a kill higher up because their
  command leads a group of its own.
- `RecordIsTheHolders`: `Spec => []RecordNamesHolder`; `LiveRecordIsTrue`:
  `Spec => []LiveRecordHolds`. Strengthening (`RecordInv`): a live record of an operation
  nobody dropped is that of the owner of the lock between rename and withdrawal, and the
  other way round, unless a dropped caller's late rename replaced it; `PublishInv` says
  who owns the lock on the way there.
- `NoDeadlock`: `Spec => []NobodyIsStuck`. An operation that is not idle can go, or holds
  the workspace for a command that runs, or waits for an operation one can name: one
  ahead of it in its lane, the owner of the kernel lock, or one of a nested ahma that
  its command waits for. Of any finite set of operations, one waits for none of the set.
  Were there a circle, the command of a holder in it would wait for a nested ahma's
  operation; but a nested ahma never polls the lock (`NestedSkips`), so that operation
  waits in its own lane, in the end for a command further down. `TreesNest` is needed
  here: each command of the circle would have fewer of them below it than the one before.

**`OperationMonitorProofs`** assumes `MonitorAssumption` and `NoneIsNoOutcome`.

- `TypeCorrect`: `Spec => []TypeOK`.
- `HistoryAgrees`: `Spec => []HistoryInOrder`. Strengthening: an operation whose `move`
  is `no` or `taken` is not in `order`, so an insertion keeps `order` injective, and
  evicting the head removes exactly that id from the history.
- `EventsFollowHistory`: `Spec => []TerminalOrder`. Strengthening: `watch` and `told`
  agree with how far `move` has come, and a full history stays full.
- `WaitsMissInTransitOnly`: `Spec => MissedInTransitOnly`; `AlertsAreKept`:
  `Spec => AlertLostInTransitOnly`. What is in neither map is between them, or was evicted
  from a history that is full for good.
- `SleepIsForgiven`: `Spec => SleepIsNotSilence`. Only an operation in the map is silent,
  and silence that came with a long suspend goes with the tick that measures it (`QuietInv`).
- `Refinement`: `Spec => Outcome!OutcomeSpec`. Every action maps to `Decide`, to
  `Announce` or to a stutter; the invariant that `told` is 0 until `EmitTerminal` and
  1 after makes the announcement unique.
- `SweepsAreThorough`: `Spec => ListedEnd`. Whatever leaves the list of a sweep or of
  `cancel_all_operations` has ended by then, whoever ended it (`ListedInv`: what is
  listed has been announced, and what they await is a move).
- `SignalsAreComing`: `Spec => []NobodyWaitsInVain`. A waiter's flag is up, or its operation
  still runs or is being moved; what a sweep awaits was moved or is being moved.

**`DeliveryProofs`** rests on those: every step of `Delivery` is a step of the monitor or
leaves it alone (`MonitorSteps`), so the monitor's invariant and `Onward` hold below it.

- `DeliveryTypeCorrect`, and `RunningStaysOwed`: `DeliverySpec => LedgerKeepsRunning`, for
  any number of calls in flight. What an answer carries, and what `take_finished` has
  found, has ended (`EndedInv`) and stays so, whoever else settles the ledger meanwhile.
- `HandedOutOnce`: `DeliverySpec => []PrependedOnce` for a session that makes one call at
  a time (`OneCall`). What is left to look at is in the ledger, and what was handed out is
  not (`OnceInv`). Two overlapping calls may both take an operation from their snapshots.
- `OwedReachesTheAnswer`: `DeliverySpec => []OwedIsDelivered` for such a session and
  finitely many operations. If the history has room for all of them, a full one holds them
  all (the pigeonhole of `FullHoldsAll`), so nothing is evicted, what was announced is
  found, and what was owed is in the ledger, in the snapshot or in the answer (`OwedInv`).
- `RunsTheMonitor`: `DeliverySpec => Spec`, so every theorem about the monitor holds here.

Three more hold for any number of calls in flight, where the two above do not:

- `SettledIsAnswered`: `DeliverySpec => NothingSettledIsLost`. What leaves the ledger is in
  an answer on its way, and every answer keeps what it carries until it is out. The one
  exception is the gap of `take_finished` (section 9), stated at its step: a call at
  `active`, about that operation, which has ended meanwhile. It needs to know what each
  stage of a call has found (`FreshInv`).
- `HandedOutIsShown`: `DeliverySpec => []HandedOutArrives`, in every branch of the call.
- `OncePerCall`: `DeliverySpec => []HandedOutOncePerCall`, for finitely many calls: no
  operation is handed out more often than there are calls. What remains of "exactly once"
  when calls overlap; it counts those that may still take it (`CountInv`).

**`BridgeRequestsProofs`** assumes `BridgeAssumption`.

- `TypeCorrect`: `Spec => []BridgeTypeOK`.
- `IdsReturn`: `Spec => []IdsAreReleased`. Strengthening: at most one request is
  registered per id (`OneRegistered`), and how far the I/O task and the terminator are
  says what they have done (`EndIsMarked`, `Order`).
- `ClosedHasACause`: `Spec => []HealthyNotClosed`, for any number of requests on an id.
- `AnswersAreRight`: `Spec => RightAnswer`, from `Told` and `Kept`: a request the worker
  still owes an answer is registered, or has given up, or the session is at its end.
- `EndReachesWaiters`: `Spec => []InReach /\ NobodyLeftBehind`. While the session is in the
  map or is not marked, the I/O task or the terminator has yet to look (`YetToLook`), and
  the later of the two leaves no request behind that was waiting for it.

**`BridgeHandshakeProofs`** assumes `HandshakeAssumption`.

- `TypeCorrect`: `Spec => []HandshakeTypeOK`, with the types of both queues.
- `OneCommit`: `Spec => CommittedOnce`. Strengthening: a worker that asks has committed
  nothing (`Reported`), so no answer can commit again.
- `ScopesAgree`: `Spec => []ActiveScopeIsCommitted`. Every report in the queue names the
  committed scope (`Reported`), and no step takes the bridge to active but a report.
- `HalvesInOrder`: `Spec => []InitializedFirst`. Whoever may write `list_changed` acts
  after `initialized` entered the queue (`Posted`), and both queue operations keep that
  (lemmas `Sent` and `Taken`).
- `WaitersAreWoken`: `Spec => ParkedIsWoken`, for who has subscribed.
- `ScopeComes`: `Spec => []ScopeIsComing`. A session that is `Configuring`, which the sweep
  spares, has a `list_changed` to come to its worker, a `roots/list` that is open, or a
  report on its way; or it never listened. Strengthening: a round is on its way to the
  client, with it, or on its way back (`RoundInv`), so an open round that was answered
  with roots is not answered again; a worker that gave up, or committed, has reported
  (`StagedInv`); a default scope is staged after `initialized` only (`DefaultInv`). That
  `None` is no answer of the client is part of `HandshakeAssumption` for its sake.

**`ScopeGrantsProofs`** assumes `GrantAssumption` and `ScopeAssumption`.

- `TypeCorrect`, `GateIsTrue`, `NothingIsLost`, `BudgetIsRefunded`, `NothingLiveIsOrphaned`:
  the types, the three invariants of `sg_session`, and that every stamp of a closed
  question is refunded (`ClosedIsRefunded`). Strengthening: how far a
  question's task and its answer's effects are fixes where it may be (`LifecycleInv`):
  in flight and undecided, decided and resolved, or not yet raised. `LiveIsHeld` holds
  for any number of commands that load and swap the ledger at once.
- `FirstAnswer`: `Spec => FirstAnswerCounts`; `AskedOnce`: `Spec => NotAskedAgain`, from
  the invariant that whatever an answer settles is dismissed or was asked again for
  (`Remembered`).

**`AsyncRunProofs`** assumes `AsyncRunAssumption` (types; no ahma runs under its own
command; a pseudo-terminal's command is queued and not gated) and `NoneIsNoStatus`. It
proves every safety property of `ar_safe` and `ar_ends`, for any number of commands and
any tree of ahmas, from one invariant, `IInv`:

- what the steps of the lease do to the lines (lemmas `Leaving` to `Keeping`, on those of
  `LineLemmas`), and `GroupEndsParts`, what the end of a process group does to everything
  that ran in it;
- `LineInv`, `HolderInv`: a stage of the task says whether it is in line and holds the
  lease; `GateInv`: likewise for the permit and the kernel lock of the gate;
- `TreeInv`: a leader runs only at a stage that ends it, unless its ahma is dead. It needs
  to know that a command which has not started has no ahma with tasks below it, since a
  dead ahma must never be taken for one that is not yet alive;
- `ResultInv`: a result is the verdict, and a verdict of success or failure is reached
  only when neither leader nor reader of its output is left.

`TypeCorrect`, `LeadersHoldTheLease` (until the soft hold is over), `GateExcludes`,
`ResultsComeLast`, `TasksCleanUp` and `ShutdownReaches` follow. The last goes by the phase of
the shutdown: until it looks, a stored handle suffices; once it has cancelled what it
found, and once it has drained, the operation has ended as well, or its handle came late.
A second part adds who is in line, who holds and who owns the
permit (`PlaceInv`, `OwnInv`, `HeadInv`; with `IInv`: `LeaseInv`):

- `CommandsRunAlone`: `Spec => []ExclusiveRunAlone`. Leaders of two exclusive commands run
  side by side only when the soft hold of one was handed on, in two ahmas of which one is
  nested or may fail to open the lock file, after a death, or when one is in a
  pseudo-terminal whose shutdown has let it go.
- `NoDeadlock`: `Spec => []NobodyIsStuck`. A task can go, or waits for the end of its own
  command, or for another task. Everybody takes the line, the lease, the group's semaphore
  and its kernel lock in this order, so of any set of tasks one waits for none of the
  set: one that holds more than the others, and of those in line the foremost. What a
  command waits for is its own affair here: that it may wait for an ahma below it, whose
  command wants the same gate, is ended by its time limit (5.2), and a drain is ended by
  whoever holds the pipes, as `ar_reaps` shows.

The type invariants (but for `Delivery`'s, which has one), `OnlyHeadProceeds`,
`AlertLostInTransitOnly`, `CommittedOnce`, `ParkedIsWoken`, `ClosedIsRefunded` and `FirstAnswerCounts` have no run,
since the proof says more.

*Only model-checked*: the eight liveness properties, since liveness under fairness is out
of the prover's reach. For most of them a theorem says what the steps contribute, for
every value of the constants, and leaves that each step is taken to the fairness:

| liveness | what is proved towards it |
|---|---|
| `EveryTicketServed` | `NoDeadlock` of the queue; `WakeUpsAreKept`, `LockIsNeverStale` |
| `EveryOperationSettles`, `EveryWaitAnswered` | `SignalsAreComing`, `SweepsAreThorough` |
| `EveryTaskEnds` | `NoDeadlock` of the asynchronous command |
| `ToldOfTheEnd` | `EndReachesWaiters` |
| `HandshakeEnds` | `ScopeComes` |
| `CancelReapsTree`, `EveryRequestEnds` | nothing beyond the safety of the same run |

The first rows speak of who *can* go. TLC has compared that with ENABLED on the
instances of the runs: whoever the theorems say can go has a step that is enabled. No
module uses a RECURSIVE operator.

## 9. Where the code and its documents part

Two violation runs each show one sentence of the repository that the code does not
keep; `PROJECT.json` quotes it.

1. `ar_reaps`: once the leader of a command is gone, the drain of its pipes looks
   neither at the cancellation token nor at the time limit; while a descendant holds
   them, a cancelled operation's tree lives on, and its task keeps lease and gate.
2. `sg_once`: a command marks a once-grant as its own before it waits for its turn; the
   next command to start retires the grant, and the first is spawned without it.

Other gaps need no run of their own, since a passing property states their size, or
since a few lines of the code show them. In the modelled protocols:

- `take_finished` looks into the history, then into the active map; an operation that
  finishes in between is taken for evicted, and never delivered (`delivery.rs` 54-57,
  SPEC R2.7.5; `OwedIsDelivered` speaks of results announced before the request);
- the number of completed operations in an await's timeout message subtracts all running
  operations from the awaited ones, in `usize` (`await_tool.rs` 505);
- a wait that begins while its operation is between the two maps returns nothing
  (`MissedInTransitOnly`), where `wait_for_operation` is called race-free;
- two requests of a session at once both prepend the same result (`PrependedOnce` is
  claimed for one call at a time), where SPEC R2.7.5 says "exactly once";
- the lease is dropped when the leader of a command has exited and its pipes are drained
  (AM 2917-2943, 3282-3291), whatever it left in the background with its output elsewhere,
  and a shutdown that aborts the task of a pseudo-terminal drops it over a command that
  runs; SPEC R2.7.1 says "hold it until its whole process tree has exited", and so do
  `docs/workspace-queue.md` 143 and the comment AM 3282 ("The process tree is gone"). A
  command that nobody watches is `left` in `WorkspaceQueue` and in `AsyncRun`;
- a nested ahma trusts the stamp in its environment, a lease its ancestor "provably
  holds" (WQ 58-60), also when a soft hold was handed on, when it was left behind by a
  command whose lease was dropped, or when that ancestor, or one above it, was killed
  (`InheritedUnlessHandedOn` excepts exactly these);
- a soft hold, or a lock file that cannot be opened, lets two exclusive commands run side
  by side (`LeaderUnderLease`, `ExclusiveRunAlone`); the code documents both (SPEC R2.7.11,
  WQ 957);
- a task spawned before `shutdown` whose handle is inserted between its two looks at
  `task_handles` is awaited without having been cancelled, and one whose handle is inserted
  after the second is reached by nothing (AM 600-628, 1468-1472, 1620): it goes on until
  the process ends. `Adapter::shutdown` says "cancelling active operations, aborting tasks"
  (AM 598), and the server's choreography "no spawned work outlives the server"
  (`shell/modes/server.rs` 326-327). `ShutdownReachesTasks` excepts `unstored` and `late`;
- a worker that stops reading its stdin, and does not die, blocks the I/O task (BS 2150),
  the channel of 100 fills (BS 1700), and the next requests wait in `send().await` (BS
  481-484) for ever, since their timers start after it (`EveryRequestEnds` excepts `Stuck`);
- a suspend shorter than `SLEEP_DETECT_THRESHOLD`, 30 s, counts as silence against an idle
  budget that is shorter still (OM 679-681), where the comment says "a sleep must never be
  counted as silence" (OM 669-670; `SleepIsNotSilence`);
- an operation in a pseudo-terminal waits for its lease in progress, not `Pending`
  (AM 1530, 1549), and publishes its result before it drops the lease (AM 1610;
  `ResultFreesLease` excepts it);
- `max_wait_secs` bounds the wait for a group's semaphore and not the wait for its
  kernel lock (`mutex_groups.rs` 220);
- a client whose empty roots mean the default scope, and that never opens a stream, is
  answered 409 for ever: the bridge is `Configuring`, which the sweep spares, and the
  worker is never told to commit (`HandshakeEnds` excepts `NeverListened`; BS 344,
  `request_handler.rs` 1246);
- the sweep acts on a list it made before it awaited (BS 1533; comment BS 345);
- who looks for `initialized` just before it comes, and subscribes just after, waits
  thirty seconds for nothing (BS 340; `ParkedIsWoken` speaks of who has subscribed);
- a client that leaves while its request is being written leaves its id registered until
  an answer or the end (`IdsAreReleased`; comment BS 858);
- a request that times out clears whatever is registered under its id (BS 914;
  `HealthyNotClosed`), and an answer that comes late reaches the next request of that id
  (`RightAnswer`);
- a request registered after both the I/O task and the terminator have looked is told by
  its own timer only (`ToldOfTheEnd`);
- a stream's clean-up that finds a request in flight is not tried again (`bridge.rs` 1768);
- the retirement of a once-grant compares with the ledger only: it takes a session
  answer's scope of the same path with it, while the memo keeps the path from being asked
  about (`core.rs` 1036); so does a second once-answer for a path whose first is armed;
- `persist_grant` may fail after the question was resolved: the answer has no effect, and
  the memo keeps it from being asked again (`permission_broker.rs` 531);
- of two concurrent syncs the older load may be swapped in last, with the newer stamp
  (`core.rs` 836-889), and an "always" answer revoked before the next command's sync is
  not in the set that sync removes (`core.rs` 848-870; comment 820).

In the code around them:

- a question settled at a TUI announces no decision to the harness
  (`hub_reporter.rs` 974-1066; `docs/session-health-notifications.md` 28);
- `cancel_unseen` refunds also a question the client showed and a human dismissed
  (`permission_broker.rs` 306; `scope_grant.rs` 816);
- the hub's count of viewers can arrive out of order (`hub.rs` 1405), one full channel
  stalls the routing to all instances (`hub.rs` 2386), and an instance's teardown may take
  down what its successor has just asked (`hub.rs` 2720; comment 2567);
- the retirement of an expired lease compares paths only (`core.rs` 933).

The properties state the size of such holes exactly: `InheritedUnlessHandedOn` (excepts a
command left behind, a soft hold, and an ahma that was killed, alone or with the
command it ran under: its own commands run on), `LiveRecordHolds` and
`RecordNamesHolder` (except an operation whose caller dropped it during the rename),
`MissedInTransitOnly`, `AlertLostInTransitOnly`, `SleepIsNotSilence` (excepts a suspend
between the tick's measurement and the sweep, and a short one). `RecordNamesHolder` also excepts confined
servers, which publish nothing, so `queue_report` can say that no workspace is held
while one is. A probe takes the real lock for a moment, so two probes at once can
take each other for a holder; `FreeProbeIsRight` is the direction that holds.

## 10. What is not modelled

In the modelled components: which command is exclusive (the lane classifier), the text
of reports and notices, pruning of lock files; output tails, typical durations,
shutdown summaries, the upsert of an id that is already active, wall clocks that step
backwards; rendering of results, the choice of an await's timeout, the await of ids
that are in neither map (an answer without effect); the synchronous call beyond its
lease, the call in a shell session, which command is in which mutex group, a failing
`try_wait`. The runs of `AsyncRun` nest ahmas one deep, its proofs to any depth. Time is abstract: a budget is
spent or not. Workspaces have separate lanes, lock files and records, so one is
modelled. The operating system (flock, rename, kill of a process tree) is taken at
its documented word.

Of the bridge: the session table, its cap and eviction, event replay, the liveness prober,
parsing of HTTP and of roots. Of the permission questions: what section 7 lists as
abstractions, and the text and detection of a refusal. Of the hub: election, discovery,
history, the relays of anything but permission questions.

Whole components that are left out are listed in `PROJECT.json` with their reason. Most
of the repository by lines is of that kind: the terminal interface, settings, set-up,
harness hooks, the agent loop, schemas, profiles. It keeps no state that two actors share.

## 11. Plan

Done: the write queue, the monitor, delivery, the asynchronous command, a session of the
bridge, permission questions, and theorems about all of them, absence of deadlock included.
To come, in the order of what can go wrong:

1. **`HubElection`**: the lock on the rendezvous file, takeover, draining, re-registration
   of instances; then its composition with the reporter of `ScopeGrants`.
2. **`EventStream`**: the broadcast with lag, the dispatcher, `Started` after a fast
   terminal event, progress push redirected by await.
3. Shell sessions, the session table of the bridge with its cap, live logs.
4. Proofs: that a permission question ends (its budget timer, its surfaces), on the lines
   of `ScopeComes`; the composition of `AsyncRun` with the monitor's promise.
