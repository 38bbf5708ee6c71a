------------------------------ MODULE AsyncRun ------------------------------
(***************************************************************************)
(* One asynchronous command from the call to the last thing its task does  *)
(* (ahma_mcp adapter/mod.rs execute_async_in_dir_with_options,             *)
(* execute_pty_async, run_async_operation, execute_with_streaming,         *)
(* pty_exec.rs, mutex_groups.rs, shell_pool.rs).  The task takes the       *)
(* workspace lease and the command group's two locks in turn, runs a       *)
(* process tree, and publishes a result, while the monitor cancels or      *)
(* times out the operation and shutdown aborts the task.                   *)
(*                                                                         *)
(* The lease is what WorkspaceLease promises (WorkspaceQueue implements    *)
(* it), the soft hold with it: a lease held only out of doubt is handed on *)
(* by a timer while the command runs.  A terminal transition is one step   *)
(* with its announcement (OperationMonitor has the steps between): the     *)
(* first one wins.                                                         *)
(***************************************************************************)
EXTENDS SequencesExt, FiniteSets

CONSTANTS
    Op,        \* operations, each run once
    Proc,      \* ahma processes
    Home,      \* [Op -> Proc]
    Parent,    \* [Proc -> Op \cup {None}]: the command a process runs under
    Pty,       \* operations that run in a pseudo-terminal
    Unqueued,  \* operations of the read-only and service lanes
    SoftHold,  \* operations that hold the lease only out of doubt (with_soft_hold)
    NoLease,   \* processes that may fail to open the lease's lock file
    Gated,     \* operations whose command is in the mutex group
    NoLockDir, \* processes that may fail to open the group's lock file
    Leaves,    \* operations whose command may leave descendants behind, or its terminal
    ShutsDown, \* processes that may be asked to shut down
    None

ASSUME AsyncRunAssumption ==
    /\ Home \in [Op -> Proc]
    /\ Parent \in [Proc -> Op \cup {None}] /\ None \notin Op
    /\ UNION {Pty, Unqueued, SoftHold, Gated, Leaves} \subseteq Op
    /\ Pty \cap (Unqueued \cup SoftHold \cup Gated) = {} /\ Unqueued \cap SoftHold = {}
    /\ NoLease \subseteq Proc
    /\ \A p \in Proc : Parent[p] # None => Home[Parent[p]] # p

VARIABLES
    line, holders, \* the lease: places in line, and who has it
    handedOn,  \* leases whose soft hold is over: Lease.held is None
    task,      \* how far each operation's task is
    status,    \* Operation.state; None before add_operation
    token,     \* operations whose cancellation token has fired
    verdict,   \* the status the task is going to publish
    tree,      \* what is left of each operation's process tree
    permit,    \* [Proc -> Op \cup {None}]: the group's semaphore
    groupLock, \* the operation that has the group's kernel lock, or None
    stray,     \* aborted operations whose blocking FsLock::acquire goes on
    waited,    \* operations that have waited max_wait_secs at the group's gate
    handles,   \* Adapter.task_handles
    unstored,  \* spawned tasks whose handle is not yet in task_handles
    late,      \* handles stored after a shutdown's first look at task_handles
    drained,   \* handles that shutdown took out of task_handles
    phase      \* [Proc -> how far the process's Adapter::shutdown is]

lease == <<line, holders, handedOn>>
gate  == <<permit, groupLock, stray, waited>>
books == <<handles, unstored, late, drained, phase>>
vars  == <<line, holders, handedOn, task, status, token, verdict, tree, permit,
           groupLock, stray, waited, handles, unstored, late, drained, phase>>

Active   == {"Pending", "InProgress"}
Verdicts == {"Completed", "Failed", "Cancelled", "TimedOut"}

ASSUME NoneIsNoStatus == None \notin Active \cup Verdicts

Tasks    == {"none", "added", "begun", "looking", "queueing", "leased", "started",
             "atGate", "atLock", "ready", "running", "draining", "killing", "releasing",
             "reporting", "closing", "dropped", "ended"}
\* leader: it runs.  piped: it is gone, a descendant holds its output pipes.
\* left: only descendants are left, with their output elsewhere.
Trees    == {"none", "leader", "piped", "left", "gone"}

\* Operations in one line exclude each other.  The kernel lock that orders the
\* lines is skipped by a nested ahma, and by one that cannot open its file.
Lockless == {p \in Proc : Parent[p] # None \/ p \in NoLease}

Lease == INSTANCE WorkspaceLease WITH
    Overlap <- {ab \in Op \X Op : Home[ab[1]] \in Lockless \/ Home[ab[2]] \in Lockless}

AsyncTypeOK ==
    /\ Lease!LeaseTypeOK
    /\ task \in [Op -> Tasks]
    /\ status \in [Op -> Active \cup Verdicts \cup {None}]
    /\ verdict \in [Op -> Verdicts \cup {None}]
    /\ tree \in [Op -> Trees]
    /\ permit \in [Proc -> Op \cup {None}]
    /\ groupLock \in Op \cup {None}
    /\ phase \in [Proc -> {"up", "cancelled", "drained"}]
    /\ UNION {handedOn, token, stray, waited, handles, unstored, late, drained} \subseteq Op
    /\ \A o \in Op : task[o] \in {"killing", "releasing", "reporting"} => verdict[o] # None

Init ==
    /\ Lease!LeaseInit /\ handedOn = {}
    /\ task = [o \in Op |-> "none"]
    /\ status = [o \in Op |-> None]
    /\ token = {}
    /\ verdict = [o \in Op |-> None]
    /\ tree = [o \in Op |-> "none"]
    /\ permit = [p \in Proc |-> None] /\ groupLock = None
    /\ stray = {} /\ waited = {}
    /\ handles = {} /\ unstored = {} /\ late = {} /\ drained = {}
    /\ phase = [p \in Proc |-> "up"]

-----------------------------------------------------------------------------
Goto(o, stage) == task' = [task EXCEPT ![o] = stage]

Alive(p) == Parent[p] # None => tree[Parent[p]] \notin {"none", "gone"}

\* update_status: a terminal operation is no longer in the active map.
Transition(o, s) ==
    status' = IF status[o] \in Active THEN [status EXCEPT ![o] = s] ELSE status

\* drop(lease), or of a ticket that waits; nothing if it was dropped before.
DropsLease(o) ==
    IF Lease!InSomeLine(o) THEN Lease!Leave(o) /\ UNCHANGED handedOn ELSE UNCHANGED lease

\* MutexGroupGuard is dropped.
DropsGate(o) ==
    /\ permit' = [p \in Proc |-> IF permit[p] = o THEN None ELSE permit[p]]
    /\ groupLock' = IF groupLock = o THEN None ELSE groupLock

\* The operations of the ahmas that a command started.
Under(o) == {x \in Op : Parent[Home[x]] = o}

\* The last process of the command is gone, its ahmas among them.  What those
\* ran leads process groups of its own and runs on.
GroupEnds(o, stage) ==
    /\ tree' = [tree EXCEPT ![o] = "gone"]
    /\ task' = [x \in Op |-> IF x = o THEN stage
                             ELSE IF x \in Under(o) /\ task[x] # "none" THEN "ended"
                             ELSE task[x]]
    /\ Lease!Vanish({p \in Proc : Parent[p] = o})
    /\ permit' = [p \in Proc |-> IF Parent[p] = o THEN None ELSE permit[p]]
    /\ groupLock' = IF groupLock \in Under(o) THEN None ELSE groupLock
    /\ stray' = stray \ Under(o)
    /\ handles' = handles \ Under(o)
    /\ unstored' = unstored \ Under(o)
    /\ drained' = drained \ Under(o)
    /\ UNCHANGED <<handedOn, status, token, verdict, waited, late, phase>>

-----------------------------------------------------------------------------
(***************************************************************************)
(* The caller's part.                                                      *)
(***************************************************************************)
\* The place in line is taken, then the operation is added.
Submit(o) ==
    /\ task[o] = "none" /\ Alive(Home[o])
    /\ IF o \in Unqueued \cup Pty THEN UNCHANGED lease
       ELSE Lease!Arrive(o) /\ UNCHANGED handedOn
    /\ Goto(o, "added")
    /\ status' = [status EXCEPT ![o] = "Pending"]
    /\ UNCHANGED <<token, verdict, tree, gate, books>>

Spawn(o) ==
    /\ task[o] = "added" /\ o \notin Pty
    /\ Goto(o, "looking")
    /\ unstored' = unstored \cup {o}
    /\ UNCHANGED <<lease, status, token, verdict, tree, gate, handles, late, drained, phase>>

\* execute_pty_async: InProgress already, and no place in line yet.
BeginPty(o) ==
    /\ task[o] = "added" /\ o \in Pty
    /\ Goto(o, IF status[o] \in Active THEN "begun" ELSE "ended")
    /\ Transition(o, "InProgress")
    /\ UNCHANGED <<lease, token, verdict, tree, gate, books>>

\* Fault: the lane of a pseudo-terminal's command is not asked for.
SpawnPty_Unordered(o) ==
    /\ task[o] = "begun"
    /\ Goto(o, "ready")
    /\ unstored' = unstored \cup {o}
    /\ UNCHANGED <<lease, status, token, verdict, tree, gate, handles, late, drained, phase>>

SpawnPty(o) ==
    /\ task[o] = "begun"
    /\ Lease!Arrive(o)
    /\ Goto(o, "queueing")
    /\ unstored' = unstored \cup {o}
    /\ UNCHANGED <<handedOn, status, token, verdict, tree, gate, handles, late, drained, phase>>

StoreHandle(o) ==
    /\ o \in unstored
    /\ handles' = handles \cup {o}
    /\ unstored' = unstored \ {o}
    /\ late' = IF phase[Home[o]] = "up" THEN late ELSE late \cup {o}
    /\ UNCHANGED <<lease, task, status, token, verdict, tree, gate, drained, phase>>

-----------------------------------------------------------------------------
(***************************************************************************)
(* The task, up to the spawn.                                              *)
(***************************************************************************)
\* An operation cancelled before its task ran is not in the active map.
LookUp(o) ==
    /\ task[o] = "looking"
    /\ IF status[o] \in Active
       THEN /\ Goto(o, IF o \in Unqueued THEN "leased" ELSE "queueing")
            /\ UNCHANGED lease
       ELSE Goto(o, "ended") /\ DropsLease(o)
    /\ UNCHANGED <<status, token, verdict, tree, gate, books>>

TakeLease(o) ==
    /\ task[o] = "queueing"
    /\ Lease!Take(o)
    /\ Goto(o, IF o \in Pty THEN "ready" ELSE "leased")
    /\ UNCHANGED <<handedOn, status, token, verdict, tree, gate, books>>

\* The timer of release_after: the workspace is handed on, whatever the task or
\* its command is doing.
SoftRelease(o) ==
    /\ o \in SoftHold /\ o \in holders
    /\ Lease!Leave(o)
    /\ handedOn' = handedOn \cup {o}
    /\ UNCHANGED <<task, status, token, verdict, tree, gate, books>>

\* handle_cancellation comes too late: who fires a token ends the operation.
GiveUpQueueing(o) ==
    /\ task[o] = "queueing" /\ o \in token
    /\ DropsLease(o)
    /\ Goto(o, "ended")
    /\ handles' = handles \ {o}
    /\ UNCHANGED <<status, token, verdict, tree, gate, unstored, late, drained, phase>>

Begin(o) ==
    /\ task[o] = "leased"
    /\ Transition(o, "InProgress")
    /\ Goto(o, "started")
    /\ UNCHANGED <<lease, token, verdict, tree, gate, books>>

\* The last look at the token before the spawn.  This return leaves the handle.
CheckToken(o) ==
    /\ task[o] = "started"
    /\ IF o \in token
       THEN Goto(o, "ended") /\ DropsLease(o)
       ELSE Goto(o, IF o \in Gated THEN "atGate" ELSE "ready") /\ UNCHANGED lease
    /\ UNCHANGED <<status, token, verdict, tree, gate, books>>

\* Layer 1, the process's semaphore.
TakePermit(o) ==
    /\ task[o] = "atGate" /\ permit[Home[o]] = None
    /\ permit' = [permit EXCEPT ![Home[o]] = o]
    /\ Goto(o, "atLock")
    /\ UNCHANGED <<lease, status, token, verdict, tree, groupLock, stray, waited, books>>

\* Time runs out on an operation that waits for another.
MaxWaitElapses(o) ==
    /\ \/ task[o] = "atGate" /\ permit[Home[o]] # None
       \/ task[o] = "atLock" /\ groupLock # None
    /\ waited' = waited \cup {o}
    /\ UNCHANGED <<lease, task, status, token, verdict, tree, permit, groupLock, stray, books>>

\* The failure is what the task is going to publish.
Fails(o) ==
    /\ Goto(o, IF o \in Pty THEN "reporting" ELSE "releasing")
    /\ verdict' = [verdict EXCEPT ![o] = "Failed"]

GateTimesOut(o) ==
    /\ task[o] = "atGate" /\ o \in waited
    /\ Fails(o)
    /\ UNCHANGED <<lease, status, token, tree, gate, books>>

\* Fault: the kernel lock is not waited for.
LockGroup_Shared(o) ==
    /\ task[o] = "atLock"
    /\ groupLock' = o
    /\ Goto(o, "ready")
    /\ UNCHANGED <<lease, status, token, verdict, tree, permit, stray, waited, books>>

\* Layer 2, the kernel lock, in a blocking thread that nothing interrupts.
LockGroup(o) ==
    /\ task[o] = "atLock" /\ groupLock = None
    /\ groupLock' = o
    /\ Goto(o, "ready")
    /\ UNCHANGED <<lease, status, token, verdict, tree, permit, stray, waited, books>>

NoGroupLock(o) ==
    /\ task[o] = "atLock" /\ Home[o] \in NoLockDir
    /\ Goto(o, "ready")
    /\ UNCHANGED <<lease, status, token, verdict, tree, gate, books>>

\* The sandboxed command cannot be built or spawned.
FailToStart(o) ==
    /\ task[o] = "ready"
    /\ Fails(o)
    /\ UNCHANGED <<lease, status, token, tree, gate, books>>

StartTree(o) ==
    /\ task[o] = "ready"
    /\ tree' = [tree EXCEPT ![o] = "leader"]
    /\ Goto(o, "running")
    /\ UNCHANGED <<lease, status, token, verdict, gate, books>>

-----------------------------------------------------------------------------
(***************************************************************************)
(* While the command runs, and after.                                      *)
(***************************************************************************)
\* Its leader exits by itself, and may leave descendants.
LeaderExits(o) ==
    /\ tree[o] = "leader"
    /\ \/ GroupEnds(o, task[o])
       \/ /\ o \in Leaves
          /\ \E t \in {"piped", "left"} : tree' = [tree EXCEPT ![o] = t]
          /\ UNCHANGED <<lease, task, status, token, verdict, gate, books>>

DescendantsEnd(o) ==
    /\ tree[o] \in {"piped", "left"}
    /\ GroupEnds(o, task[o])

Ends(o, v) == verdict' = [verdict EXCEPT ![o] = v]

\* try_wait sees the leader gone.  What follows, up to the result, looks
\* neither at the token nor at the deadline.
NoticeExit(o) ==
    /\ task[o] = "running" /\ o \notin Pty
    /\ tree[o] # "leader"
    /\ Goto(o, "draining")
    /\ UNCHANGED <<lease, status, token, verdict, tree, gate, books>>

\* drain_remaining_stream_lines has read both pipes to their end.
DrainEnds(o) ==
    /\ task[o] = "draining" /\ o \notin Pty
    /\ tree[o] # "piped"
    /\ \E v \in {"Completed", "Failed"} : Ends(o, v)
    /\ Goto(o, "releasing")
    /\ UNCHANGED <<lease, status, token, tree, gate, books>>

\* The reader of the PTY master gets to the end of it: nobody has the terminal
\* open, though the command may run on without it.
PtyHangsUp(o) ==
    /\ task[o] = "running" /\ o \in Pty
    /\ tree[o] # "piped" /\ (tree[o] = "leader" => o \in Leaves)
    /\ Goto(o, "draining")
    /\ UNCHANGED <<lease, status, token, verdict, tree, gate, books>>

\* exit_rx.recv(), which looks neither at the token nor at the deadline.
NoticePtyExit(o) ==
    /\ task[o] = "draining" /\ o \in Pty
    /\ tree[o] # "leader"
    /\ \E v \in {"Completed", "Failed"} : Ends(o, v)
    /\ Goto(o, "reporting")
    /\ UNCHANGED <<lease, status, token, tree, gate, books>>

NoticeCancel(o) ==
    /\ task[o] = "running" /\ o \in token
    /\ Ends(o, "Cancelled")
    /\ Goto(o, "killing")
    /\ UNCHANGED <<lease, status, token, tree, gate, books>>

RunTimesOut(o) ==
    /\ task[o] = "running"
    /\ Ends(o, "TimedOut")
    /\ Goto(o, "killing")
    /\ UNCHANGED <<lease, status, token, tree, gate, books>>

\* Fault: the task goes on without a signal to the group.
KillTree_Skips(o) ==
    /\ task[o] = "killing"
    /\ Goto(o, IF o \in Pty THEN "reporting" ELSE "releasing")
    /\ UNCHANGED <<lease, status, token, verdict, tree, gate, books>>

\* Fault: the task waits for the tree to end, and sends no signal.
KillTree_OnlyWaits(o) ==
    /\ task[o] = "killing" /\ tree[o] = "gone"
    /\ Goto(o, IF o \in Pty THEN "reporting" ELSE "releasing")
    /\ UNCHANGED <<lease, status, token, verdict, tree, gate, books>>

\* SIGKILL to the process group.  A descendant that left the group survives it.
KillTree(o) ==
    LET next == IF o \in Pty THEN "reporting" ELSE "releasing"
    IN  /\ task[o] = "killing"
        /\ \/ GroupEnds(o, next)
           \/ /\ o \in Leaves /\ tree[o] # "gone"
              /\ tree' = [tree EXCEPT ![o] = "left"]
              /\ Goto(o, next)
              /\ UNCHANGED <<lease, status, token, verdict, gate, books>>

\* Fault: the lease is not given back before the result.
DropLease_Late(o) ==
    /\ task[o] = "releasing"
    /\ Goto(o, IF o \in Pty THEN "closing" ELSE "reporting")
    /\ UNCHANGED <<lease, status, token, verdict, tree, gate, books>>

\* Before the result, except that a pseudo-terminal's result is out already.
DropLease(o) ==
    /\ task[o] = "releasing"
    /\ DropsLease(o)
    /\ Goto(o, IF o \in Pty THEN "closing" ELSE "reporting")
    /\ UNCHANGED <<status, token, verdict, tree, gate, books>>

Report(o) ==
    /\ task[o] = "reporting"
    /\ Transition(o, verdict[o])
    /\ Goto(o, IF o \in Pty THEN "releasing" ELSE "closing")
    /\ UNCHANGED <<lease, token, verdict, tree, gate, books>>

Close(o) ==
    /\ task[o] = "closing"
    /\ handles' = handles \ {o}
    /\ DropsGate(o)
    /\ Goto(o, "ended")
    /\ UNCHANGED <<lease, status, token, verdict, tree, stray, waited, unstored, late, drained,
                   phase>>

-----------------------------------------------------------------------------
(***************************************************************************)
(* The monitor, and Adapter::shutdown.                                     *)
(***************************************************************************)
\* cancel_operation_with_reason, timeout_operation.
Interrupt(o) ==
    /\ status[o] \in Active /\ Alive(Home[o])
    /\ \E s \in {"Cancelled", "TimedOut"} : Transition(o, s)
    /\ token' = token \cup {o}
    /\ UNCHANGED <<lease, task, verdict, tree, gate, books>>

\* Every operation with a handle is cancelled, under the lock of task_handles.
ShutdownCancels(p) ==
    LET S == {o \in handles : Home[o] = p /\ status[o] \in Active}
    IN  /\ p \in ShutsDown /\ phase[p] = "up" /\ Alive(p)
        /\ phase' = [phase EXCEPT ![p] = "cancelled"]
        /\ status' = [o \in Op |-> IF o \in S THEN "Cancelled" ELSE status[o]]
        /\ token' = token \cup S
        /\ UNCHANGED <<lease, task, verdict, tree, gate, handles, unstored, late, drained>>

\* Fault: only the tasks that were cancelled are taken.
ShutdownDrains_Cancelled(p) ==
    LET S == {o \in handles : Home[o] = p}
    IN  /\ phase[p] = "cancelled" /\ Alive(p)
        /\ phase' = [phase EXCEPT ![p] = "drained"]
        /\ drained' = drained \cup (S \cap token)
        /\ handles' = handles \ S
        /\ UNCHANGED <<lease, task, status, token, verdict, tree, gate, unstored, late>>

ShutdownDrains(p) ==
    LET S == {o \in handles : Home[o] = p}
    IN  /\ phase[p] = "cancelled" /\ Alive(p)
        /\ phase' = [phase EXCEPT ![p] = "drained"]
        /\ drained' = drained \cup S
        /\ handles' = handles \ S
        /\ UNCHANGED <<lease, task, status, token, verdict, tree, gate, unstored, late>>

\* Fault: nothing guards the tree of a dropped future.
AbortTask_Unguarded(o) ==
    /\ o \in drained /\ task[o] \notin {"dropped", "ended"}
    /\ stray' = IF task[o] = "atLock" THEN stray \cup {o} ELSE stray
    /\ Goto(o, "dropped")
    /\ UNCHANGED <<lease, status, token, verdict, tree, permit, groupLock, waited, books>>

\* drain_task_handle, after the grace: the task's future is dropped.  Only the
\* guard of a tree whose leader is not reaped kills it.
AbortTask(o) ==
    /\ o \in drained /\ task[o] \notin {"dropped", "ended"}
    /\ LET guarded == task[o] \in {"running", "killing"} /\ o \notin Pty
       IN  \/ guarded /\ GroupEnds(o, "dropped")
           \/ /\ guarded => o \in Leaves /\ tree[o] # "gone"
              /\ tree' = IF guarded THEN [tree EXCEPT ![o] = "left"] ELSE tree
              /\ stray' = IF task[o] = "atLock" THEN stray \cup {o} ELSE stray
              /\ Goto(o, "dropped")
              /\ UNCHANGED <<lease, status, token, verdict, permit, groupLock, waited, books>>

Unwind(o) ==
    /\ task[o] = "dropped"
    /\ DropsLease(o) /\ DropsGate(o)
    /\ Goto(o, "ended")
    /\ UNCHANGED <<status, token, verdict, tree, stray, waited, books>>

\* The blocking thread gets the lock for a task that is gone, and closes it.
StrayLocks(o) ==
    /\ o \in stray /\ groupLock = None
    /\ stray' = stray \ {o}
    /\ UNCHANGED <<lease, task, status, token, verdict, tree, permit, groupLock, waited, books>>

-----------------------------------------------------------------------------
Call(o) == Spawn(o) \/ BeginPty(o) \/ SpawnPty(o) \/ StoreHandle(o)

Prepare(o) ==
    \/ LookUp(o) \/ TakeLease(o) \/ GiveUpQueueing(o) \/ Begin(o) \/ CheckToken(o)
    \/ TakePermit(o) \/ GateTimesOut(o) \/ LockGroup(o) \/ NoGroupLock(o)
    \/ FailToStart(o) \/ StartTree(o)

Finish(o) ==
    \/ NoticeExit(o) \/ DrainEnds(o) \/ PtyHangsUp(o) \/ NoticePtyExit(o)
    \/ NoticeCancel(o) \/ KillTree(o) \/ DropLease(o) \/ Report(o) \/ Close(o) \/ Unwind(o)

Shutdown(p) == ShutdownCancels(p) \/ ShutdownDrains(p)

Next ==
    \/ \E o \in Op :
        \/ Submit(o) \/ Call(o) \/ Prepare(o) \/ SoftRelease(o) \/ MaxWaitElapses(o)
        \/ RunTimesOut(o) \/ Finish(o) \/ LeaderExits(o) \/ DescendantsEnd(o)
        \/ Interrupt(o) \/ AbortTask(o) \/ StrayLocks(o)
    \/ \E p \in Proc : Shutdown(p)

Spec == Init /\ [][Next]_vars

(***************************************************************************)
(* Fairness: the runtime polls what is ready, a deadline fires.  No        *)
(* command is assumed to end, and nobody has to cancel anything.           *)
(***************************************************************************)
FairSpec ==
    /\ Spec
    /\ \A o \in Op : /\ WF_vars(Call(o)) /\ WF_vars(Prepare(o)) /\ WF_vars(Finish(o))
                     /\ WF_vars(MaxWaitElapses(o)) /\ WF_vars(RunTimesOut(o))

-----------------------------------------------------------------------------
\* R2.7.1, R2.7.11: the leader of an exclusive command runs under the lease, on
\* every path, until a soft hold has handed it on, unless its ahma died with the
\* command it ran under, or shut down while the command had a pseudo-terminal
\* (whose child no guard kills).
LeaderUnderLease ==
    \A o \in Op \ Unqueued : tree[o] = "leader" =>
        o \in holders \cup handedOn \/ ~Alive(Home[o]) \/ o \in Pty \cap drained

\* mutex_groups.rs, "at most one runs at a time within each workspace": across
\* processes too, unless one of the two could not open the lock file.
GateIsExclusive ==
    \A o, x \in Gated : tree[o] = "leader" /\ tree[x] = "leader" /\ o # x =>
        \/ Home[o] # Home[x]
           /\ \E y \in {o, x} : Home[y] \in NoLockDir /\ groupLock # y
        \/ ~Alive(Home[o]) \/ ~Alive(Home[x])

\* finalize_streaming_operation: whoever sees the result of a command finds its
\* workspace free, and neither its leader nor a holder of its output is left.
ResultFreesLease ==
    \A o \in Op \ Pty : status[o] \in {"Completed", "Failed"} =>
        ~Lease!InSomeLine(o) /\ tree[o] \notin {"leader", "piped"}

\* Every return of the task, early ones and aborts too, gives back the place in
\* line and the gate, and leaves no leader but that of a pseudo-terminal.
NothingOutlivesTask ==
    \A o \in Op : task[o] = "ended" /\ Alive(Home[o]) =>
        /\ ~Lease!InSomeLine(o)
        /\ groupLock # o /\ \A p \in Proc : permit[p] # o
        /\ tree[o] = "leader" => o \in Pty \cap drained

\* Adapter::shutdown, "cancelling active operations, aborting tasks": a task that
\* goes on has its handle where the shutdown will look, or where it has been taken
\* to be aborted, and then its operation was settled first.  The others are those
\* whose handle was not in task_handles at the first look: stored between the two
\* it is taken, but its operation not cancelled; after them nothing looks again.
ShutdownReachesTasks ==
    \A o \in Op : task[o] \notin {"none", "added", "begun", "ended"} =>
        \/ o \in unstored
        \/ o \in late \cap (handles \cup drained)
        \/ o \in handles /\ phase[Home[o]] = "up"
        \/ /\ status[o] \notin Active
           /\ \/ o \in handles /\ phase[Home[o]] = "cancelled"
              \/ o \in drained /\ phase[Home[o]] = "drained"

\* The promise of the timeouts: whatever a command does and whoever waits for
\* whom, its task ends, and with it the hold on the lease and the gate.  (No
\* operation runs twice, so all have ended from some time on.)
EveryTaskEnds == <>[](\A o \in Op : task[o] \in {"none", "ended"})

\* cancel_all_operations: a cancelled operation's "entire descendant process
\* tree" is reaped; here, all that hold on to its output, if its ahma lives.
CancelReapsTree ==
    <>[](\A o \in Op : status[o] \in {"Cancelled", "TimedOut"} =>
             tree[o] \notin {"leader", "piped"} \/ ~Alive(Home[o]))
=============================================================================
