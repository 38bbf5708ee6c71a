--------------------------- MODULE WorkspaceQueue ---------------------------
(***************************************************************************)
(* The write queue of ONE workspace (ahma_mcp adapter/workspace_queue.rs). *)
(* An exclusive operation takes a place in its own process's FIFO lane,    *)
(* waits until it is the head, then polls one advisory kernel lock         *)
(* (flock) that every ahma process of the machine shares.  The holder      *)
(* publishes an advisory record beside the lock.  Workspaces have separate *)
(* lanes, lock files and records, so one is modelled.                      *)
(*                                                                         *)
(* A step is what happens between two points where another thread, task or *)
(* process can run: a syscall, an await, a mutex section.                  *)
(***************************************************************************)
EXTENDS SequencesExt, FiniteSets

CONSTANTS
    Op,         \* exclusive operations (each is used again once it is over)
    Prober,     \* callers of probe(): the edit guard, the file tools
    Proc,       \* ahma processes
    Home,       \* [Op \cup Prober -> Proc]: the process of an operation
    Parent,     \* [Proc -> Op \cup {None}]: the command a process runs under
    Below,      \* [Op -> SUBSET Proc]: the processes in a command's tree
    SoftHold,   \* operations held only out of doubt (SPEC R2.7.11)
    Leaves,     \* operations whose command may run on unwatched (SPEC R2.7.1)
    Dropped,    \* operations whose caller may drop the acquire future
    Mortal,     \* processes that may be killed at any moment
    Unopenable, \* processes for which opening the lock file may fail
    Confined,   \* processes that may not write the lock directory (Landlock)
    None        \* no operation, no owner, no record

ASSUME ConstantsAssumption ==
    /\ Home \in [Op \cup Prober -> Proc]
    /\ Parent \in [Proc -> Op \cup {None}]
    /\ Below \in [Op -> SUBSET Proc]
    /\ SoftHold \subseteq Op /\ Leaves \subseteq Op /\ Dropped \subseteq Op
    /\ Mortal \subseteq Proc /\ Unopenable \subseteq Proc
    /\ Confined \subseteq Proc

(***************************************************************************)
(* The tree below a command: the processes it started, and theirs.  A      *)
(* process is not inside its own tree.                                     *)
(***************************************************************************)
ASSUME TreeAssumption ==
    \A o \in Op :
        /\ \A p \in Proc : p \in Below[o] <=>
               \/ Parent[p] = o
               \/ Parent[p] # None /\ Home[Parent[p]] \in Below[o]
        /\ Home[o] \notin Below[o]

\* And theirs, to any depth.
ASSUME TreesNest ==
    \A o, x \in Op : Home[x] \in Below[o] => Below[x] \subseteq Below[o]

VARIABLES
    pc,          \* where each operation is in Ticket::acquire / Held::drop
    lane,        \* [Proc -> Seq(Op)]: LaneState.entries
    woken,       \* operations whose registered Notified future has fired
    flock,       \* the open file description that owns the kernel lock
    record,      \* the published holder.json, or None
    cmd,         \* whether processes of each operation's command run, watched or not
    strayTry,    \* operations with an orphaned try_acquire in the blocking pool
    strayRename, \* operations with an orphaned rename in the blocking pool
    look         \* what each prober is doing, and what it was told

vars == <<pc, lane, woken, flock, record, cmd, strayTry, strayRename, look>>

(***************************************************************************)
(* Owners of the kernel lock: an operation, the orphaned attempt of one    *)
(* whose future is gone, or a probe.                                       *)
(***************************************************************************)
Opened(kind, id) == [kind |-> kind, id |-> id]
Owner == [kind : {"op", "stray"}, id : Op] \cup [kind : {"probe"}, id : Prober]

Waiting   == {"queued", "registered", "checked", "parked"}
AtHead    == {"trying", "backoff", "publishing", "renaming", "renamed"}
Holding   == {"granted", "dropping", "withdrawn"}
InLine    == Waiting \cup AtHead \cup Holding \cup {"leaving"}
HandedOn  == {"left", "unlocking", "released"}
PCs       == InLine \cup HandedOn \cup {"idle", "gone"}

\* Processes of the command run: its ahma watches it, or has left it behind.
Alive     == {"running", "left"}
Commands  == Alive \cup {"none", "ended"}
Records   == [op : Op, live : BOOLEAN] \cup {None}
Looks     == [at : {"idle", "opening", "locked", "busy", "free"}, by : {None}]
             \cup [at : {"held"}, by : Op \cup {None}]

ASSUME NoneAssumption == None \notin Op \cup Owner \cup [op : Op, live : BOOLEAN]

TypeOK ==
    /\ pc \in [Op -> PCs]
    /\ lane \in [Proc -> Seq(Op)]
    /\ woken \subseteq Op
    /\ flock \in Owner \cup {None}
    /\ record \in Records
    /\ cmd \in [Op -> Commands]
    /\ strayTry \subseteq Op
    /\ strayRename \subseteq Op
    /\ look \in [Prober -> Looks]

Unseen == [at |-> "idle", by |-> None]

Init ==
    /\ pc = [o \in Op |-> "idle"]
    /\ lane = [p \in Proc |-> <<>>]
    /\ woken = {}
    /\ flock = None
    /\ record = None
    /\ cmd = [o \in Op |-> "none"]
    /\ strayTry = {}
    /\ strayRename = {}
    /\ look = [b \in Prober |-> Unseen]

-----------------------------------------------------------------------------
Goto(o, at) == pc' = [pc EXCEPT ![o] = at]

\* inherited_lease: the process carries the stamp of an ancestor's lease.
Inherits(p) == Parent[p] # None

\* A nested ahma exists only while processes of the command that started it run.
Exists(p) == Inherits(p) => cmd[Parent[p]] \in Alive

\* LaneQueue::is_head
IsHead(o) == lane[Home[o]] # <<>> /\ Head(lane[Home[o]]) = o

\* LaneQueue::remove keeps every other entry, in order.
Place(o) == CHOOSE i \in DOMAIN lane[Home[o]] : lane[Home[o]][i] = o
Without(o) == [lane EXCEPT ![Home[o]] = RemoveAt(@, Place(o))]

\* Entry.granted: set by mark_granted, gone with the entry.
GrantedIn(p) == {o \in Op : Home[o] = p /\ pc[o] \in Holding}

\* Fault: a lock that outlives the file handle.
Closed_Leaks(owner) == flock

\* Closing an open file description releases the flock it owns.
Closed(owner) == IF flock = owner THEN None ELSE flock

-----------------------------------------------------------------------------
(***************************************************************************)
(* Ticket::acquire, layer 1: the in-process FIFO.                          *)
(***************************************************************************)

\* WorkspaceQueue::enqueue: a place in line, taken synchronously.
Enqueue(o) ==
    /\ pc[o] = "idle" /\ cmd[o] = "none"
    /\ o \notin strayTry \cup strayRename
    /\ Exists(Home[o])
    /\ Goto(o, "queued")
    /\ lane' = [lane EXCEPT ![Home[o]] = Append(@, o)]
    /\ UNCHANGED <<woken, flock, record, cmd, strayTry, strayRename, look>>

\* notified().enable(): registered before the check that follows.
Register(o) ==
    /\ pc[o] = "queued"
    /\ Goto(o, "registered")
    /\ woken' = woken \ {o}
    /\ UNCHANGED <<lane, flock, record, cmd, strayTry, strayRename, look>>

\* The head goes on to the kernel lock; inside an ancestor's lease there is
\* nothing to take and nothing to publish.
CheckHead(o) ==
    /\ pc[o] = "registered"
    /\ Goto(o, IF ~IsHead(o) THEN "checked"
               ELSE IF Inherits(Home[o]) THEN "granted" ELSE "trying")
    /\ UNCHANGED <<lane, woken, flock, record, cmd, strayTry, strayRename, look>>

\* Between the check and the await another thread can leave the lane.
Await(o) ==
    /\ pc[o] = "checked"
    /\ Goto(o, "parked")
    /\ UNCHANGED <<lane, woken, flock, record, cmd, strayTry, strayRename, look>>

\* The select: a notification, or the wake-up that re-observes every 5 s.
Wake(o) ==
    /\ pc[o] = "parked" /\ o \in woken
    /\ Goto(o, "queued")
    /\ UNCHANGED <<lane, woken, flock, record, cmd, strayTry, strayRename, look>>

Reobserve(o) ==
    /\ pc[o] = "parked" /\ o \notin woken
    /\ Goto(o, "queued")
    /\ UNCHANGED <<lane, woken, flock, record, cmd, strayTry, strayRename, look>>

(***************************************************************************)
(* Layer 2: the kernel lock, polled from the blocking pool.                *)
(***************************************************************************)

\* Fault: a shared lock, which other holders do not keep out.
TakeLock_Shared(o) ==
    /\ pc[o] = "trying" /\ flock \in {None} \cup [kind : {"op"}, id : Op]
    /\ flock' = Opened("op", o)
    /\ Goto(o, "publishing")
    /\ UNCHANGED <<lane, woken, record, cmd, strayTry, strayRename, look>>

\* FsLock::try_acquire: Ok(Some), Ok(None), Err.
TakeLock(o) ==
    /\ pc[o] = "trying" /\ flock = None
    /\ flock' = Opened("op", o)
    /\ Goto(o, "publishing")
    /\ UNCHANGED <<lane, woken, record, cmd, strayTry, strayRename, look>>

FindBusy(o) ==
    /\ pc[o] = "trying" /\ flock # None
    /\ Goto(o, "backoff")
    /\ UNCHANGED <<lane, woken, flock, record, cmd, strayTry, strayRename, look>>

\* "Degrade loudly, never wedge": no lock, and so no record.
Degrade(o) ==
    /\ pc[o] = "trying" /\ Home[o] \in Unopenable
    /\ Goto(o, "granted")
    /\ UNCHANGED <<lane, woken, flock, record, cmd, strayTry, strayRename, look>>

Retry(o) ==
    /\ pc[o] = "backoff"
    /\ Goto(o, "trying")
    /\ UNCHANGED <<lane, woken, flock, record, cmd, strayTry, strayRename, look>>

(***************************************************************************)
(* publish_holder: write a private temp file, rename it over the record.   *)
(* Both run in the blocking pool while the task awaits them.  A process    *)
(* that may not write the lock directory can lock a file it opens          *)
(* read-only, but its record stays unpublished.                            *)
(***************************************************************************)
\* Fault: the temporary file is never renamed over the record.
WriteTemp_Only(o) ==
    /\ pc[o] = "publishing"
    /\ Goto(o, "granted")
    /\ UNCHANGED <<lane, woken, flock, record, cmd, strayTry, strayRename, look>>

WriteTemp(o) ==
    /\ pc[o] = "publishing"
    /\ Goto(o, IF Home[o] \in Confined THEN "granted" ELSE "renaming")
    /\ UNCHANGED <<lane, woken, flock, record, cmd, strayTry, strayRename, look>>

RenameLands(o) ==
    /\ pc[o] = "renaming"
    /\ record' = [op |-> o, live |-> TRUE]
    /\ Goto(o, "renamed")
    /\ UNCHANGED <<lane, woken, flock, cmd, strayTry, strayRename, look>>

\* Fault: the guard is bound to _, and dropped before the lease is returned.
Grant_DropsGuard(o) ==
    /\ pc[o] = "renamed"
    /\ flock' = Closed(Opened("op", o))
    /\ Goto(o, "granted")
    /\ UNCHANGED <<lane, woken, record, cmd, strayTry, strayRename, look>>

\* The task resumes: mark_granted, and the Lease is returned.
Grant(o) ==
    /\ pc[o] = "renamed"
    /\ Goto(o, "granted")
    /\ UNCHANGED <<lane, woken, flock, record, cmd, strayTry, strayRename, look>>

(***************************************************************************)
(* Giving the place up.  The token is seen only at the two selects; the    *)
(* caller (acquire_for_sync's timeout) may drop the future at any await,   *)
(* and what already runs in the blocking pool runs on.                     *)
(***************************************************************************)
Cancel(o) ==
    /\ pc[o] \in {"parked", "backoff"}
    /\ Goto(o, "leaving")
    /\ UNCHANGED <<lane, woken, flock, record, cmd, strayTry, strayRename, look>>

DropFuture(o) ==
    /\ o \in Dropped
    /\ pc[o] \in {"queued", "parked"} \cup AtHead
    /\ Goto(o, "leaving")
    /\ flock' = Closed(Opened("op", o))
    /\ strayTry' = IF pc[o] = "trying" THEN strayTry \cup {o} ELSE strayTry
    /\ strayRename' = IF pc[o] = "renaming" THEN strayRename \cup {o}
                                            ELSE strayRename
    /\ UNCHANGED <<lane, woken, record, cmd, look>>

\* The orphaned closure takes the lock, and its unread result is dropped.
StrayTakes(o) ==
    /\ o \in strayTry /\ flock = None
    /\ flock' = Opened("stray", o)
    /\ UNCHANGED <<pc, lane, woken, record, cmd, strayTry, strayRename, look>>

StrayEnds(o) ==
    /\ o \in strayTry /\ (flock # None \/ Home[o] \in Unopenable)
    /\ strayTry' = strayTry \ {o}
    /\ flock' = Closed(Opened("stray", o))
    /\ UNCHANGED <<pc, lane, woken, record, cmd, strayRename, look>>

StrayRenames(o) ==
    /\ o \in strayRename
    /\ strayRename' = strayRename \ {o}
    /\ record' = [op |-> o, live |-> TRUE]
    /\ UNCHANGED <<pc, lane, woken, flock, cmd, strayTry, look>>

(***************************************************************************)
(* The lease: the command runs under it, and Held::drop hands it on when   *)
(* the operation drops it or, for a soft hold, when its timer fires.       *)
(***************************************************************************)
StartCommand(o) ==
    /\ cmd[o] = "none"
    /\ \/ pc[o] = "granted"
       \/ o \in SoftHold /\ pc[o] \in Holding \cup HandedOn
    /\ cmd' = [cmd EXCEPT ![o] = "running"]
    /\ UNCHANGED <<pc, lane, woken, flock, record, strayTry, strayRename, look>>

SoftRelease(o) ==
    /\ o \in SoftHold /\ pc[o] = "granted"
    /\ Goto(o, "dropping")
    /\ UNCHANGED <<lane, woken, flock, record, cmd, strayTry, strayRename, look>>

\* Its ahma stops watching the command and kills nothing, though processes of
\* it run on: the leader has exited, its pipes are drained and the kill guard is
\* disarmed (a descendant with its output redirected is not looked for), or a
\* shutdown has aborted the task of a pseudo-terminal.
Abandon(o) ==
    /\ o \in Leaves /\ cmd[o] = "running"
    /\ cmd' = [cmd EXCEPT ![o] = "left"]
    /\ UNCHANGED <<pc, lane, woken, flock, record, strayTry, strayRename, look>>

\* drop(lease): the command is over or left behind, or will never start.
DropLease(o) ==
    /\ pc[o] = "granted" /\ cmd[o] # "running"
    /\ Goto(o, "dropping")
    /\ cmd' = [cmd EXCEPT ![o] = IF @ = "left" THEN "left" ELSE "ended"]
    /\ UNCHANGED <<lane, woken, flock, record, strayTry, strayRename, look>>

Published(o) == flock = Opened("op", o) /\ Home[o] \notin Confined

\* Fault: the record is left for the next holder to replace.
Withdraw_Keeps(o) ==
    /\ pc[o] = "dropping"
    /\ Goto(o, "withdrawn")
    /\ UNCHANGED <<lane, woken, flock, record, cmd, strayTry, strayRename, look>>

\* Held::drop: withdraw the record, leave the lane, and only then (the field
\* drop) close the lock file.
Withdraw(o) ==
    /\ pc[o] = "dropping"
    /\ record' = IF Published(o) THEN None ELSE record
    /\ Goto(o, "withdrawn")
    /\ UNCHANGED <<lane, woken, flock, cmd, strayTry, strayRename, look>>

\* LaneQueue::remove, from Held::drop or Ticket::drop: the entry goes under
\* the mutex, the waiters are notified after it.
LeaveLane(o) ==
    /\ pc[o] \in {"withdrawn", "leaving"}
    /\ lane' = Without(o)
    /\ Goto(o, IF pc[o] = "withdrawn" THEN "left" ELSE "gone")
    /\ UNCHANGED <<woken, flock, record, cmd, strayTry, strayRename, look>>

\* Fault: the entry is removed and nobody is notified.
NotifyWaiters_Silent(o) ==
    /\ pc[o] \in {"left", "gone"}
    /\ Goto(o, IF pc[o] = "left" THEN "unlocking" ELSE "idle")
    /\ UNCHANGED <<lane, woken, flock, record, cmd, strayTry, strayRename, look>>

\* Fault: without enable() a waiter is only on the list once it is polled.
NotifyWaiters_OnlyPolled(o) ==
    /\ pc[o] \in {"left", "gone"}
    /\ woken' = woken \cup {w \in Op : Home[w] = Home[o] /\ pc[w] = "parked"}
    /\ Goto(o, IF pc[o] = "left" THEN "unlocking" ELSE "idle")
    /\ UNCHANGED <<lane, flock, record, cmd, strayTry, strayRename, look>>

NotifyWaiters(o) ==
    /\ pc[o] \in {"left", "gone"}
    /\ woken' = woken \cup {w \in Op : /\ Home[w] = Home[o]
                                       /\ pc[w] \in {"registered", "checked", "parked"}}
    /\ Goto(o, IF pc[o] = "left" THEN "unlocking" ELSE "idle")
    /\ UNCHANGED <<lane, flock, record, cmd, strayTry, strayRename, look>>

Unlock(o) ==
    /\ pc[o] = "unlocking"
    /\ flock' = Closed(Opened("op", o))
    /\ Goto(o, "released")
    /\ UNCHANGED <<lane, woken, record, cmd, strayTry, strayRename, look>>

\* The operation is over; the model uses its name for a later one, once nothing
\* of its command runs.
Forget(o) ==
    /\ pc[o] = "released" /\ cmd[o] \notin Alive
    /\ Goto(o, "idle")
    /\ cmd' = [cmd EXCEPT ![o] = "none"]
    /\ UNCHANGED <<lane, woken, flock, record, strayTry, strayRename, look>>

(***************************************************************************)
(* Ends of processes.  The kernel closes their files; the record stays.    *)
(***************************************************************************)
OfProcs(P) == {x \in Op \cup Prober : Home[x] \in P}

Die(P) ==
    /\ pc' = [o \in Op |-> IF Home[o] \in P THEN "idle" ELSE pc[o]]
    /\ lane' = [p \in Proc |-> IF p \in P THEN <<>> ELSE lane[p]]
    /\ woken' = woken \ OfProcs(P)
    /\ flock' = IF flock # None /\ Home[flock.id] \in P THEN None ELSE flock
    /\ record' = IF record # None /\ Home[record.op] \in P
                 THEN [record EXCEPT !.live = FALSE] ELSE record
    /\ strayTry' = strayTry \ OfProcs(P)
    /\ strayRename' = strayRename \ OfProcs(P)
    /\ look' = [b \in Prober |-> IF Home[b] \in P THEN Unseen ELSE look[b]]

\* Fault: the kill of a command reaches its leader and not its group.
EndCommand_LeaderOnly(o) ==
    /\ cmd[o] \in Alive
    /\ cmd' = [cmd EXCEPT ![o] = IF pc[o] = "idle" THEN "none" ELSE "ended"]
    /\ UNCHANGED <<pc, lane, woken, flock, record, strayTry, strayRename, look>>

\* The last process of a command's group has exited, or the group has been
\* killed, and the ahmas in it with it.  Their commands lead groups of their own:
\* they may run on, with what is below them.  The end of a command that is
\* nobody's any more, or was left behind, is not noticed.
EndCommand(o) ==
    /\ cmd[o] \in Alive
    /\ \E dead \in SUBSET Below[o], orphans \in SUBSET Op :
        /\ \A c \in orphans : Home[c] \in dead /\ cmd[c] \in Alive
        /\ \A p \in Below[o] :
               p \in dead <=> \/ Parent[p] = o
                              \/ Home[Parent[p]] \in dead /\ Parent[p] \notin orphans
        /\ Die(dead)
        /\ cmd' = [c \in Op |->
                     IF c = o THEN (IF pc[o] = "idle" THEN "none" ELSE "ended")
                     ELSE IF Home[c] \in dead /\ c \notin orphans THEN "none" ELSE cmd[c]]

\* SIGKILL of ahma itself: the commands it started run on.
Crash(p) ==
    /\ p \in Mortal /\ Exists(p)
    /\ Die({p})
    /\ cmd' = [c \in Op |-> IF Home[c] = p /\ cmd[c] = "ended" THEN "none" ELSE cmd[c]]

-----------------------------------------------------------------------------
(***************************************************************************)
(* WorkspaceQueue::probe: is an exclusive operation running here?  The     *)
(* answer is kept until the prober asks again.                             *)
(***************************************************************************)
Told(b, at, by) == look' = [look EXCEPT ![b] = [at |-> at, by |-> by]]

Answered(b) == look[b].at \in {"idle", "free", "held"}

ProbeLane(b) ==
    /\ Answered(b) /\ Exists(Home[b])
    /\ \/ \E o \in GrantedIn(Home[b]) : Told(b, "held", o)
       \/ GrantedIn(Home[b]) = {} /\ Inherits(Home[b]) /\ Told(b, "free", None)
       \/ GrantedIn(Home[b]) = {} /\ ~Inherits(Home[b]) /\ Told(b, "opening", None)
    /\ UNCHANGED <<pc, lane, woken, flock, record, cmd, strayTry, strayRename>>

\* The probe's own try_acquire owns the lock until its result is dropped.
ProbeTry(b) ==
    /\ look[b].at = "opening"
    /\ IF flock = None
       THEN flock' = Opened("probe", b) /\ Told(b, "locked", None)
       ELSE flock' = flock /\ Told(b, "busy", None)
    /\ UNCHANGED <<pc, lane, woken, record, cmd, strayTry, strayRename>>

ProbeCannotOpen(b) ==
    /\ look[b].at = "opening" /\ Home[b] \in Unopenable
    /\ Told(b, "free", None)
    /\ UNCHANGED <<pc, lane, woken, flock, record, cmd, strayTry, strayRename>>

ProbeUnlock(b) ==
    /\ look[b].at = "locked"
    /\ flock' = Closed(Opened("probe", b))
    /\ Told(b, "free", None)
    /\ UNCHANGED <<pc, lane, woken, record, cmd, strayTry, strayRename>>

\* read_holder, after the lock was found taken.
ProbeRead(b) ==
    /\ look[b].at = "busy"
    /\ Told(b, "held", IF record = None THEN None ELSE record.op)
    /\ UNCHANGED <<pc, lane, woken, flock, record, cmd, strayTry, strayRename>>

Acquire(o) ==
    \/ Register(o) \/ CheckHead(o) \/ Await(o) \/ Wake(o) \/ Reobserve(o)
    \/ TakeLock(o) \/ FindBusy(o) \/ Degrade(o)
    \/ Retry(o) \/ WriteTemp(o) \/ RenameLands(o) \/ Grant(o)

Release(o) ==
    \/ DropLease(o) \/ Withdraw(o) \/ LeaveLane(o) \/ NotifyWaiters(o)
    \/ Unlock(o) \/ Forget(o)

Stray(o) == StrayTakes(o) \/ StrayEnds(o) \/ StrayRenames(o)

Probe(b) ==
    \/ ProbeLane(b) \/ ProbeTry(b) \/ ProbeCannotOpen(b) \/ ProbeUnlock(b)
    \/ ProbeRead(b)

Next ==
    \/ \E o \in Op :
        \/ Enqueue(o) \/ Acquire(o) \/ Cancel(o) \/ DropFuture(o) \/ Stray(o)
        \/ StartCommand(o) \/ SoftRelease(o) \/ Abandon(o) \/ EndCommand(o)
        \/ Release(o)
    \/ \E p \in Proc : Crash(p)
    \/ \E b \in Prober : Probe(b)

Spec == Init /\ [][Next]_vars
-----------------------------------------------------------------------------
(***************************************************************************)
(* Properties                                                              *)
(***************************************************************************)

\* Operations whose process shares the kernel lock with every other.
Ordered(o) == ~Inherits(Home[o]) /\ Home[o] \notin Unopenable

\* SPEC R2.7.1 and R2.7.7, "across processes the kernel lock guarantees mutual
\* exclusion": of the operations that can take the lock, one holds the lease.
MutualExclusion ==
    \A a, b \in Op :
        (Ordered(a) /\ Ordered(b) /\ {pc[a], pc[b]} \subseteq Holding) => a = b

\* SPEC R2.7.7, "within one process the order is strict FIFO": whatever has
\* happened to the lock file, an operation past layer 1 is the head of its
\* lane, so a process never has two of them, nested or degraded ones included.
OnlyHeadProceeds ==
    \A o \in Op : pc[o] \in AtHead \cup Holding => IsHead(o)

\* Ticket::acquire's "Register before checking, so a release between the check
\* and the await cannot be missed": a head that goes to sleep has a wake-up
\* coming.
NoLostWakeup ==
    \A o \in Op : pc[o] \in {"checked", "parked"} /\ IsHead(o) =>
        \/ o \in woken
        \/ \E r \in Op : Home[r] = Home[o] /\ pc[r] \in {"left", "gone"}

\* SPEC R2.7.7, "no stale locks, by construction": the kernel lock is owned by
\* an operation, an orphaned attempt or a probe that is about to close it,
\* through cancellations, dropped futures and kills.
NoStaleLock ==
    /\ \A o \in Op : flock = Opened("op", o) =>
          pc[o] \in {"publishing", "renaming", "renamed", "left", "unlocking"} \cup Holding
    /\ \A o \in Op : flock = Opened("stray", o) => o \in strayTry
    /\ \A b \in Prober : flock = Opened("probe", b) => look[b].at = "locked"

\* SPEC R2.7.9 relies on it: while an operation that can publish holds the
\* kernel lock under its lease, the record beside the lock names it and its
\* process, whatever a dead holder left there before, unless the orphaned
\* rename of a dropped caller came late and replaced it.
RecordNamesHolder ==
    \A o \in Op : pc[o] \in {"granted", "dropping"} /\ Published(o) =>
        \/ record = [op |-> o, live |-> TRUE]
        \/ record # None /\ record.op \in Dropped

\* A nested ahma "is already inside that lease and skips the cross-process
\* lock for it": an operation that skipped the lock runs under a lease its
\* ancestor "provably holds" (HELD_LEASE_ENV), unless that ancestor's command
\* was left behind by its ahma, or runs while the lease was handed on from a soft
\* hold or its ahma was killed (by a user, or with the group it belongs to).
InheritedUnlessHandedOn ==
    \A o \in Op : Inherits(Home[o]) /\ pc[o] \in Holding =>
        LET a == Parent[Home[o]]
        IN  \/ pc[a] \in Holding
            \/ cmd[a] = "left"
            \/ cmd[a] = "running" /\ a \in SoftHold /\ pc[a] \in HandedOn
            \/ cmd[a] = "running" /\ (Home[a] \in Mortal \/ Inherits(Home[a]))
                                   /\ pc[a] = "idle"

\* LeaseProbe::Free, "no exclusive operation is running in the workspace": a
\* probe that gets the lock is right about every operation that can take it.
FreeProbeIsRight ==
    [][\A b \in Prober : look[b].at = "opening" /\ look'[b].at = "locked"
          => \A o \in Op : Ordered(o) => pc[o] \notin Holding]_vars

\* queue_report, "Blocked until {live} finish": a record whose process is alive
\* is the record of an operation that has the workspace, unless that operation's
\* caller dropped it while its record was being renamed into place.
LiveRecordHolds ==
    record # None /\ record.live =>
        pc[record.op] \in {"renamed"} \cup Holding \/ record.op \in Dropped

\* The promise, WorkspaceLease, which this queue implements: the lease is held
\* from the grant to the moment the entry leaves the lane.
Lease == INSTANCE WorkspaceLease WITH
    line    <- lane,
    holders <- {o \in Op : pc[o] \in Holding},
    Overlap <- {ab \in Op \X Op : ~(Ordered(ab[1]) /\ Ordered(ab[2]))}

\* SPEC R2.7.1: arrival order within a process and one holder at a time, over
\* every interleaving of the two layers, the drops and the ends of processes.
ImplementsLease == Lease!LeaseSpec

-----------------------------------------------------------------------------
(***************************************************************************)
(* Fairness.  The tokio runtime polls every ready task, the blocking pool  *)
(* runs every closure, and a command that is watched ends, is left behind  *)
(* or is killed at its timeout; one that was left behind may run for ever. *)
(* The 5 s Reobserve is not counted on, cancellations and kills are not    *)
(* owed.  flock has no queue, so the code gives no order across processes: *)
(* that a poller's attempts are not for ever out of step with a lock that  *)
(* is free again and again is assumed, as strong fairness of an attempt    *)
(* begun while the lock is free and of one that finds it so.               *)
(***************************************************************************)
Polling(o) ==
    \/ Register(o) \/ CheckHead(o) \/ Await(o) \/ Wake(o) \/ FindBusy(o) \/ Retry(o)
    \/ WriteTemp(o) \/ RenameLands(o) \/ Grant(o)

Fairness ==
    /\ \A o \in Op : /\ WF_vars(Polling(o))
                     /\ SF_vars(flock = None /\ Retry(o))
                     /\ SF_vars(TakeLock(o))
                     /\ WF_vars(Release(o))
                     /\ WF_vars(cmd[o] = "running" /\ (EndCommand(o) \/ Abandon(o)))
                     /\ WF_vars(Stray(o))
    /\ \A b \in Prober : WF_vars(ProbeUnlock(b))

FairSpec == Spec /\ Fairness

\* SPEC R2.7: "it never wedges".  An operation that took a place in line holds
\* the lease in the end, or its caller gave the place up (or was killed).
EveryTicketServed ==
    \A o \in Op : pc[o] = "queued" ~> pc[o] \in Holding \cup {"leaving", "idle"}
=============================================================================
