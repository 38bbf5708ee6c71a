-------------------------- MODULE OperationMonitor --------------------------
(***************************************************************************)
(* The registry of running and finished operations                         *)
(* (ahma_mcp/src/operation_monitor.rs).  An operation lives in the active  *)
(* map until its first terminal transition takes it out; the task that     *)
(* took it out then stores it in the bounded history, signals its watch    *)
(* channel and emits its terminal event.  Each lock section is one step,   *)
(* and every other task of the runtime may run between two of them.        *)
(*                                                                         *)
(* Wall-clock time is two facts per operation: its total-runtime budget is *)
(* spent, and its idle-output budget is spent.  An id names one operation  *)
(* for ever.                                                               *)
(***************************************************************************)
EXTENDS SequencesExt, FiniteSets, Integers

CONSTANTS
    Op,          \* operations
    Waiter,      \* callers of wait_for_operation_bounded
    Queued,      \* operations that wait in the workspace write queue first
    Alerted,     \* operations some task appends an alert to
    Watchdog,    \* whether MonitorConfig.idle_timeout is set
    CancelsAll,  \* whether somebody cancels everything
    Suspends,    \* whether the machine may go to sleep
    MaxHistory,  \* MAX_COMPLETION_HISTORY
    None         \* no operation

ASSUME MonitorAssumption ==
    /\ Queued \subseteq Op /\ Alerted \subseteq Op
    /\ {Watchdog, CancelsAll, Suspends} \subseteq BOOLEAN
    /\ MaxHistory \in Nat \ {0}
    /\ None \notin Op

VARIABLES
    status,   \* Operation.state; "new" before add_operation
    queued,   \* operations that have not left the write queue
    move,     \* how far move_to_history_and_notify has come
    history,  \* ids in completion_history
    order,    \* completion_order
    watch,    \* Operation.completion_watch: operations whose flag is true
    told,     \* terminal events emitted
    token,    \* operations whose cancellation_token is cancelled
    late,     \* operations past their total-runtime budget
    quiet,    \* whether an operation is past its idle budget: "yes" by silence
              \* alone, "short" or "long" only with the time of such a suspend
    slept,    \* how long the machine slept since the monitor last ticked
    loop,     \* the background monitor task
    batch,    \* cancel_all_operations
    alert,    \* what became of each operation's alert
    wait      \* each waiter in wait_for_operation_bounded

lifecycle == <<status, queued, token>>
clocks    == <<late, quiet, slept>>
finishing == <<move, history, order, watch, told>>
tasks     == <<loop, batch, alert, wait>>
vars      == <<lifecycle, clocks, finishing, tasks>>

Terminal == {"Completed", "Failed", "Cancelled", "TimedOut"}
Active   == {"Pending", "InProgress"}

ASSUME NoneIsNoOutcome == None \notin Terminal

\* Suspends below SLEEP_DETECT_THRESHOLD, and from it on.
Lengths  == {"short", "long"}
Moves    == {"no", "taken", "stored", "signalled", "told"}
Answers  == {"idle", "found", "missed", "timeout"}
Asking   == {"history", "subscribe", "recheck", "waiting", "lookup"}

\* Operation::is_terminal, on the states an operation has after it was added.
InMap(o) == status[o] \in Active

TypeOK ==
    /\ status \in [Op -> {"new"} \cup Active \cup Terminal]
    /\ queued \subseteq Op /\ history \subseteq Op /\ watch \subseteq Op
    /\ token \subseteq Op /\ late \subseteq Op
    /\ move \in [Op -> Moves]
    /\ order \in Seq(Op)
    /\ told \in [Op -> Nat]
    /\ quiet \in [Op -> {"no", "yes"} \cup Lengths]
    /\ slept \in {"no"} \cup Lengths
    /\ loop \in [at : {"asleep", "ticked", "sweeping"}, doomed : SUBSET Op,
                 on : Op \cup {None}]
    /\ batch \in [ids : SUBSET Op, on : Op \cup {None}]
    /\ alert \in [Op -> {"none", "looking", "kept", "lost"}]
    /\ wait \in [Waiter -> [at : Answers \cup Asking, op : Op \cup {None}]]

Init ==
    /\ status = [o \in Op |-> "new"]
    /\ queued = {} /\ history = {} /\ watch = {} /\ token = {} /\ late = {}
    /\ move = [o \in Op |-> "no"]
    /\ order = <<>>
    /\ told = [o \in Op |-> 0]
    /\ quiet = [o \in Op |-> "no"]
    /\ slept = "no"
    /\ loop = [at |-> "asleep", doomed |-> {}, on |-> None]
    /\ batch = [ids |-> {}, on |-> None]
    /\ alert = [o \in Op |-> "none"]
    /\ wait = [w \in Waiter |-> [at |-> "idle", op |-> None]]

-----------------------------------------------------------------------------
(***************************************************************************)
(* Lifecycle: the sections under the write lock of the active map.         *)
(***************************************************************************)
AddOperation(o) ==
    /\ status[o] = "new"
    /\ status' = [status EXCEPT ![o] = "Pending"]
    /\ queued' = queued \cup ({o} \cap Queued)
    /\ UNCHANGED <<token, clocks, finishing, tasks>>

\* wait_for_lease: out of the write queue; both clocks restart, unless the wait
\* was too short to report.
LeftQueue(o) ==
    /\ o \in queued /\ InMap(o)
    /\ queued' = queued \ {o}
    /\ \/ late' = late \ {o} /\ quiet' = [quiet EXCEPT ![o] = "no"]
       \/ UNCHANGED <<late, quiet>>
    /\ UNCHANGED <<status, token, slept, finishing, tasks>>

\* update_status(InProgress).
Start(o) ==
    /\ status[o] = "Pending" /\ o \notin queued
    /\ status' = [status EXCEPT ![o] = "InProgress"]
    /\ UNCHANGED <<queued, token, clocks, finishing, tasks>>

\* Fault: the state is overwritten whatever it was.
Finish_Blindly(o, s) ==
    /\ status[o] # "new"
    /\ status' = [status EXCEPT ![o] = s]
    /\ move' = [move EXCEPT ![o] = "taken"]
    /\ queued' = queued \ {o}
    /\ late' = late \ {o}
    /\ quiet' = [quiet EXCEPT ![o] = "no"]

\* try_transition to a terminal state: it succeeds for an operation that is
\* still in the map, and takes it out, with its clocks, before the lock is
\* given up.
Finish(o, s) ==
    /\ InMap(o)
    /\ status' = [status EXCEPT ![o] = s]
    /\ move' = [move EXCEPT ![o] = "taken"]
    /\ queued' = queued \ {o}
    /\ late' = late \ {o}
    /\ quiet' = [quiet EXCEPT ![o] = "no"]

UpdateStatus(o, s) ==
    /\ Finish(o, s)
    /\ UNCHANGED <<token, slept, history, order, watch, told, tasks>>

CancelOperation(o) ==
    /\ Finish(o, "Cancelled")
    /\ token' = token \cup {o}
    /\ UNCHANGED <<slept, history, order, watch, told, tasks>>

(***************************************************************************)
(* cancel_all_operations: a snapshot, then one operation after the other,  *)
(* each moved to the history before the next is looked at.                 *)
(***************************************************************************)
Moved(x) == x \in {None} \cup {o \in Op : move[o] = "told"}

ListActive ==
    /\ CancelsAll /\ batch.ids = {} /\ Moved(batch.on)
    /\ \E o \in Op : InMap(o)
    /\ batch' = [ids |-> {o \in Op : InMap(o)}, on |-> None]
    /\ UNCHANGED <<lifecycle, clocks, finishing, loop, alert, wait>>

CancelListed(o) ==
    /\ o \in batch.ids /\ Moved(batch.on)
    /\ Finish(o, "Cancelled")
    /\ token' = token \cup {o}
    /\ batch' = [ids |-> batch.ids \ {o}, on |-> o]
    /\ UNCHANGED <<slept, history, order, watch, told, loop, alert, wait>>

SkipListed(o) ==
    /\ o \in batch.ids /\ Moved(batch.on)
    /\ ~InMap(o)
    /\ batch' = [ids |-> batch.ids \ {o}, on |-> None]
    /\ UNCHANGED <<lifecycle, clocks, finishing, loop, alert, wait>>

-----------------------------------------------------------------------------
(***************************************************************************)
(* Time.                                                                   *)
(***************************************************************************)
RunsLate(o) ==
    /\ InMap(o) /\ o \notin late
    /\ late' = late \cup {o}
    /\ UNCHANGED <<lifecycle, quiet, slept, finishing, tasks>>

FallsSilent(o) ==
    /\ Watchdog /\ InMap(o) /\ quiet[o] # "yes"
    /\ quiet' = [quiet EXCEPT ![o] = "yes"]
    /\ UNCHANGED <<lifecycle, late, slept, finishing, tasks>>

\* Fault: proof of life restarts the runtime budget as well.
ShowsLife_RestartsRuntime(o) ==
    /\ InMap(o)
    /\ quiet' = [quiet EXCEPT ![o] = "no"]
    /\ late' = late \ {o}
    /\ UNCHANGED <<lifecycle, slept, finishing, tasks>>

\* append_output_line, note_liveness, try_note_liveness.
ShowsLife(o) ==
    /\ InMap(o) /\ quiet[o] # "no"
    /\ quiet' = [quiet EXCEPT ![o] = "no"]
    /\ UNCHANGED <<lifecycle, late, slept, finishing, tasks>>

\* The machine sleeps, and meanwhile some operations' idle budgets run out.  Short
\* suspends between two ticks may add up to a long one.
SleepFor(length) ==
    /\ Watchdog /\ Suspends
    /\ slept' = IF slept = "long" THEN "long" ELSE length
    /\ \E over \in SUBSET {o \in Op : InMap(o) /\ quiet[o] = "no"} :
          quiet' = [o \in Op |-> IF o \in over THEN slept' ELSE quiet[o]]
    /\ UNCHANGED <<lifecycle, late, finishing, tasks>>

(***************************************************************************)
(* The background monitor: every second it measures the gap since its last *)
(* tick, forgives the idle clocks if the gap is SLEEP_DETECT_THRESHOLD or  *)
(* more, lists what is over a budget, and times those operations out one   *)
(* by one.                                                                 *)
(***************************************************************************)
\* Fault: the gap is noted, the idle clocks are not moved.
NoteMonitorTick_ForgivesNothing ==
    /\ loop.at = "asleep"
    /\ slept' = "no"
    /\ loop' = [loop EXCEPT !.at = "ticked"]
    /\ UNCHANGED <<lifecycle, late, quiet, finishing, batch, alert, wait>>

NoteMonitorTick ==
    /\ loop.at = "asleep"
    /\ slept' = "no"
    /\ quiet' = [o \in Op |-> IF slept = "long" /\ InMap(o) THEN "no" ELSE quiet[o]]
    /\ loop' = [loop EXCEPT !.at = "ticked"]
    /\ UNCHANGED <<lifecycle, late, finishing, batch, alert, wait>>

\* timeout_reason
OverBudget(o) == InMap(o) /\ (o \in late \/ quiet[o] # "no")

CheckTimeouts ==
    /\ loop.at = "ticked"
    /\ loop' = [at |-> "sweeping", doomed |-> {o \in Op : OverBudget(o)}, on |-> None]
    /\ UNCHANGED <<lifecycle, clocks, finishing, batch, alert, wait>>

TimeoutOperation(o) ==
    /\ loop.at = "sweeping" /\ o \in loop.doomed /\ Moved(loop.on)
    /\ Finish(o, "TimedOut")
    /\ token' = token \cup {o}
    /\ loop' = [loop EXCEPT !.doomed = @ \ {o}, !.on = o]
    /\ UNCHANGED <<slept, history, order, watch, told, batch, alert, wait>>

\* A concurrent transition already finished it.
SpareOperation(o) ==
    /\ loop.at = "sweeping" /\ o \in loop.doomed /\ Moved(loop.on)
    /\ ~InMap(o)
    /\ loop' = [loop EXCEPT !.doomed = @ \ {o}, !.on = None]
    /\ UNCHANGED <<lifecycle, clocks, finishing, batch, alert, wait>>

SleepASecond ==
    /\ loop.at = "sweeping" /\ loop.doomed = {} /\ Moved(loop.on)
    /\ loop' = [at |-> "asleep", doomed |-> {}, on |-> None]
    /\ UNCHANGED <<lifecycle, clocks, finishing, batch, alert, wait>>

-----------------------------------------------------------------------------
(***************************************************************************)
(* move_to_history_and_notify, run by the task whose transition won.       *)
(***************************************************************************)

\* Fault: the history keeps what the order has dropped.
StoreInHistory_NoEviction(o) ==
    /\ move[o] = "taken"
    /\ history' = history \cup {o}
    /\ order' = IF Len(order) = MaxHistory THEN Append(Tail(order), o) ELSE Append(order, o)
    /\ move' = [move EXCEPT ![o] = "stored"]
    /\ UNCHANGED <<lifecycle, clocks, watch, told, tasks>>

\* Both locks are held throughout; the oldest entry beyond the cap goes.
StoreInHistory(o) ==
    /\ move[o] = "taken"
    /\ IF Len(order) < MaxHistory
       THEN /\ order' = Append(order, o)
            /\ history' = history \cup {o}
       ELSE /\ order' = Append(Tail(order), o)
            /\ history' = (history \cup {o}) \ {Head(order)}
    /\ move' = [move EXCEPT ![o] = "stored"]
    /\ UNCHANGED <<lifecycle, clocks, watch, told, tasks>>

\* Fault: the waiters are signalled before the result is in the history.
Signal_First(o) ==
    /\ move[o] \in {"taken", "stored"} /\ o \notin watch
    /\ watch' = watch \cup {o}
    /\ move' = [move EXCEPT ![o] = IF @ = "stored" THEN "signalled" ELSE @]
    /\ UNCHANGED <<lifecycle, clocks, history, order, told, tasks>>

Signal(o) ==
    /\ move[o] = "stored"
    /\ watch' = watch \cup {o}
    /\ move' = [move EXCEPT ![o] = "signalled"]
    /\ UNCHANGED <<lifecycle, clocks, history, order, told, tasks>>

EmitTerminal(o) ==
    /\ move[o] = "signalled"
    /\ told' = [told EXCEPT ![o] = @ + 1]
    /\ move' = [move EXCEPT ![o] = "told"]
    /\ UNCHANGED <<lifecycle, clocks, history, order, watch, tasks>>

(***************************************************************************)
(* append_alert: first the active map, then, after that lock is given up,  *)
(* the history; an id found in neither is ignored.                         *)
(***************************************************************************)
AppendAlert(o) ==
    /\ o \in Alerted /\ alert[o] = "none" /\ status[o] # "new"
    /\ alert' = [alert EXCEPT ![o] = IF InMap(o) THEN "kept" ELSE "looking"]
    /\ UNCHANGED <<lifecycle, clocks, finishing, loop, batch, wait>>

AppendToHistory(o) ==
    /\ alert[o] = "looking"
    /\ alert' = [alert EXCEPT ![o] = IF o \in history THEN "kept" ELSE "lost"]
    /\ UNCHANGED <<lifecycle, clocks, finishing, loop, batch, wait>>

-----------------------------------------------------------------------------
(***************************************************************************)
(* wait_for_operation_bounded: history, subscription, flag, history.       *)
(***************************************************************************)
Step(w, from, to) ==
    /\ wait[w].at = from
    /\ wait' = [wait EXCEPT ![w].at = to]
    /\ UNCHANGED <<lifecycle, clocks, finishing, loop, batch, alert>>

InHistory(w) == wait[w].op \in history

\* A caller has the id of an operation that was started.
AskFor(w, o) ==
    /\ wait[w].at \in Answers /\ status[o] # "new"
    /\ wait' = [wait EXCEPT ![w] = [at |-> "history", op |-> o]]
    /\ UNCHANGED <<lifecycle, clocks, finishing, loop, batch, alert>>

CheckHistory(w) ==
    \/ InHistory(w) /\ Step(w, "history", "found")
    \/ ~InHistory(w) /\ Step(w, "history", "subscribe")

\* Fault: an operation that is not active any more is not looked up again.
Subscribe_NoRecheck(w) ==
    /\ wait[w].at = "subscribe"
    /\ Step(w, "subscribe", IF InMap(wait[w].op) THEN "waiting" ELSE "missed")

\* get_completion_receiver_or_terminal_pub
Subscribe(w) ==
    /\ wait[w].at = "subscribe"
    /\ Step(w, "subscribe", IF InMap(wait[w].op) THEN "waiting" ELSE "recheck")

Recheck(w) ==
    \/ InHistory(w) /\ Step(w, "recheck", "found")
    \/ ~InHistory(w) /\ Step(w, "recheck", "missed")

\* Fault: the flag is an edge, which a subscriber sees only when it comes.
ObserveFlag_Edge(w) ==
    /\ wait[w].at = "waiting" /\ move[wait[w].op] = "signalled"
    /\ Step(w, "waiting", "lookup")

\* The watch channel stores its value: no signal can be missed.
ObserveFlag(w) ==
    /\ wait[w].at = "waiting" /\ wait[w].op \in watch
    /\ Step(w, "waiting", "lookup")

WaitTimesOut(w) == Step(w, "waiting", "timeout")

Lookup(w) ==
    \/ InHistory(w) /\ Step(w, "lookup", "found")
    \/ ~InHistory(w) /\ Step(w, "lookup", "missed")

-----------------------------------------------------------------------------
Suspend == \E length \in Lengths : SleepFor(length)

Life(o) ==
    \/ AddOperation(o) \/ LeftQueue(o) \/ Start(o)
    \/ \E s \in Terminal : UpdateStatus(o, s)
    \/ CancelOperation(o)

Time(o) == RunsLate(o) \/ FallsSilent(o) \/ ShowsLife(o)

CancelAll == ListActive \/ \E o \in Op : CancelListed(o) \/ SkipListed(o)

Sweep(o) == TimeoutOperation(o) \/ SpareOperation(o)

Loop ==
    \/ NoteMonitorTick \/ CheckTimeouts \/ SleepASecond
    \/ \E o \in Op : Sweep(o)

Move(o) == StoreInHistory(o) \/ Signal(o) \/ EmitTerminal(o)

Alert(o) == AppendAlert(o) \/ AppendToHistory(o)

Answer(w) ==
    \/ CheckHistory(w) \/ Subscribe(w) \/ Recheck(w) \/ ObserveFlag(w) \/ Lookup(w)

Next ==
    \/ \E o \in Op : Life(o) \/ Time(o) \/ Move(o) \/ Alert(o)
    \/ Suspend \/ CancelAll \/ Loop
    \/ \E w \in Waiter : Answer(w) \/ WaitTimesOut(w) \/ \E o \in Op : AskFor(w, o)

Spec == Init /\ [][Next]_vars

-----------------------------------------------------------------------------
(***************************************************************************)
(* Properties                                                              *)
(***************************************************************************)

\* A result leaves a full history only to make room for a younger one.
Kept(o) == o \in history \/ Len(order) = MaxHistory

\* AGENTS R15.3, "history write -> watch signal -> event emission, so any
\* consumer woken by either channel observes final state".
TerminalOrder ==
    \A o \in Op : /\ told[o] > 0 => o \in watch
                  /\ o \in watch => status[o] \in Terminal /\ Kept(o)

\* completion_order is "the insertion order of completion_history entries", and
\* the history never outgrows its cap: the two structures, changed under two
\* locks by every finishing task, hold the same ids, each once.
HistoryInOrder ==
    /\ ToSet(order) = history
    /\ IsInjective(order)
    /\ Len(order) <= MaxHistory

\* The size of the hole in wait_for_operation: a waiter is told "nothing" only
\* about an operation that is between the two maps, or that a full history has
\* evicted; never about one that runs or that the history holds.
MissedInTransitOnly ==
    [][\A w \in Waiter : wait[w].at # "missed" /\ wait'[w].at = "missed" =>
          LET o == wait[w].op
          IN  /\ move[o] # "no" /\ o \notin history
              /\ move[o] = "taken" \/ Len(order) = MaxHistory]_vars

\* "The single guarded entry point ... the first terminal writer wins" and
\* "exactly one terminal event": the monitor implements OperationOutcome,
\* however cancellations, timeouts from stale snapshots and results race.
Outcome == INSTANCE OperationOutcome WITH
    Operations <- Op,
    Outcomes   <- Terminal,
    Undecided  <- None,
    outcome    <- [o \in Op |-> IF status[o] \in Terminal THEN status[o] ELSE None],
    announced  <- told

ImplementsOutcome == Outcome!OutcomeSpec

\* No operation is forgotten while nothing evicts.
Roomy == Cardinality(Op) <= MaxHistory

\* append_alert "checks active operations first, then completion history": an
\* alert finds its operation there, unless it came between the two maps or the
\* history has evicted the operation.
AlertLostInTransitOnly ==
    [][\A o \in Op : alert[o] # "lost" /\ alert'[o] = "lost" =>
          /\ o \notin history
          /\ move[o] = "taken" \/ Len(order) = MaxHistory]_vars

\* note_monitor_tick: "a sleep must never be counted as silence and trigger a
\* false stalled timeout".  The code keeps this for sleeps the tick can tell: a
\* sweep dooms no operation for the time of a suspend of SLEEP_DETECT_THRESHOLD or
\* more, unless the machine fell asleep after the tick was measured.  A shorter
\* suspend does count as silence.
SleepIsNotSilence ==
    [][\A o \in Op : o \in loop'.doomed /\ o \notin loop.doomed
          => o \in late \/ quiet[o] \in {"yes", "short"} \/ slept = "long"]_vars

-----------------------------------------------------------------------------
(***************************************************************************)
(* Fairness: the runtime polls every ready task, the background monitor    *)
(* ticks, and time passes.  That a command ever ends, shows life or leaves *)
(* the queue, and that anybody cancels, is not counted on.                 *)
(***************************************************************************)
Fairness ==
    /\ WF_vars(Loop)
    /\ WF_vars(CancelAll /\ batch.ids # {})
    /\ \A o \in Op : WF_vars(RunsLate(o)) /\ WF_vars(Move(o))
    /\ \A w \in Waiter : WF_vars(Answer(w))

FairSpec == Spec /\ Fairness

\* SPEC R2.7.1 and the total-runtime budget: whatever its command does, every
\* operation reaches an outcome that is announced to its observers.
EveryOperationSettles == \A o \in Op : InMap(o) ~> told[o] > 0

\* "We cannot miss the completion signal": every wait is answered.
EveryWaitAnswered == \A w \in Waiter : wait[w].at \in Asking ~> wait[w].at \in Answers
=============================================================================
