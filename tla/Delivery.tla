------------------------------ MODULE Delivery ------------------------------
(***************************************************************************)
(* How a session hands results to the model: the inline window of a call,  *)
(* the await tool, and the ledger of undelivered operations whose results  *)
(* are prepended to the next answer (ahma_mcp/src/mcp_service/delivery.rs, *)
(* mod.rs, handlers/await_tool.rs).  It is composed with OperationMonitor: *)
(* a call looks into the monitor's two maps under their own locks, one     *)
(* after the other, while operations finish and other calls are answered.  *)
(* What a single wait does is OperationMonitor's; here it is its outcome.  *)
(***************************************************************************)
EXTENDS OperationMonitor

CONSTANT Call   \* requests of the session that may be served at the same time

VARIABLES
    ledger,     \* UndeliveredOps: the ids in it; their order only shows in the answer
    call,       \* what each request is doing
    shown,      \* operations whose result an answer has carried to the model
    prepended   \* how often take_finished has handed out each result

delivery == <<ledger, call, shown, prepended>>

Stages == {"idle", "window", "elapsed", "awaiting", "settling", "history", "take", "active"}

\* ops: what the request is about; left: its waits that go on; todo: what
\* take_finished has still to look at; on: what it looks at; carry: the results
\* its answer renders; owed: what the ledger owed when the request came in.
Request == [at : Stages, ops : SUBSET Op, left : SUBSET Op, todo : SUBSET Op,
            on : Op \cup {None}, carry : SUBSET Op, owed : SUBSET Op]

Idle == [at |-> "idle", ops |-> {}, left |-> {}, todo |-> {}, on |-> None,
         carry |-> {}, owed |-> {}]

DeliveryTypeOK ==
    /\ ledger \subseteq Op
    /\ call \in [Call -> Request]
    /\ \A c \in Call : call[c].at \in {"take", "active"} => call[c].on \in Op
    /\ shown \subseteq Op
    /\ prepended \in [Op -> Nat]

DeliveryInit ==
    /\ Init
    /\ ledger = {}
    /\ call = [c \in Call |-> Idle]
    /\ shown = {}
    /\ prepended = [o \in Op |-> 0]

-----------------------------------------------------------------------------
\* UndeliveredOps::delivered, for each of the operations.
Settled(S) == ledger \ S

Goes(c, at) == call' = [call EXCEPT ![c].at = at]

\* A new request; what the ledger owes it is noted for the properties.
Begin(c, at, S, rendered) ==
    /\ call[c].at = "idle"
    /\ call' = [call EXCEPT ![c] = [Idle EXCEPT !.at = at, !.ops = S, !.left = S,
                                    !.carry = rendered,
                                    !.owed = {o \in ledger : told[o] > 0}]]

(***************************************************************************)
(* A call that runs a command waits out its inline window.                 *)
(***************************************************************************)
RunCommand(c, o) ==
    /\ Begin(c, "window", {o}, {})
    /\ AddOperation(o)
    /\ UNCHANGED <<ledger, shown, prepended>>

WindowAnswers(c) ==
    /\ call[c].at = "window" /\ call[c].ops \subseteq history
    /\ call' = [call EXCEPT ![c].at = "settling", ![c].carry = call[c].ops]
    /\ UNCHANGED <<vars, ledger, shown, prepended>>

WindowElapses(c) ==
    /\ call[c].at = "window"
    /\ Goes(c, "elapsed")
    /\ UNCHANGED <<vars, ledger, shown, prepended>>

StartedWithoutResult(c) ==
    /\ call[c].at = "elapsed"
    /\ ledger' = ledger \cup call[c].ops
    /\ Goes(c, "settling")
    /\ UNCHANGED <<vars, shown, prepended>>

(***************************************************************************)
(* await: one operation by id, the active ones that match the tools filter *)
(* (or all), or completed ones that match when none is active.             *)
(***************************************************************************)
Await(c, S) ==
    /\ S # {} /\ \A o \in S : InMap(o)
    /\ Begin(c, "awaiting", S, {})
    /\ UNCHANGED <<vars, ledger, shown, prepended>>

AwaitCompleted(c, S) ==
    /\ S # {} /\ S \subseteq history
    /\ Begin(c, "settling", {}, S)
    /\ ledger' = Settled(S)
    /\ UNCHANGED <<vars, shown, prepended>>

\* Fault: what a wait did not find is rendered.
WaitEnds_RendersNothing(c, o) ==
    /\ call[c].at = "awaiting" /\ o \in call[c].left /\ ~InMap(o)
    /\ call' = [call EXCEPT ![c].left = @ \ {o},
                            ![c].carry = @ \cup {IF o \in history THEN o ELSE None}]
    /\ UNCHANGED <<vars, ledger, shown, prepended>>

\* wait_for_operation_bounded returns the operation, or nothing when it is in
\* neither map.
WaitEnds(c, o) ==
    /\ call[c].at = "awaiting" /\ o \in call[c].left /\ ~InMap(o)
    /\ call' = [call EXCEPT ![c].left = @ \ {o}, ![c].carry = @ \cup ({o} \cap history)]
    /\ UNCHANGED <<vars, ledger, shown, prepended>>

\* Fault: the answer settles all that has finished, not only what it renders.
AwaitAnswers_SettlesFinished(c) ==
    /\ call[c].at = "awaiting" /\ call[c].left = {}
    /\ Goes(c, "settling")
    /\ ledger' = Settled(history)
    /\ UNCHANGED <<vars, shown, prepended>>

\* Every wait is over; those that found nothing are left out (flatten), and
\* delivered_by_await settles what is rendered.
AwaitAnswers(c) ==
    /\ call[c].at = "awaiting" /\ call[c].left = {}
    /\ Goes(c, "settling")
    /\ ledger' = Settled(call[c].carry)
    /\ UNCHANGED <<vars, shown, prepended>>

\* handle_await_timeout: the results the dropped waits had found are not rendered.
AwaitTimesOut(c) ==
    /\ call[c].at = "awaiting"
    /\ call' = [call EXCEPT ![c].at = "settling", ![c].carry = {}]
    /\ UNCHANGED <<vars, ledger, shown, prepended>>

\* Any other tool that answers; one that fails skips what follows, and changes
\* nothing.
OtherCall(c) ==
    /\ Begin(c, "settling", {}, {})
    /\ UNCHANGED <<vars, ledger, shown, prepended>>

(***************************************************************************)
(* deliver_finished_operations: take_finished, on a snapshot of the ledger *)
(***************************************************************************)
Snapshot(c) ==
    /\ call[c].at = "settling"
    /\ call' = [call EXCEPT ![c].at = "history", ![c].todo = ledger]
    /\ UNCHANGED <<vars, ledger, shown, prepended>>

LookInHistory(c, o) ==
    /\ call[c].at = "history" /\ o \in call[c].todo
    /\ call' = [call EXCEPT ![c].at = IF o \in history THEN "take" ELSE "active",
                            ![c].todo = @ \ {o}, ![c].on = o]
    /\ UNCHANGED <<vars, ledger, shown, prepended>>

\* Fault: what is taken stays in the ledger.
Take_Keeps(c) ==
    /\ call[c].at = "take" /\ prepended[call[c].on] < 3
    /\ prepended' = [prepended EXCEPT ![call[c].on] = @ + 1]
    /\ call' = [call EXCEPT ![c].at = "history", ![c].carry = @ \cup {call[c].on}]
    /\ UNCHANGED <<vars, ledger, shown>>

Take(c) ==
    /\ call[c].at = "take"
    /\ ledger' = Settled({call[c].on})
    /\ prepended' = [prepended EXCEPT ![call[c].on] = @ + 1]
    /\ call' = [call EXCEPT ![c].at = "history", ![c].carry = @ \cup {call[c].on}]
    /\ UNCHANGED <<vars, shown>>

\* Fault: an id that is not in the history is dropped at once.
LookInActive_Skipped(c) ==
    /\ call[c].at = "active"
    /\ ledger' = Settled({call[c].on})
    /\ Goes(c, "history")
    /\ UNCHANGED <<vars, shown, prepended>>

\* An id in neither map is dropped.
LookInActive(c) ==
    /\ call[c].at = "active"
    /\ ledger' = IF InMap(call[c].on) THEN ledger ELSE Settled({call[c].on})
    /\ Goes(c, "history")
    /\ UNCHANGED <<vars, shown, prepended>>

\* prepend_finished, and the answer goes out.
AnswerCall(c) ==
    /\ call[c].at = "history" /\ call[c].todo = {}
    /\ shown' = shown \cup call[c].carry
    /\ call' = [call EXCEPT ![c] = Idle]
    /\ UNCHANGED <<vars, ledger, prepended>>

-----------------------------------------------------------------------------
Serve(c) ==
    \/ WindowAnswers(c) \/ WindowElapses(c) \/ StartedWithoutResult(c)
    \/ AwaitAnswers(c) \/ AwaitTimesOut(c) \/ \E o \in Op : WaitEnds(c, o)
    \/ Snapshot(c) \/ \E o \in Op : LookInHistory(c, o)
    \/ Take(c) \/ LookInActive(c) \/ AnswerCall(c)

Ask(c) ==
    \/ \E o \in Op : RunCommand(c, o)
    \/ \E S \in SUBSET Op : Await(c, S) \/ AwaitCompleted(c, S)
    \/ OtherCall(c)

\* The monitor's own steps; operations begin with RunCommand only.
MonitorStep ==
    /\ Next
    /\ \A o \in Op : status[o] = "new" => status'[o] = "new"
    /\ UNCHANGED delivery

DeliveryNext == MonitorStep \/ \E c \in Call : Serve(c) \/ Ask(c)

DeliverySpec == DeliveryInit /\ [][DeliveryNext]_<<vars, delivery>>

-----------------------------------------------------------------------------
(***************************************************************************)
(* Properties                                                              *)
(***************************************************************************)
Carried == UNION {call[c].carry : c \in Call}

\* SPEC R2.7.5: a result that was announced and still owed when a call came in
\* is in its answer, for a session that makes one call at a time.
OwedIsDelivered ==
    Roomy => \A c \in Call : call[c].at = "history" /\ call[c].todo = {} =>
                 call[c].owed \subseteq shown \cup Carried

\* take_finished looks into two maps one after the other; whatever finishes in
\* between, an operation that still runs never leaves the ledger.
LedgerKeepsRunning ==
    [][\A o \in ledger : InMap(o) => o \in ledger']_<<vars, delivery>>

\* SPEC R2.7.5, "prepended to the next tool result ... exactly once", for a
\* session that makes one call at a time.
PrependedOnce == \A o \in Op : prepended[o] <= 1

=============================================================================
