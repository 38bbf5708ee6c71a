----------------------- MODULE OperationMonitorProofs -----------------------
(***************************************************************************)
(* Theorems about OperationMonitor, for any number of operations and       *)
(* waiters and any history size.                                           *)
(***************************************************************************)
EXTENDS OperationMonitor, SequenceTheorems, TLAPS

\* The progress of a finishing operation, and what it has changed by then.
Settling(o) ==
    /\ status[o] \in Terminal <=> move[o] # "no"
    /\ told[o] = IF move[o] = "told" THEN 1 ELSE 0
    /\ o \in watch <=> move[o] \in {"signalled", "told"}
    /\ move[o] \in {"stored", "signalled", "told"} => Kept(o)
    /\ o \in history => move[o] \in {"stored", "signalled", "told"}

SettlingInv == \A o \in Op : Settling(o)

IInv == TypeOK /\ SettlingInv /\ HistoryInOrder

-----------------------------------------------------------------------------
\* The states of an operation before and after its first terminal transition.
LEMMA StatesDiffer == "new" \notin Active \cup Terminal /\ Active \cap Terminal = {}
BY DEF Active, Terminal

\* Appending an id that is not there keeps the ids distinct.
LEMMA AppendDistinct ==
    ASSUME NEW s \in Seq(Op), IsInjective(s), NEW o \in Op, o \notin ToSet(s)
    PROVE  /\ IsInjective(Append(s, o))
           /\ ToSet(Append(s, o)) = ToSet(s) \cup {o}
<1> DEFINE t == Append(s, o)
<1>1. /\ DOMAIN s = 1 .. Len(s) /\ DOMAIN t = 1 .. (Len(s) + 1)
      /\ \A i \in 1 .. Len(s) : t[i] = s[i]
      /\ t[Len(s) + 1] = o
  OBVIOUS
<1>2. \A i \in 1 .. Len(s) : s[i] \in ToSet(s)
  BY <1>1 DEF ToSet
<1>3. Len(s) \in Nat
  OBVIOUS
<1> HIDE DEF t
<1>4. IsInjective(t)
  <2> SUFFICES ASSUME NEW i \in DOMAIN t, NEW j \in DOMAIN t, t[i] = t[j] PROVE i = j
    BY DEF IsInjective
  <2>1. CASE i \in 1 .. Len(s) /\ j \in 1 .. Len(s)
    BY <1>1, <2>1 DEF IsInjective
  <2>2. CASE i = Len(s) + 1 \/ j = Len(s) + 1
    BY <1>1, <1>2, <1>3, <2>2
  <2> QED
    BY <1>1, <1>3, <2>1, <2>2
<1>5. ToSet(t) = ToSet(s) \cup {o}
  <2>1. \A i \in DOMAIN t : t[i] \in ToSet(s) \cup {o}
    BY <1>1, <1>2, <1>3
  <2>2. \A i \in DOMAIN s : i \in DOMAIN t /\ t[i] = s[i]
    BY <1>1, <1>3
  <2>3. Len(s) + 1 \in DOMAIN t
    BY <1>1, <1>3
  <2> QED
    BY <1>1, <2>1, <2>2, <2>3 DEF ToSet
<1> QED
  BY <1>4, <1>5 DEF t

\* Dropping the oldest id removes it, and nothing else.
LEMMA TailDistinct ==
    ASSUME NEW s \in Seq(Op), s # <<>>, IsInjective(s)
    PROVE  /\ Tail(s) \in Seq(Op) /\ Len(Tail(s)) = Len(s) - 1
           /\ Head(s) \in ToSet(s)
           /\ IsInjective(Tail(s))
           /\ ToSet(Tail(s)) = ToSet(s) \ {Head(s)}
<1> DEFINE t == Tail(s)
<1>1. /\ t \in Seq(Op) /\ Len(t) = Len(s) - 1 /\ Len(s) \in Nat \ {0}
      /\ Head(s) = s[1]
      /\ DOMAIN s = 1 .. Len(s) /\ DOMAIN t = 1 .. (Len(s) - 1)
  OBVIOUS
<1>2. \A i \in 1 .. (Len(s) - 1) : t[i] = s[i + 1]
  OBVIOUS
<1> HIDE DEF t
<1>3. Head(s) \in ToSet(s)
  BY <1>1 DEF ToSet
<1>4. IsInjective(t)
  <2> SUFFICES ASSUME NEW i \in DOMAIN t, NEW j \in DOMAIN t, t[i] = t[j] PROVE i = j
    BY DEF IsInjective
  <2>1. s[i + 1] = s[j + 1] /\ i + 1 \in DOMAIN s /\ j + 1 \in DOMAIN s
    BY <1>1, <1>2
  <2>2. i + 1 = j + 1
    BY <2>1 DEF IsInjective
  <2> QED
    BY <1>1, <2>2
<1>5. ToSet(t) = ToSet(s) \ {Head(s)}
  <2>1. ASSUME NEW i \in DOMAIN t PROVE t[i] \in ToSet(s) \ {Head(s)}
    <3>1. i + 1 \in DOMAIN s /\ 1 \in DOMAIN s /\ i + 1 # 1 /\ t[i] = s[i + 1]
      BY <1>1, <1>2, <2>1
    <3> QED
      BY <1>1, <3>1 DEF ToSet, IsInjective
  <2>2. ASSUME NEW j \in DOMAIN s, s[j] # Head(s) PROVE \E i \in DOMAIN t : t[i] = s[j]
    <3>1. j - 1 \in DOMAIN t /\ t[j - 1] = s[j]
      BY <1>1, <1>2, <2>2
    <3> QED
      BY <3>1
  <2> QED
    BY <2>1, <2>2 DEF ToSet
<1> QED
  BY <1>1, <1>3, <1>4, <1>5 DEF t

-----------------------------------------------------------------------------
LEMMA InitIInv == Init => IInv
<1> SUFFICES ASSUME Init PROVE IInv
  OBVIOUS
<1> USE DEF Init
<1>1. TypeOK
  <2>1. order \in Seq(Op)
    OBVIOUS
  <2>2. wait \in [Waiter -> [at : Answers \cup Asking, op : Op \cup {None}]]
    BY DEF Answers
  <2>3. /\ loop \in [at : {"asleep", "ticked", "sweeping"}, doomed : SUBSET Op,
                      on : Op \cup {None}]
        /\ batch \in [ids : SUBSET Op, on : Op \cup {None}]
    OBVIOUS
  <2>4. move \in [Op -> Moves]
    BY DEF Moves
  <2>5. /\ status \in [Op -> {"new"} \cup Active \cup Terminal]
        /\ told \in [Op -> Nat] /\ quiet \in [Op -> {"no", "yes"} \cup Lengths]
        /\ alert \in [Op -> {"none", "looking", "kept", "lost"}]
    OBVIOUS
  <2> QED
    BY <2>1, <2>2, <2>3, <2>4, <2>5 DEF TypeOK
<1>2. SettlingInv
  BY StatesDiffer DEF SettlingInv, Settling
<1>3. HistoryInOrder
  BY MonitorAssumption DEF HistoryInOrder, ToSet, IsInjective
<1> QED
  BY <1>1, <1>2, <1>3 DEF IInv

\* A waiter that goes on keeps the operation it asked for.
LEMMA MoveOn ==
    ASSUME NEW r, NEW x, NEW y, NEW b, r = [at |-> x, op |-> y]
    PROVE  [r EXCEPT !.at = b] = [at |-> b, op |-> y]
OBVIOUS

\* What a step leaves alone keeps its type.
LEMMA TypeStep == TypeOK /\ [Next]_vars => TypeOK'
<1> SUFFICES ASSUME TypeOK, [Next]_vars PROVE TypeOK'
  OBVIOUS
<1> USE DEF TypeOK, lifecycle, clocks, finishing, tasks
<1>1. ASSUME NEW o \in Op, Life(o) PROVE TypeOK'
  <2>1. CASE AddOperation(o)
    BY <2>1 DEF AddOperation, Active
  <2>2. CASE LeftQueue(o)
    BY <2>2 DEF LeftQueue
  <2>3. CASE Start(o)
    BY <2>3 DEF Start, Active
  <2>4. ASSUME NEW s \in Terminal, UpdateStatus(o, s) PROVE TypeOK'
    BY <2>4 DEF UpdateStatus, Finish, Moves
  <2>5. CASE CancelOperation(o)
    BY <2>5 DEF CancelOperation, Finish, Moves, Terminal
  <2> QED
    BY <1>1, <2>1, <2>2, <2>3, <2>4, <2>5 DEF Life
<1>2. ASSUME NEW o \in Op, Time(o) PROVE TypeOK'
  <2>1. CASE RunsLate(o)
    BY <2>1 DEF RunsLate
  <2>2. CASE FallsSilent(o)
    BY <2>2 DEF FallsSilent
  <2>3. CASE ShowsLife(o)
    BY <2>3 DEF ShowsLife
  <2> QED
    BY <1>2, <2>1, <2>2, <2>3 DEF Time
<1>3. ASSUME NEW o \in Op, Move(o) PROVE TypeOK'
  <2>1. CASE StoreInHistory(o)
    <3>1. order' \in Seq(Op)
      <4>1. CASE Len(order) < MaxHistory
        <5>1. order' = Append(order, o)
          BY <2>1, <4>1 DEF StoreInHistory
        <5> QED
          BY <5>1
      <4>2. CASE ~(Len(order) < MaxHistory)
        <5>1. order # <<>>
          BY <4>2, MonitorAssumption
        <5>2. Tail(order) \in Seq(Op)
          BY <5>1
        <5>3. order' = Append(Tail(order), o)
          BY <2>1, <4>2 DEF StoreInHistory
        <5> QED
          BY <5>2, <5>3
      <4> QED
        BY <4>1, <4>2
    <3> QED
      BY <2>1, <3>1 DEF StoreInHistory, Moves
  <2>2. CASE Signal(o)
    BY <2>2 DEF Signal, Moves
  <2>3. CASE EmitTerminal(o)
    BY <2>3 DEF EmitTerminal, Moves
  <2> QED
    BY <1>3, <2>1, <2>2, <2>3 DEF Move
<1>4. ASSUME NEW o \in Op, Alert(o) PROVE TypeOK'
  <2>1. CASE AppendAlert(o)
    BY <2>1 DEF AppendAlert
  <2>2. CASE AppendToHistory(o)
    BY <2>2 DEF AppendToHistory
  <2> QED
    BY <1>4, <2>1, <2>2 DEF Alert
<1>5. CASE Suspend
  BY <1>5 DEF Suspend, SleepFor, Lengths
<1>6. CASE CancelAll
  <2>1. CASE ListActive
    BY <2>1 DEF ListActive
  <2>2. ASSUME NEW o \in Op, CancelListed(o) PROVE TypeOK'
    BY <2>2 DEF CancelListed, Finish, Moves, Terminal
  <2>3. ASSUME NEW o \in Op, SkipListed(o) PROVE TypeOK'
    BY <2>3 DEF SkipListed
  <2> QED
    BY <1>6, <2>1, <2>2, <2>3 DEF CancelAll
<1>7. CASE Loop
  <2>1. CASE NoteMonitorTick
    BY <2>1 DEF NoteMonitorTick
  <2>2. CASE CheckTimeouts
    BY <2>2 DEF CheckTimeouts
  <2>3. CASE SleepASecond
    BY <2>3 DEF SleepASecond
  <2>4. ASSUME NEW o \in Op, TimeoutOperation(o) PROVE TypeOK'
    BY <2>4 DEF TimeoutOperation, Finish, Moves, Terminal
  <2>5. ASSUME NEW o \in Op, SpareOperation(o) PROVE TypeOK'
    BY <2>5 DEF SpareOperation
  <2> QED
    BY <1>7, <2>1, <2>2, <2>3, <2>4, <2>5 DEF Loop, Sweep
<1>8. ASSUME NEW w \in Waiter, Answer(w) \/ WaitTimesOut(w) \/ \E o \in Op : AskFor(w, o)
      PROVE  TypeOK'
  <2>1. ASSUME NEW o \in Op, AskFor(w, o) PROVE TypeOK'
    BY <2>1 DEF AskFor, Asking
  <2>2. ASSUME NEW a, NEW b \in Answers \cup Asking, Step(w, a, b) PROVE TypeOK'
    <3>1. wait' \in [Waiter -> [at : Answers \cup Asking, op : Op \cup {None}]]
      <4>1. wait' = [wait EXCEPT ![w] = [@ EXCEPT !.at = b]]
        BY <2>2 DEF Step
      <4>2. wait[w] = [at |-> wait[w].at, op |-> wait[w].op] /\ wait[w].op \in Op \cup {None}
        OBVIOUS
      <4>3. [wait[w] EXCEPT !.at = b] = [at |-> b, op |-> wait[w].op]
        BY <4>2, MoveOn
      <4> QED
        BY <4>1, <4>2, <4>3
    <3> QED
      BY <2>2, <3>1 DEF Step
  <2>3. {"found", "missed", "timeout", "subscribe", "recheck", "waiting", "lookup"}
          \subseteq Answers \cup Asking
    BY DEF Answers, Asking
  <2>4. CASE CheckHistory(w)
    BY <2>2, <2>3, <2>4 DEF CheckHistory
  <2>5. CASE Subscribe(w)
    BY <2>2, <2>3, <2>5 DEF Subscribe
  <2>6. CASE Recheck(w)
    BY <2>2, <2>3, <2>6 DEF Recheck
  <2>7. CASE ObserveFlag(w)
    BY <2>2, <2>3, <2>7 DEF ObserveFlag
  <2>8. CASE Lookup(w)
    BY <2>2, <2>3, <2>8 DEF Lookup
  <2>9. CASE WaitTimesOut(w)
    BY <2>2, <2>3, <2>9 DEF WaitTimesOut
  <2> QED
    BY <1>8, <2>1, <2>4, <2>5, <2>6, <2>7, <2>8, <2>9 DEF Answer
<1>9. CASE UNCHANGED vars
  BY <1>9 DEF vars
<1> QED
  BY <1>1, <1>2, <1>3, <1>4, <1>5, <1>6, <1>7, <1>8, <1>9 DEF Next

-----------------------------------------------------------------------------
\* A step that finishes nothing and moves nothing.
LEMMA NothingMoves ==
    ASSUME TypeOK, SettlingInv, HistoryInOrder, UNCHANGED finishing,
           \A o \in Op : status'[o] \in Terminal <=> status[o] \in Terminal
    PROVE  SettlingInv' /\ HistoryInOrder'
BY DEF SettlingInv, Settling, Kept, HistoryInOrder, finishing

\* A first terminal transition.
LEMMA FinishStep ==
    ASSUME TypeOK, SettlingInv, HistoryInOrder, NEW o \in Op, NEW s \in Terminal,
           Finish(o, s), UNCHANGED <<history, order, watch, told>>
    PROVE  SettlingInv' /\ HistoryInOrder'
<1>1. HistoryInOrder'
  BY DEF HistoryInOrder
<1>2. ASSUME NEW q \in Op PROVE Settling(q)'
  <2>1. CASE q = o
    <3>1. status[o] \notin Terminal
      BY StatesDiffer DEF Finish, InMap
    <3>2. move[o] = "no" /\ status'[o] = s /\ move'[o] = "taken"
      BY <3>1 DEF SettlingInv, Settling, TypeOK, Finish
    <3> QED
      BY <2>1, <3>2 DEF SettlingInv, Settling
  <2>2. CASE q # o
    <3>1. status'[q] = status[q] /\ move'[q] = move[q]
      BY <2>2 DEF Finish, TypeOK
    <3> QED
      BY <3>1 DEF SettlingInv, Settling, Kept
  <2> QED
    BY <2>1, <2>2
<1> QED
  BY <1>1, <1>2 DEF SettlingInv

\* The history and its order change together, and a full history stays full.
LEMMA StoreStep ==
    ASSUME TypeOK, SettlingInv, HistoryInOrder, NEW o \in Op, StoreInHistory(o)
    PROVE  SettlingInv' /\ HistoryInOrder'
<1> USE MonitorAssumption DEF TypeOK
<1>1. o \notin ToSet(order)
  BY DEF SettlingInv, Settling, HistoryInOrder, StoreInHistory
<1>2. /\ move'[o] = "stored" /\ \A q \in Op \ {o} : move'[q] = move[q]
      /\ UNCHANGED <<status, watch, told>>
  BY DEF StoreInHistory, lifecycle
<1>3. /\ HistoryInOrder' /\ o \in history'
      /\ \A q \in Op : Kept(q) => Kept(q)'
      /\ \A q \in Op : q # o /\ q \in history' => q \in history
  <2>1. CASE Len(order) < MaxHistory
    <3>1. order' = Append(order, o) /\ history' = history \cup {o}
      BY <2>1 DEF StoreInHistory
    <3>2. IsInjective(order') /\ ToSet(order') = ToSet(order) \cup {o}
      BY <1>1, <3>1, AppendDistinct DEF HistoryInOrder
    <3>3. Len(order') = Len(order) + 1
      BY <3>1
    <3> QED
      BY <2>1, <3>1, <3>2, <3>3 DEF HistoryInOrder, Kept
  <2>2. CASE ~(Len(order) < MaxHistory)
    <3>1. /\ order' = Append(Tail(order), o)
          /\ history' = (history \cup {o}) \ {Head(order)}
      BY <2>2 DEF StoreInHistory
    <3>2. Len(order) = MaxHistory /\ order # <<>>
      BY <2>2 DEF HistoryInOrder
    <3>3. /\ Tail(order) \in Seq(Op) /\ Len(Tail(order)) = Len(order) - 1
          /\ Head(order) \in ToSet(order)
          /\ IsInjective(Tail(order))
          /\ ToSet(Tail(order)) = ToSet(order) \ {Head(order)}
      BY <3>2, TailDistinct DEF HistoryInOrder
    <3>4. IsInjective(order') /\ ToSet(order') = ToSet(Tail(order)) \cup {o}
      BY <1>1, <3>1, <3>3, AppendDistinct
    <3>5. Len(order') = MaxHistory
      BY <3>1, <3>2, <3>3
    <3> QED
      BY <1>1, <3>1, <3>2, <3>3, <3>4, <3>5 DEF HistoryInOrder, Kept
  <2> QED
    BY <2>1, <2>2
<1>4. move[o] = "taken"
  BY DEF StoreInHistory
<1>5. ASSUME NEW q \in Op PROVE Settling(q)'
  <2>1. CASE q = o
    BY <1>2, <1>3, <1>4, <2>1 DEF SettlingInv, Settling, Kept
  <2>2. CASE q # o
    BY <1>2, <1>3, <2>2 DEF SettlingInv, Settling
  <2> QED
    BY <2>1, <2>2
<1> QED
  BY <1>3, <1>5 DEF SettlingInv

LEMMA AnnounceStep ==
    ASSUME TypeOK, SettlingInv, HistoryInOrder, NEW o \in Op, Signal(o) \/ EmitTerminal(o)
    PROVE  SettlingInv' /\ HistoryInOrder'
<1>1. UNCHANGED <<status, history, order>>
  BY DEF Signal, EmitTerminal, lifecycle
<1>2. HistoryInOrder'
  BY <1>1 DEF HistoryInOrder
<1>3. ASSUME NEW q \in Op PROVE Settling(q)'
  <2>1. CASE Signal(o)
    BY <1>1, <2>1 DEF Signal, SettlingInv, Settling, Kept, TypeOK
  <2>2. CASE EmitTerminal(o)
    BY <1>1, <2>2 DEF EmitTerminal, SettlingInv, Settling, Kept, TypeOK
  <2> QED
    BY <2>1, <2>2
<1> QED
  BY <1>2, <1>3 DEF SettlingInv

\* Every step keeps the progress of the finishing operations.
LEMMA SettlingStep ==
    TypeOK /\ SettlingInv /\ HistoryInOrder /\ [Next]_vars => SettlingInv' /\ HistoryInOrder'
<1> SUFFICES ASSUME TypeOK, SettlingInv, HistoryInOrder, [Next]_vars
             PROVE  SettlingInv' /\ HistoryInOrder'
  OBVIOUS
<1>1. ASSUME NEW o \in Op, Life(o) PROVE SettlingInv' /\ HistoryInOrder'
  <2>1. CASE AddOperation(o)
    BY <2>1, StatesDiffer, NothingMoves DEF AddOperation, TypeOK, Active
  <2>2. CASE LeftQueue(o)
    BY <2>2, NothingMoves DEF LeftQueue
  <2>3. CASE Start(o)
    BY <2>3, StatesDiffer, NothingMoves DEF Start, TypeOK, Active
  <2>4. ASSUME NEW s \in Terminal, UpdateStatus(o, s) PROVE SettlingInv' /\ HistoryInOrder'
    BY <2>4, FinishStep DEF UpdateStatus
  <2>5. CASE CancelOperation(o)
    BY <2>5, FinishStep DEF CancelOperation, Terminal
  <2> QED
    BY <1>1, <2>1, <2>2, <2>3, <2>4, <2>5 DEF Life
<1>2. ASSUME NEW o \in Op, Time(o) PROVE SettlingInv' /\ HistoryInOrder'
  BY <1>2, NothingMoves DEF Time, RunsLate, FallsSilent, ShowsLife, lifecycle
<1>3. ASSUME NEW o \in Op, Move(o) PROVE SettlingInv' /\ HistoryInOrder'
  BY <1>3, StoreStep, AnnounceStep DEF Move
<1>4. ASSUME NEW o \in Op, Alert(o) PROVE SettlingInv' /\ HistoryInOrder'
  BY <1>4, NothingMoves DEF Alert, AppendAlert, AppendToHistory, lifecycle
<1>5. CASE Suspend
  BY <1>5, NothingMoves DEF Suspend, SleepFor, lifecycle
<1>6. CASE CancelAll
  <2>1. ASSUME NEW o \in Op, CancelListed(o) PROVE SettlingInv' /\ HistoryInOrder'
    BY <2>1, FinishStep DEF CancelListed, Terminal
  <2>2. ASSUME NEW o \in Op, SkipListed(o) PROVE SettlingInv' /\ HistoryInOrder'
    BY <2>2, NothingMoves DEF SkipListed, lifecycle
  <2>3. CASE ListActive
    BY <2>3, NothingMoves DEF ListActive, lifecycle
  <2> QED
    BY <1>6, <2>1, <2>2, <2>3 DEF CancelAll
<1>7. CASE Loop
  <2>1. ASSUME NEW o \in Op, TimeoutOperation(o) PROVE SettlingInv' /\ HistoryInOrder'
    BY <2>1, FinishStep DEF TimeoutOperation, Terminal
  <2>2. ASSUME NEW o \in Op, SpareOperation(o) PROVE SettlingInv' /\ HistoryInOrder'
    BY <2>2, NothingMoves DEF SpareOperation, lifecycle
  <2>3. CASE NoteMonitorTick
    BY <2>3, NothingMoves DEF NoteMonitorTick, lifecycle
  <2>4. CASE CheckTimeouts
    BY <2>4, NothingMoves DEF CheckTimeouts, lifecycle
  <2>5. CASE SleepASecond
    BY <2>5, NothingMoves DEF SleepASecond, lifecycle
  <2> QED
    BY <1>7, <2>1, <2>2, <2>3, <2>4, <2>5 DEF Loop, Sweep
<1>8. ASSUME NEW w \in Waiter, Answer(w) \/ WaitTimesOut(w) \/ \E o \in Op : AskFor(w, o)
      PROVE  SettlingInv' /\ HistoryInOrder'
  <2>1. UNCHANGED lifecycle /\ UNCHANGED finishing
    BY <1>8
    DEF Answer, CheckHistory, Subscribe, Recheck, ObserveFlag, Lookup, WaitTimesOut, AskFor, Step
  <2> QED
    BY <2>1, NothingMoves DEF lifecycle
<1>9. CASE UNCHANGED vars
  BY <1>9, NothingMoves DEF vars, lifecycle
<1> QED
  BY <1>1, <1>2, <1>3, <1>4, <1>5, <1>6, <1>7, <1>8, <1>9 DEF Next

-----------------------------------------------------------------------------
\* The inductive invariant: the types, how far each finishing operation has
\* come, and the agreement of the history with its order.
THEOREM Invariant == Spec => []IInv
<1>1. IInv /\ [Next]_vars => IInv'
  BY TypeStep, SettlingStep DEF IInv
<1> QED
  BY InitIInv, <1>1, PTL DEF Spec

\* Every variable of the monitor keeps its type.
THEOREM TypeCorrect == Spec => []TypeOK
<1>1. IInv => TypeOK
  BY DEF IInv
<1> QED
  BY <1>1, Invariant, PTL

\* completion_history and completion_order, changed by move_to_history_and_notify,
\* hold the same ids, each once, within the cap.
THEOREM HistoryAgrees == Spec => []HistoryInOrder
<1>1. IInv => HistoryInOrder
  BY DEF IInv
<1> QED
  BY <1>1, Invariant, PTL

\* R15.3: whoever sees the terminal event or the flag finds the final state,
\* unless a full history has evicted it.
THEOREM EventsFollowHistory == Spec => []TerminalOrder
<1>1. IInv => TerminalOrder
  BY DEF IInv, SettlingInv, Settling, TerminalOrder
<1> QED
  BY <1>1, Invariant, PTL

-----------------------------------------------------------------------------
\* A step takes no operation out of the map but for an outcome, no outcome back,
\* and clears no completion flag.
Onward == /\ \A o \in Op : /\ status[o] \in Terminal => status'[o] \in Terminal
                           /\ status[o] # "new" => status'[o] # "new"
          /\ watch \subseteq watch'

LEMMA FinishGoesOnward ==
    ASSUME TypeOK, NEW o \in Op, NEW s \in Terminal, Finish(o, s), UNCHANGED watch
    PROVE  Onward
BY StatesDiffer DEF Onward, Finish, InMap, TypeOK

LEMMA StepGoesOnward == TypeOK /\ [Next]_vars => Onward
<1> SUFFICES ASSUME TypeOK, [Next]_vars PROVE Onward
  OBVIOUS
<1> USE DEF lifecycle, finishing
<1>1. ASSUME UNCHANGED <<status, watch>> PROVE Onward
  BY <1>1 DEF Onward
<1>2. {"Cancelled", "TimedOut"} \subseteq Terminal
  BY DEF Terminal
<1>3. ASSUME NEW o \in Op, Life(o) PROVE Onward
  <2>1. CASE AddOperation(o)
    BY <2>1, StatesDiffer DEF Onward, AddOperation, TypeOK, Active
  <2>2. CASE LeftQueue(o)
    BY <2>2, <1>1 DEF LeftQueue
  <2>3. CASE Start(o)
    BY <2>3, StatesDiffer DEF Onward, Start, TypeOK, Active
  <2>4. ASSUME NEW s \in Terminal, UpdateStatus(o, s) PROVE Onward
    BY <2>4, FinishGoesOnward DEF UpdateStatus
  <2>5. CASE CancelOperation(o)
    BY <2>5, <1>2, FinishGoesOnward DEF CancelOperation
  <2> QED
    BY <1>3, <2>1, <2>2, <2>3, <2>4, <2>5 DEF Life
<1>4. ASSUME NEW o \in Op, Move(o) PROVE Onward
  <2>1. CASE StoreInHistory(o) \/ EmitTerminal(o)
    BY <2>1, <1>1 DEF StoreInHistory, EmitTerminal
  <2>2. CASE Signal(o)
    BY <2>2 DEF Signal, Onward
  <2> QED
    BY <1>4, <2>1, <2>2 DEF Move
<1>5. ASSUME NEW o \in Op, Time(o) \/ Alert(o) PROVE Onward
  BY <1>5, <1>1 DEF Time, RunsLate, FallsSilent, ShowsLife, Alert, AppendAlert, AppendToHistory
<1>6. CASE Suspend
  BY <1>6, <1>1 DEF Suspend, SleepFor
<1>7. CASE CancelAll
  <2>1. ASSUME NEW o \in Op, CancelListed(o) PROVE Onward
    BY <2>1, <1>2, FinishGoesOnward DEF CancelListed
  <2>2. ASSUME NEW o \in Op, SkipListed(o) PROVE Onward
    BY <2>2, <1>1 DEF SkipListed
  <2>3. CASE ListActive
    BY <2>3, <1>1 DEF ListActive
  <2> QED
    BY <1>7, <2>1, <2>2, <2>3 DEF CancelAll
<1>8. CASE Loop
  <2>1. ASSUME NEW o \in Op, TimeoutOperation(o) PROVE Onward
    BY <2>1, <1>2, FinishGoesOnward DEF TimeoutOperation
  <2>2. ASSUME NEW o \in Op, SpareOperation(o) PROVE Onward
    BY <2>2, <1>1 DEF SpareOperation
  <2>3. CASE NoteMonitorTick \/ CheckTimeouts \/ SleepASecond
    BY <2>3, <1>1 DEF NoteMonitorTick, CheckTimeouts, SleepASecond
  <2> QED
    BY <1>8, <2>1, <2>2, <2>3 DEF Loop, Sweep
<1>9. ASSUME NEW w \in Waiter, Answer(w) \/ WaitTimesOut(w) \/ \E o \in Op : AskFor(w, o)
      PROVE  Onward
  BY <1>9, <1>1
  DEF Answer, CheckHistory, Subscribe, Recheck, ObserveFlag, Lookup, WaitTimesOut, AskFor, Step
<1>10. CASE UNCHANGED vars
  BY <1>10, <1>1 DEF vars
<1> QED
  BY <1>3, <1>4, <1>5, <1>6, <1>7, <1>8, <1>9, <1>10 DEF Next

\* What an alert and a waiter that looked into the active map may rely on.
SeekingInv ==
    /\ \A o \in Op : alert[o] = "looking" => status[o] \in Terminal
    /\ \A w \in Waiter :
          /\ wait[w].at \in Asking => wait[w].op \in Op /\ status[wait[w].op] # "new"
          /\ wait[w].at = "recheck" => status[wait[w].op] \in Terminal
          /\ wait[w].at = "lookup" => wait[w].op \in watch

LEMMA OthersSeekOn ==
    ASSUME TypeOK, SeekingInv, Onward, UNCHANGED <<alert, wait>>
    PROVE  SeekingInv'
BY DEF SeekingInv, Onward, Asking

\* One waiter goes on, with the same operation.
LEMMA WaiterSeeksOn ==
    ASSUME TypeOK, SeekingInv, Onward, NEW w \in Waiter, NEW a \in Asking,
           NEW b, Step(w, a, b),
           b = "recheck" => status[wait[w].op] \in Terminal,
           b = "lookup" => wait[w].op \in watch
    PROVE  SeekingInv'
<1>1. UNCHANGED <<alert, status, watch>>
  BY DEF Step, lifecycle, finishing
<1>2. wait'[w].op = wait[w].op /\ wait'[w].at = b /\ wait[w].at \in Asking
  BY DEF Step, TypeOK
<1>3. \A x \in Waiter : x # w => wait'[x] = wait[x]
  BY DEF Step, TypeOK
<1> QED
  BY <1>1, <1>2, <1>3 DEF SeekingInv

LEMMA SeekingStep == TypeOK /\ SeekingInv /\ [Next]_vars => SeekingInv'
<1> SUFFICES ASSUME TypeOK, SeekingInv, [Next]_vars PROVE SeekingInv'
  OBVIOUS
<1>1. Onward
  BY StepGoesOnward
<1>2. ASSUME NEW o \in Op, AppendAlert(o) PROVE SeekingInv'
  <2>1. UNCHANGED <<wait, status, watch>> /\ status[o] # "new"
    BY <1>2 DEF AppendAlert, lifecycle, finishing
  <2>2. alert'[o] = "looking" => status[o] \in Terminal
    BY <1>2, <2>1 DEF AppendAlert, TypeOK, InMap
  <2>3. \A x \in Op : x # o => alert'[x] = alert[x]
    BY <1>2 DEF AppendAlert, TypeOK
  <2> QED
    BY <2>1, <2>2, <2>3 DEF SeekingInv
<1>3. ASSUME NEW o \in Op, AppendToHistory(o) PROVE SeekingInv'
  <2>1. UNCHANGED <<wait, status, watch>>
    BY <1>3 DEF AppendToHistory, lifecycle, finishing
  <2>2. \A x \in Op : alert'[x] = "looking" => alert[x] = "looking"
    BY <1>3 DEF AppendToHistory, TypeOK
  <2> QED
    BY <2>1, <2>2 DEF SeekingInv
<1>4. ASSUME NEW w \in Waiter, NEW o \in Op, AskFor(w, o) PROVE SeekingInv'
  <2>1. UNCHANGED <<alert, status, watch>> /\ status[o] # "new"
    BY <1>4 DEF AskFor, lifecycle, finishing
  <2>2. wait' = [wait EXCEPT ![w] = [at |-> "history", op |-> o]]
    BY <1>4 DEF AskFor
  <2>3. wait'[w].at = "history" /\ wait'[w].op = o
    BY <2>2 DEF TypeOK
  <2>4. \A x \in Waiter : x # w => wait'[x] = wait[x]
    BY <2>2 DEF TypeOK
  <2> QED
    BY <2>1, <2>3, <2>4 DEF SeekingInv
<1>5. ASSUME NEW w \in Waiter, Answer(w) \/ WaitTimesOut(w) PROVE SeekingInv'
  <2>1. {"history", "subscribe", "recheck", "waiting", "lookup"} \subseteq Asking
    BY DEF Asking
  <2>2. CASE CheckHistory(w)
    BY <1>1, <2>1, <2>2, WaiterSeeksOn DEF CheckHistory
  <2>3. CASE Subscribe(w)
    <3>1. wait[w].at = "subscribe"
      BY <2>3 DEF Subscribe
    <3>2. wait[w].op \in Op /\ status[wait[w].op] # "new"
      BY <2>1, <3>1 DEF SeekingInv
    <3>3. ~InMap(wait[w].op) => status[wait[w].op] \in Terminal
      BY <3>2 DEF TypeOK, InMap
    <3> QED
      BY <1>1, <2>1, <2>3, <3>3, WaiterSeeksOn DEF Subscribe
  <2>4. CASE Recheck(w)
    BY <1>1, <2>1, <2>4, WaiterSeeksOn DEF Recheck
  <2>5. CASE ObserveFlag(w)
    BY <1>1, <2>1, <2>5, WaiterSeeksOn DEF ObserveFlag
  <2>6. CASE Lookup(w)
    BY <1>1, <2>1, <2>6, WaiterSeeksOn DEF Lookup
  <2>7. CASE WaitTimesOut(w)
    BY <1>1, <2>1, <2>7, WaiterSeeksOn DEF WaitTimesOut
  <2> QED
    BY <1>5, <2>2, <2>3, <2>4, <2>5, <2>6, <2>7 DEF Answer
<1>6. ASSUME NEW o \in Op, Life(o) \/ Time(o) \/ Move(o) PROVE UNCHANGED <<alert, wait>>
  BY <1>6
  DEF Life, AddOperation, LeftQueue, Start, UpdateStatus, CancelOperation, Time, RunsLate,
      FallsSilent, ShowsLife, Move, StoreInHistory, Signal, EmitTerminal, tasks
<1>7. CASE Suspend \/ CancelAll \/ Loop
  <2>1. UNCHANGED <<alert, wait>>
    BY <1>7
    DEF Suspend, SleepFor, CancelAll, ListActive, CancelListed, SkipListed, Loop, NoteMonitorTick,
        CheckTimeouts, SleepASecond, Sweep, TimeoutOperation, SpareOperation, tasks
  <2> QED
    BY <1>1, <2>1, OthersSeekOn
<1>8. CASE UNCHANGED vars
  BY <1>1, <1>8, OthersSeekOn DEF vars, tasks
<1> QED
  BY <1>1, <1>2, <1>3, <1>4, <1>5, <1>6, <1>7, <1>8, OthersSeekOn DEF Next, Alert

THEOREM SeekingInvariant == Spec => []SeekingInv
<1>1. Init => SeekingInv
  BY DEF Init, SeekingInv, Asking
<1>2. IInv /\ SeekingInv /\ [Next]_vars => SeekingInv'
  BY SeekingStep DEF IInv
<1> QED
  BY <1>1, <1>2, Invariant, PTL DEF Spec

\* An operation that has left the map and is not in the history is between the
\* two, or was evicted.
LEMMA GoneIsAccountedFor ==
    ASSUME TypeOK, SettlingInv, NEW o \in Op, status[o] \in Terminal, o \notin history
    PROVE  /\ move[o] # "no"
           /\ move[o] = "taken" \/ Len(order) = MaxHistory
BY DEF SettlingInv, Settling, Kept, TypeOK, Moves

\* wait_for_operation_bounded: "nothing" is the answer only for an operation
\* between the two maps or evicted.
THEOREM WaitsMissInTransitOnly == Spec => MissedInTransitOnly
<1>1. ASSUME IInv, SeekingInv, [Next]_vars, NEW w \in Waiter,
             wait[w].at # "missed", wait'[w].at = "missed"
      PROVE  LET o == wait[w].op
             IN  /\ move[o] # "no" /\ o \notin history
                 /\ move[o] = "taken" \/ Len(order) = MaxHistory
  <2> DEFINE o == wait[w].op
  <2>1. wait'[w] # wait[w]
    BY <1>1
  <2>2. ASSUME NEW x \in Waiter, NEW a, NEW b, Step(x, a, b)
        PROVE  x = w /\ b = "missed"
    <3>1. x = w
      BY <1>1, <2>1, <2>2 DEF Step, IInv, TypeOK
    <3>2. wait'[w] = [wait[w] EXCEPT !.at = b]
      BY <1>1, <2>2, <3>1 DEF Step, IInv, TypeOK
    <3>3. wait[w] = [at |-> wait[w].at, op |-> wait[w].op]
      BY <1>1 DEF IInv, TypeOK
    <3>4. wait'[w] = [at |-> b, op |-> wait[w].op]
      BY <3>2, <3>3, MoveOn
    <3> QED
      BY <1>1, <3>1, <3>4
  <2>3. ~ \E x \in Waiter, q \in Op : AskFor(x, q)
    <3> SUFFICES ASSUME NEW x \in Waiter, NEW q \in Op, AskFor(x, q) PROVE FALSE
      OBVIOUS
    <3>1. wait' = [wait EXCEPT ![x] = [at |-> "history", op |-> q]]
      BY DEF AskFor
    <3>2. x = w
      BY <2>1, <3>1, <1>1 DEF IInv, TypeOK
    <3>3. wait'[w].at = "history"
      BY <3>1, <3>2, <1>1 DEF IInv, TypeOK
    <3> QED
      BY <1>1, <3>3
  <2>4. Recheck(w) \/ Lookup(w)
    <3>1. \A x \in Op : ~(Life(x) \/ Time(x) \/ Move(x) \/ Alert(x))
      BY <2>1
      DEF Life, AddOperation, LeftQueue, Start, UpdateStatus, CancelOperation, Time, RunsLate,
          FallsSilent, ShowsLife, Move, StoreInHistory, Signal, EmitTerminal, tasks,
          Alert, AppendAlert, AppendToHistory
    <3>2. ~(Suspend \/ CancelAll \/ Loop \/ UNCHANGED vars)
      BY <2>1
      DEF Suspend, SleepFor, CancelAll, ListActive, CancelListed, SkipListed, Loop, NoteMonitorTick,
          CheckTimeouts, SleepASecond, Sweep, TimeoutOperation, SpareOperation, tasks, vars
    <3>3. PICK x \in Waiter : Answer(x) \/ WaitTimesOut(x)
      BY <1>1, <2>3, <3>1, <3>2 DEF Next
    <3>4. ~(CheckHistory(x) \/ Subscribe(x) \/ ObserveFlag(x) \/ WaitTimesOut(x))
      BY <2>2 DEF CheckHistory, Subscribe, ObserveFlag, WaitTimesOut
    <3>5. Recheck(x) \/ Lookup(x)
      BY <3>3, <3>4 DEF Answer
    <3>6. x = w
      BY <2>2, <3>5 DEF Recheck, Lookup
    <3> QED
      BY <3>5, <3>6
  <2>5. o \notin history
    <3>1. ~(InHistory(w) /\ (Step(w, "recheck", "found") \/ Step(w, "lookup", "found")))
      BY <2>2
    <3> QED
      BY <2>4, <3>1 DEF Recheck, Lookup, InHistory
  <2>6. wait[w].at \in {"recheck", "lookup"} /\ o \in Op
    BY <1>1, <2>4 DEF Recheck, Lookup, Step, SeekingInv, Asking
  <2>7. status[o] \in Terminal
    <3>1. o \in watch => status[o] \in Terminal
      BY <1>1, <2>6 DEF IInv, SettlingInv, Settling
    <3> QED
      BY <1>1, <2>6, <3>1 DEF SeekingInv
  <2> QED
    BY <1>1, <2>5, <2>6, <2>7, GoneIsAccountedFor DEF IInv
<1>2. IInv /\ SeekingInv /\ [Next]_vars =>
        [\A w \in Waiter : wait[w].at # "missed" /\ wait'[w].at = "missed" =>
            LET o == wait[w].op
            IN  /\ move[o] # "no" /\ o \notin history
                /\ move[o] = "taken" \/ Len(order) = MaxHistory]_vars
  BY <1>1
<1> QED
  BY <1>2, Invariant, SeekingInvariant, PTL DEF Spec, MissedInTransitOnly

\* append_alert: an alert is lost only while its operation is between the two
\* maps, or after its eviction.
THEOREM AlertsAreKept == Spec => AlertLostInTransitOnly
<1>1. ASSUME IInv, SeekingInv, [Next]_vars, NEW o \in Op, alert[o] # "lost", alert'[o] = "lost"
      PROVE  o \notin history /\ (move[o] = "taken" \/ Len(order) = MaxHistory)
  <2>1. alert' # alert
    BY <1>1
  <2>2. \A w \in Waiter : ~(Answer(w) \/ WaitTimesOut(w) \/ \E q \in Op : AskFor(w, q))
    BY <2>1
    DEF Answer, CheckHistory, Subscribe, Recheck, ObserveFlag, Lookup, WaitTimesOut, AskFor, Step
  <2>3. \A x \in Op : ~(Life(x) \/ Time(x) \/ Move(x))
    BY <2>1
    DEF Life, AddOperation, LeftQueue, Start, UpdateStatus, CancelOperation, Time, RunsLate,
        FallsSilent, ShowsLife, Move, StoreInHistory, Signal, EmitTerminal, tasks
  <2>4. ~(Suspend \/ CancelAll \/ Loop \/ UNCHANGED vars)
    BY <2>1
    DEF Suspend, SleepFor, CancelAll, ListActive, CancelListed, SkipListed, Loop, NoteMonitorTick,
        CheckTimeouts, SleepASecond, Sweep, TimeoutOperation, SpareOperation, tasks, vars
  <2>5. PICK x \in Op : AppendAlert(x) \/ AppendToHistory(x)
    BY <1>1, <2>2, <2>3, <2>4 DEF Next, Alert
  <2>6. x = o
    BY <1>1, <2>5 DEF AppendAlert, AppendToHistory, IInv, TypeOK
  <2>7. ~AppendAlert(o)
    BY <1>1 DEF AppendAlert, IInv, TypeOK
  <2>8. alert[o] = "looking" /\ o \notin history
    BY <1>1, <2>5, <2>6, <2>7 DEF AppendToHistory, IInv, TypeOK
  <2> QED
    BY <1>1, <2>8, GoneIsAccountedFor DEF SeekingInv, IInv
<1>2. IInv /\ SeekingInv /\ [Next]_vars =>
        [\A o \in Op : alert[o] # "lost" /\ alert'[o] = "lost" =>
            /\ o \notin history
            /\ move[o] = "taken" \/ Len(order) = MaxHistory]_vars
  BY <1>1
<1> QED
  BY <1>2, Invariant, SeekingInvariant, PTL DEF Spec, AlertLostInTransitOnly

-----------------------------------------------------------------------------
\* Only an operation in the map is over its idle budget, and only until the suspend
\* is measured for the time of a long one.
QuietInv == \A o \in Op : /\ quiet[o] # "no" => InMap(o)
                          /\ quiet[o] = "long" => slept = "long"

LEMMA QuietKept ==
    ASSUME QuietInv, UNCHANGED <<quiet, slept>>, \A o \in Op : InMap(o) => InMap(o)'
    PROVE  QuietInv'
BY DEF QuietInv

LEMMA FinishIsNotQuiet ==
    ASSUME TypeOK, QuietInv, NEW o \in Op, NEW s \in Terminal, Finish(o, s), UNCHANGED slept
    PROVE  QuietInv'
BY DEF QuietInv, Finish, InMap, TypeOK

LEMMA QuietStep == TypeOK /\ QuietInv /\ [Next]_vars => QuietInv'
<1> SUFFICES ASSUME TypeOK, QuietInv, [Next]_vars PROVE QuietInv'
  OBVIOUS
<1>1. {"Cancelled", "TimedOut"} \subseteq Terminal
  BY DEF Terminal
<1>2. ASSUME UNCHANGED <<status, quiet, slept>> PROVE QuietInv'
  BY <1>2, QuietKept DEF InMap
<1>3. ASSUME NEW o \in Op, Life(o) PROVE QuietInv'
  <2>1. CASE AddOperation(o) \/ Start(o)
    BY <2>1, QuietKept DEF AddOperation, Start, InMap, Active, TypeOK, clocks
  <2>2. CASE LeftQueue(o)
    BY <2>2 DEF LeftQueue, QuietInv, InMap, TypeOK
  <2>3. ASSUME NEW s \in Terminal, UpdateStatus(o, s) PROVE QuietInv'
    BY <2>3, FinishIsNotQuiet DEF UpdateStatus
  <2>4. CASE CancelOperation(o)
    BY <2>4, <1>1, FinishIsNotQuiet DEF CancelOperation
  <2> QED
    BY <1>3, <2>1, <2>2, <2>3, <2>4 DEF Life
<1>4. ASSUME NEW o \in Op, Time(o) PROVE QuietInv'
  <2>1. CASE RunsLate(o)
    BY <2>1, <1>2 DEF RunsLate, lifecycle
  <2>2. CASE FallsSilent(o) \/ ShowsLife(o)
    BY <2>2 DEF FallsSilent, ShowsLife, QuietInv, InMap, TypeOK, lifecycle
  <2> QED
    BY <1>4, <2>1, <2>2 DEF Time
<1>5. ASSUME NEW o \in Op, Move(o) \/ Alert(o) PROVE QuietInv'
  BY <1>5, <1>2
  DEF Move, StoreInHistory, Signal, EmitTerminal, Alert, AppendAlert, AppendToHistory,
      lifecycle, clocks
<1>6. CASE Suspend
  BY <1>6 DEF Suspend, SleepFor, Lengths, QuietInv, InMap, TypeOK, lifecycle
<1>7. CASE CancelAll
  <2>1. ASSUME NEW o \in Op, CancelListed(o) PROVE QuietInv'
    BY <2>1, <1>1, FinishIsNotQuiet DEF CancelListed
  <2>2. CASE ListActive \/ \E o \in Op : SkipListed(o)
    BY <2>2, <1>2 DEF ListActive, SkipListed, lifecycle, clocks
  <2> QED
    BY <1>7, <2>1, <2>2 DEF CancelAll
<1>8. CASE Loop
  <2>1. ASSUME NEW o \in Op, TimeoutOperation(o) PROVE QuietInv'
    BY <2>1, <1>1, FinishIsNotQuiet DEF TimeoutOperation
  <2>2. CASE CheckTimeouts \/ SleepASecond \/ \E o \in Op : SpareOperation(o)
    BY <2>2, <1>2 DEF CheckTimeouts, SleepASecond, SpareOperation, lifecycle, clocks
  <2>3. CASE NoteMonitorTick
    BY <2>3 DEF NoteMonitorTick, QuietInv, InMap, lifecycle
  <2> QED
    BY <1>8, <2>1, <2>2, <2>3 DEF Loop, Sweep
<1>9. ASSUME NEW w \in Waiter, Answer(w) \/ WaitTimesOut(w) \/ \E o \in Op : AskFor(w, o)
      PROVE  QuietInv'
  BY <1>9, <1>2
  DEF Answer, CheckHistory, Subscribe, Recheck, ObserveFlag, Lookup, WaitTimesOut, AskFor, Step,
      lifecycle, clocks
<1>10. CASE UNCHANGED vars
  BY <1>10, <1>2 DEF vars, lifecycle, clocks
<1> QED
  BY <1>3, <1>4, <1>5, <1>6, <1>7, <1>8, <1>9, <1>10 DEF Next

\* note_monitor_tick: no operation is timed out for the time of a suspend of
\* SLEEP_DETECT_THRESHOLD or more, but by a sweep that measured its tick before the
\* machine went to sleep.  A shorter one is left to count as silence.
THEOREM SleepIsForgiven == Spec => SleepIsNotSilence
<1>1. Init => QuietInv
  BY DEF Init, QuietInv
<1>2. Spec => []QuietInv
  BY <1>1, QuietStep, TypeCorrect, PTL DEF Spec
<1>3. ASSUME TypeOK, QuietInv, Next, NEW o \in Op, o \in loop'.doomed, o \notin loop.doomed
      PROVE  o \in late \/ quiet[o] \in {"yes", "short"} \/ slept = "long"
  <2>1. loop'.doomed \subseteq loop.doomed \/ CheckTimeouts
    <3>1. CASE loop' = loop
      BY <3>1
    <3>2. CASE Loop
      <4>1. loop = [at |-> loop.at, doomed |-> loop.doomed, on |-> loop.on]
        BY <1>3 DEF TypeOK
      <4>2. CASE NoteMonitorTick \/ SleepASecond
        BY <4>1, <4>2 DEF NoteMonitorTick, SleepASecond
      <4>3. ASSUME NEW q \in Op, TimeoutOperation(q) \/ SpareOperation(q)
            PROVE  loop'.doomed = loop.doomed \ {q}
        BY <4>1, <4>3 DEF TimeoutOperation, SpareOperation
      <4> QED
        BY <3>2, <4>2, <4>3 DEF Loop, Sweep
    <3>3. loop' = loop \/ Loop
      BY <1>3
      DEF Next, Life, AddOperation, LeftQueue, Start, UpdateStatus, CancelOperation, Time,
          RunsLate, FallsSilent, ShowsLife, Move, StoreInHistory, Signal, EmitTerminal, Alert,
          AppendAlert, AppendToHistory, Suspend, SleepFor, CancelAll, ListActive, CancelListed,
          SkipListed, Answer, CheckHistory, Subscribe, Recheck, ObserveFlag, Lookup, WaitTimesOut, AskFor,
          Step, tasks
    <3> QED
      BY <3>1, <3>2, <3>3
  <2>2. OverBudget(o)
    BY <1>3, <2>1 DEF CheckTimeouts
  <2> QED
    BY <1>3, <2>2 DEF OverBudget, QuietInv, Lengths, TypeOK
<1>4. TypeOK /\ QuietInv /\ [Next]_vars =>
        [\A o \in Op : o \in loop'.doomed /\ o \notin loop.doomed
             => o \in late \/ quiet[o] \in {"yes", "short"} \/ slept = "long"]_vars
  BY <1>3
<1> QED
  BY <1>2, <1>4, TypeCorrect, PTL DEF Spec, SleepIsNotSilence

-----------------------------------------------------------------------------
\* The part of the state an observer of OperationOutcome sees.
outcomes == [o \in Op |-> IF status[o] \in Terminal THEN status[o] ELSE None]

\* The refinement: only a first terminal transition decides an outcome, and
\* only EmitTerminal announces it.
LEMMA InitRefines == Init => Outcome!OutcomeInit
BY StatesDiffer DEF Init, Outcome!OutcomeInit

LEMMA FinishRefines ==
    ASSUME TypeOK, NEW o \in Op, NEW s \in Terminal, Finish(o, s), UNCHANGED told
    PROVE  Outcome!OutcomeNext
<1>1. status[o] \notin Terminal /\ status' = [status EXCEPT ![o] = s]
  BY StatesDiffer DEF Finish, InMap
<1>2. outcomes' = [outcomes EXCEPT ![o] = s]
  <2>1. \A q \in Op : outcomes'[q] = IF q = o THEN s ELSE outcomes[q]
    BY <1>1 DEF outcomes, TypeOK
  <2> QED
    BY <2>1 DEF outcomes
<1>3. outcomes[o] = None
  BY <1>1 DEF outcomes
<1>4. Outcome!Decide(o)
  BY <1>2, <1>3 DEF Outcome!Decide, outcomes
<1> QED
  BY <1>4 DEF Outcome!OutcomeNext

LEMMA StutterRefines ==
    ASSUME TypeOK, UNCHANGED told,
           \A o \in Op : status'[o] # status[o] => {status[o], status'[o]} \cap Terminal = {}
    PROVE  UNCHANGED <<outcomes, told>>
BY DEF outcomes

LEMMA AnnounceRefines ==
    ASSUME TypeOK, SettlingInv, NEW o \in Op, EmitTerminal(o)
    PROVE  Outcome!OutcomeNext
<1>1. move[o] = "signalled" /\ told' = [told EXCEPT ![o] = @ + 1]
  BY DEF EmitTerminal
<1>2. status[o] \in Terminal /\ told[o] = 0
  BY <1>1 DEF SettlingInv, Settling
<1>3. status[o] \in Terminal /\ told[o] = 0 /\ told' = [told EXCEPT ![o] = 1]
  BY <1>1, <1>2 DEF TypeOK
<1>4. Outcome!Announce(o)
  BY <1>3, NoneIsNoOutcome DEF Outcome!Announce, EmitTerminal, lifecycle
<1> QED
  BY <1>4 DEF Outcome!OutcomeNext

LEMMA StepRefines ==
    IInv /\ [Next]_vars => Outcome!OutcomeNext \/ UNCHANGED <<outcomes, told>>
<1> SUFFICES ASSUME TypeOK, SettlingInv, [Next]_vars
             PROVE  Outcome!OutcomeNext \/ UNCHANGED <<outcomes, told>>
  BY DEF IInv
<1>1. ASSUME NEW o \in Op, NEW s \in Terminal,
             \/ UpdateStatus(o, s)
             \/ s = "Cancelled" /\ (CancelOperation(o) \/ CancelListed(o))
             \/ s = "TimedOut" /\ TimeoutOperation(o)
      PROVE  Outcome!OutcomeNext
  BY <1>1, FinishRefines DEF UpdateStatus, CancelOperation, CancelListed, TimeoutOperation
<1>2. {"Cancelled", "TimedOut"} \subseteq Terminal
  BY DEF Terminal
<1>3. ASSUME NEW o \in Op, Life(o)
      PROVE  Outcome!OutcomeNext \/ UNCHANGED <<outcomes, told>>
  <2>1. CASE AddOperation(o)
    BY <2>1, StutterRefines, StatesDiffer DEF AddOperation, TypeOK, Active, finishing
  <2>2. CASE LeftQueue(o)
    BY <2>2, StutterRefines DEF LeftQueue, finishing
  <2>3. CASE Start(o)
    BY <2>3, StutterRefines, StatesDiffer DEF Start, TypeOK, Active, finishing
  <2> QED
    BY <1>1, <1>2, <1>3, <2>1, <2>2, <2>3 DEF Life
<1>4. ASSUME NEW o \in Op, Move(o)
      PROVE  Outcome!OutcomeNext \/ UNCHANGED <<outcomes, told>>
  <2>1. CASE StoreInHistory(o) \/ Signal(o)
    BY <2>1, StutterRefines DEF StoreInHistory, Signal, lifecycle
  <2> QED
    BY <1>4, <2>1, AnnounceRefines DEF Move
<1>5. ASSUME NEW o \in Op, Time(o) \/ Alert(o)
      PROVE  UNCHANGED <<outcomes, told>>
  BY <1>5, StutterRefines
  DEF Time, RunsLate, FallsSilent, ShowsLife, Alert, AppendAlert, AppendToHistory,
      lifecycle, finishing
<1>6. CASE Suspend
  BY <1>6, StutterRefines DEF Suspend, SleepFor, lifecycle, finishing
<1>7. CASE CancelAll
  <2>1. ASSUME NEW o \in Op, SkipListed(o) PROVE UNCHANGED <<outcomes, told>>
    BY <2>1, StutterRefines DEF SkipListed, lifecycle, finishing
  <2>2. CASE ListActive
    BY <2>2, StutterRefines DEF ListActive, lifecycle, finishing
  <2> QED
    BY <1>1, <1>2, <1>7, <2>1, <2>2 DEF CancelAll
<1>8. CASE Loop
  <2>1. ASSUME NEW o \in Op, SpareOperation(o) PROVE UNCHANGED <<outcomes, told>>
    BY <2>1, StutterRefines DEF SpareOperation, lifecycle, finishing
  <2>2. CASE NoteMonitorTick \/ CheckTimeouts \/ SleepASecond
    BY <2>2, StutterRefines
    DEF NoteMonitorTick, CheckTimeouts, SleepASecond, lifecycle, finishing
  <2> QED
    BY <1>1, <1>2, <1>8, <2>1, <2>2 DEF Loop, Sweep
<1>9. ASSUME NEW w \in Waiter, Answer(w) \/ WaitTimesOut(w) \/ \E o \in Op : AskFor(w, o)
      PROVE  UNCHANGED <<outcomes, told>>
  <2>1. UNCHANGED lifecycle /\ UNCHANGED finishing
    BY <1>9
    DEF Answer, CheckHistory, Subscribe, Recheck, ObserveFlag, Lookup, WaitTimesOut, AskFor, Step
  <2> QED
    BY <2>1, StutterRefines DEF lifecycle, finishing
<1>10. CASE UNCHANGED vars
  BY <1>10, StutterRefines DEF vars, lifecycle, finishing
<1> QED
  BY <1>3, <1>4, <1>5, <1>6, <1>7, <1>8, <1>9, <1>10 DEF Next

\* The monitor implements OperationOutcome: one outcome that never changes and
\* one terminal event after it, for every operation.
THEOREM Refinement == Spec => ImplementsOutcome
<1>1. IInv /\ [Next]_vars => [Outcome!OutcomeNext]_<<outcomes, told>>
  BY StepRefines
<1> QED
  BY <1>1, InitRefines, Invariant, PTL DEF Spec, ImplementsOutcome, Outcome!OutcomeSpec, outcomes

-----------------------------------------------------------------------------
\* What the background monitor and cancel_all_operations have listed was in the
\* map; what they have just ended has left it.
ListedInv ==
    /\ \A o \in loop.doomed \cup batch.ids : status[o] # "new"
    /\ loop.at # "sweeping" => loop.doomed = {} /\ loop.on = None
    /\ \A x \in {loop.on, batch.on} : x # None => x \in Op /\ status[x] \in Terminal

LEMMA ListedKept ==
    ASSUME TypeOK, ListedInv, Onward, UNCHANGED <<loop, batch>>
    PROVE  ListedInv'
<1>1. loop.doomed \subseteq Op /\ batch.ids \subseteq Op
  BY DEF TypeOK
<1> QED
  BY <1>1 DEF ListedInv, Onward

\* A step of the sweep takes one operation off its list.
LEMMA SweepFields ==
    ASSUME TypeOK, NEW o \in Op, Sweep(o)
    PROVE  /\ batch' = batch /\ loop'.at = loop.at /\ loop.at = "sweeping"
           /\ o \in loop.doomed /\ loop'.doomed = loop.doomed \ {o}
           /\ \/ TimeoutOperation(o) /\ loop'.on = o
              \/ SpareOperation(o) /\ loop'.on = None
<1>1. loop \in [at : {"asleep", "ticked", "sweeping"}, doomed : SUBSET Op, on : Op \cup {None}]
  BY DEF TypeOK
<1>2. CASE TimeoutOperation(o)
  <2>1. loop' = [loop EXCEPT !.doomed = loop.doomed \ {o}, !.on = o]
    BY <1>2 DEF TimeoutOperation
  <2> QED
    BY <1>1, <1>2, <2>1 DEF TimeoutOperation
<1>3. CASE SpareOperation(o)
  <2>1. loop' = [loop EXCEPT !.doomed = loop.doomed \ {o}, !.on = None]
    BY <1>3 DEF SpareOperation
  <2> QED
    BY <1>1, <1>3, <2>1 DEF SpareOperation
<1> QED
  BY <1>2, <1>3 DEF Sweep

\* The batch goes from one operation to the next.
LEMMA BatchGoesOn ==
    ASSUME TypeOK, ListedInv, Onward, loop' = loop,
           \A o \in batch'.ids : status'[o] # "new",
           batch'.on # None => batch'.on \in Op /\ status'[batch'.on] \in Terminal
    PROVE  ListedInv'
BY DEF ListedInv, Onward, TypeOK

LEMMA LoopGoesOn ==
    ASSUME TypeOK, ListedInv, Onward, batch' = batch,
           \A o \in loop'.doomed : status'[o] # "new",
           loop'.at # "sweeping" => loop'.doomed = {} /\ loop'.on = None,
           loop'.on # None => loop'.on \in Op /\ status'[loop'.on] \in Terminal
    PROVE  ListedInv'
BY DEF ListedInv, Onward, TypeOK

LEMMA ListedStep == TypeOK /\ ListedInv /\ [Next]_vars => ListedInv'
<1> SUFFICES ASSUME TypeOK, ListedInv, [Next]_vars PROVE ListedInv'
  OBVIOUS
<1>1. Onward
  BY StepGoesOnward
<1>2. ASSUME NEW o \in Op, InMap(o) PROVE status[o] # "new"
  BY <1>2, StatesDiffer DEF InMap
<1>3. ASSUME NEW o \in Op, NEW s \in Terminal, Finish(o, s) PROVE status'[o] = s
  BY <1>3 DEF Finish, TypeOK
<1>4. {"Cancelled", "TimedOut"} \subseteq Terminal
  BY DEF Terminal
<1>5. CASE ListActive
  <2>1. loop' = loop /\ status' = status /\ batch'.on = None
        /\ \A o \in batch'.ids : o \in Op /\ InMap(o)
    BY <1>5 DEF ListActive, lifecycle
  <2> QED
    BY <1>1, <1>2, <2>1, BatchGoesOn
<1>6. ASSUME NEW o \in Op, CancelListed(o) \/ SkipListed(o) PROVE ListedInv'
  <2>1. loop' = loop /\ batch'.ids \subseteq batch.ids
    BY <1>6 DEF CancelListed, SkipListed
  <2>2. \A x \in batch'.ids : x \in Op /\ status'[x] # "new"
    BY <1>1, <2>1 DEF ListedInv, Onward, TypeOK
  <2>3. CASE CancelListed(o)
    <3>1. status'[o] \in Terminal /\ batch'.on = o
      BY <1>3, <1>4, <2>3 DEF CancelListed
    <3> QED
      BY <1>1, <2>1, <2>2, <3>1, BatchGoesOn
  <2>4. CASE SkipListed(o)
    <3>1. batch'.on = None
      BY <2>4 DEF SkipListed
    <3> QED
      BY <1>1, <2>1, <2>2, <3>1, BatchGoesOn
  <2> QED
    BY <1>6, <2>3, <2>4
<1>7. CASE NoteMonitorTick
  <2>1. /\ batch' = batch /\ loop'.at = "ticked" /\ loop'.doomed = loop.doomed
        /\ loop'.on = loop.on /\ loop.at # "sweeping"
    BY <1>7 DEF NoteMonitorTick, TypeOK
  <2> QED
    BY <1>1, <2>1, LoopGoesOn DEF ListedInv
<1>8. CASE CheckTimeouts
  <2>1. /\ batch' = batch /\ status' = status /\ loop'.at = "sweeping" /\ loop'.on = None
        /\ \A o \in loop'.doomed : o \in Op /\ InMap(o)
    BY <1>8 DEF CheckTimeouts, OverBudget, lifecycle
  <2> QED
    BY <1>1, <1>2, <2>1, LoopGoesOn
<1>9. CASE SleepASecond
  <2>1. batch' = batch /\ loop'.doomed = {} /\ loop'.on = None
    BY <1>9 DEF SleepASecond
  <2> QED
    BY <1>1, <2>1, LoopGoesOn
<1>10. ASSUME NEW o \in Op, Sweep(o) PROVE ListedInv'
  <2>1. batch' = batch /\ loop'.at = "sweeping" /\ loop'.doomed \subseteq loop.doomed
    BY <1>10, SweepFields
  <2>2. \A x \in loop'.doomed : x \in Op /\ status'[x] # "new"
    BY <1>1, <2>1 DEF ListedInv, Onward, TypeOK
  <2>3. CASE TimeoutOperation(o) /\ loop'.on = o
    <3>1. status'[o] \in Terminal
      BY <1>3, <1>4, <2>3 DEF TimeoutOperation
    <3> QED
      BY <1>1, <2>1, <2>2, <2>3, <3>1, LoopGoesOn
  <2>4. CASE loop'.on = None
    BY <1>1, <2>1, <2>2, <2>4, LoopGoesOn
  <2> QED
    BY <1>10, <2>3, <2>4, SweepFields
<1>11. ASSUME NEW o \in Op, Life(o) \/ Time(o) \/ Move(o) \/ Alert(o)
       PROVE  ListedInv'
  <2>1. UNCHANGED <<loop, batch>>
    BY <1>11
    DEF Life, AddOperation, LeftQueue, Start, UpdateStatus, CancelOperation, Time, RunsLate,
        FallsSilent, ShowsLife, Move, StoreInHistory, Signal, EmitTerminal, Alert, AppendAlert,
        AppendToHistory, tasks
  <2> QED
    BY <1>1, <2>1, ListedKept
<1>12. ASSUME NEW w \in Waiter, Answer(w) \/ WaitTimesOut(w) \/ \E o \in Op : AskFor(w, o)
       PROVE  ListedInv'
  <2>1. UNCHANGED <<loop, batch>>
    BY <1>12
    DEF Answer, CheckHistory, Subscribe, Recheck, ObserveFlag, Lookup, WaitTimesOut, AskFor, Step
  <2> QED
    BY <1>1, <2>1, ListedKept
<1>13. CASE Suspend \/ UNCHANGED vars
  <2>1. UNCHANGED <<loop, batch>>
    BY <1>13 DEF Suspend, SleepFor, vars, tasks
  <2> QED
    BY <1>1, <2>1, ListedKept
<1> QED
  BY <1>5, <1>6, <1>7, <1>8, <1>9, <1>10, <1>11, <1>12, <1>13 DEF Next, CancelAll, Loop

LEMMA ListedInvariant == Spec => []ListedInv
<1>1. Init => ListedInv
  BY DEF Init, ListedInv
<1>2. IInv /\ ListedInv /\ [Next]_vars => ListedInv'
  BY ListedStep DEF IInv
<1> QED
  BY <1>1, <1>2, Invariant, PTL DEF Spec

\* A sweep of the budgets, and a cancellation of everything, go through all they
\* have listed: nothing falls off the list that has not ended, whoever ended it.
ListedEnd ==
    [][\A o \in Op : \/ o \in loop.doomed /\ o \notin loop'.doomed
                     \/ o \in batch.ids /\ o \notin batch'.ids
          => status'[o] \in Terminal]_vars

\* cancel_all_operations and the sweep of check_timeouts, for any number of
\* operations and whatever else ends them meanwhile.
THEOREM SweepsAreThorough == Spec => ListedEnd
<1>1. ASSUME IInv, ListedInv, [Next]_vars, NEW o \in Op,
             \/ o \in loop.doomed /\ o \notin loop'.doomed
             \/ o \in batch.ids /\ o \notin batch'.ids
      PROVE  status'[o] \in Terminal
  <2>0. TypeOK /\ status[o] # "new"
    BY <1>1 DEF IInv, ListedInv
  <2>1. InMap(o) \/ status[o] \in Terminal
    BY <2>0 DEF TypeOK, InMap
  <2>2. status[o] \in Terminal => status'[o] \in Terminal
    BY <1>1, <2>0, StepGoesOnward DEF Onward
  <2>3. {"Cancelled", "TimedOut"} \subseteq Terminal
    BY DEF Terminal
  <2>4. ASSUME NEW x \in Op, Sweep(x) PROVE status'[o] \in Terminal
    <3>1. x = o /\ batch' = batch
      BY <1>1, <2>0, <2>4, SweepFields
    <3> QED
      BY <2>0, <2>1, <2>2, <2>3, <2>4, <3>1
      DEF Sweep, TimeoutOperation, SpareOperation, Finish, TypeOK
  <2>5. ASSUME NEW x \in Op, CancelListed(x) \/ SkipListed(x) PROVE status'[o] \in Terminal
    <3>1. x = o /\ loop' = loop
      BY <1>1, <2>0, <2>5 DEF CancelListed, SkipListed
    <3> QED
      BY <2>0, <2>1, <2>2, <2>3, <2>5, <3>1 DEF CancelListed, SkipListed, Finish, TypeOK
  <2>6. CASE ListActive \/ NoteMonitorTick \/ CheckTimeouts \/ SleepASecond
    BY <1>1, <2>0, <2>6
    DEF ListActive, NoteMonitorTick, CheckTimeouts, SleepASecond, ListedInv, TypeOK
  <2>7. ASSUME UNCHANGED <<loop, batch>> PROVE FALSE
    BY <1>1, <2>7
  <2>8. ASSUME NEW x \in Op, Life(x) \/ Time(x) \/ Move(x) \/ Alert(x) PROVE FALSE
    BY <2>7, <2>8
    DEF Life, AddOperation, LeftQueue, Start, UpdateStatus, CancelOperation, Time, RunsLate,
        FallsSilent, ShowsLife, Move, StoreInHistory, Signal, EmitTerminal, Alert, AppendAlert,
        AppendToHistory, tasks
  <2>9. ASSUME NEW w \in Waiter, Answer(w) \/ WaitTimesOut(w) \/ \E x \in Op : AskFor(w, x)
        PROVE  FALSE
    BY <2>7, <2>9
    DEF Answer, CheckHistory, Subscribe, Recheck, ObserveFlag, Lookup, WaitTimesOut, AskFor, Step
  <2>10. ASSUME Suspend \/ UNCHANGED vars PROVE FALSE
    BY <2>7, <2>10 DEF Suspend, SleepFor, vars, tasks
  <2> QED
    BY <1>1, <2>4, <2>5, <2>6, <2>8, <2>9, <2>10 DEF Next, CancelAll, Loop
<1>2. IInv /\ ListedInv /\ [Next]_vars =>
        [\A o \in Op : \/ o \in loop.doomed /\ o \notin loop'.doomed
                       \/ o \in batch.ids /\ o \notin batch'.ids
            => status'[o] \in Terminal]_vars
  BY <1>1
<1> QED
  BY <1>2, Invariant, ListedInvariant, PTL DEF Spec, ListedEnd

\* Whose signal or whose move somebody awaits.
Moving(o) == move[o] \in {"taken", "stored"}

\* "We cannot miss the completion signal": who awaits the flag awaits it from an
\* operation that runs or from a task about to raise it, or it is up.  And a
\* sweep or a cancellation awaits a move that is done or goes on.
NobodyWaitsInVain ==
    /\ \A w \in Waiter : wait[w].at = "waiting" =>
          LET o == wait[w].op IN InMap(o) \/ Moving(o) \/ o \in watch
    /\ \A x \in {loop.on, batch.on} :
          Moved(x) \/ Moving(x) \/ move[x] = "signalled"

\* What EveryWaitAnswered and EveryOperationSettles need of the steps; that each
\* is taken is the fairness.
THEOREM SignalsAreComing == Spec => []NobodyWaitsInVain
<1>1. IInv /\ SeekingInv /\ ListedInv => NobodyWaitsInVain
  <2> SUFFICES ASSUME IInv, SeekingInv, ListedInv PROVE NobodyWaitsInVain
    OBVIOUS
  <2>0. TypeOK /\ SettlingInv
    BY DEF IInv
  <2>1. ASSUME NEW o \in Op, status[o] \in Terminal
        PROVE  o \in watch \/ Moving(o)
    BY <2>0, <2>1 DEF SettlingInv, Settling, TypeOK, Moves, Moving
  <2>2. ASSUME NEW w \in Waiter, wait[w].at = "waiting"
        PROVE  LET o == wait[w].op IN InMap(o) \/ Moving(o) \/ o \in watch
    <3>1. wait[w].op \in Op /\ status[wait[w].op] # "new"
      BY <2>2 DEF SeekingInv, Asking
    <3> QED
      BY <2>0, <2>1, <3>1 DEF TypeOK, InMap
  <2>3. ASSUME NEW x \in {loop.on, batch.on}
        PROVE  Moved(x) \/ Moving(x) \/ move[x] = "signalled"
    <3>1. x # None => x \in Op /\ status[x] \in Terminal
      BY DEF ListedInv
    <3> QED
      BY <2>0, <3>1 DEF SettlingInv, Settling, TypeOK, Moves, Moving, Moved
  <2> QED
    BY <2>2, <2>3 DEF NobodyWaitsInVain
<1> QED
  BY <1>1, Invariant, SeekingInvariant, ListedInvariant, PTL
=============================================================================
