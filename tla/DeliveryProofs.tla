--------------------------- MODULE DeliveryProofs ---------------------------
(***************************************************************************)
(* Theorems about Delivery, for any number of operations.  Those about the *)
(* ledger's promises hold of a session that makes one call at a time; what *)
(* a session with several calls in flight keeps is LedgerKeepsRunning.     *)
(***************************************************************************)
EXTENDS Delivery, OperationMonitorProofs, FiniteSetTheorems

\* One call at a time.
OneCall == \A c, d \in Call : c = d

-----------------------------------------------------------------------------
(***************************************************************************)
(* The monitor below.                                                      *)
(***************************************************************************)

\* Whatever a request does, the monitor takes one of its own steps or none.
LEMMA MonitorSteps == [DeliveryNext]_<<vars, delivery>> => [Next]_vars
<1> SUFFICES ASSUME [DeliveryNext]_<<vars, delivery>> PROVE [Next]_vars
  OBVIOUS
<1>1. CASE MonitorStep
  BY <1>1 DEF MonitorStep
<1>2. ASSUME NEW c \in Call, Serve(c) PROVE [Next]_vars
  BY <1>2
  DEF Serve, WindowAnswers, WindowElapses, StartedWithoutResult, AwaitAnswers, AwaitTimesOut,
      WaitEnds, Snapshot, LookInHistory, Take, LookInActive, AnswerCall
<1>3. ASSUME NEW c \in Call, Ask(c) PROVE [Next]_vars
  <2>1. ASSUME NEW o \in Op, RunCommand(c, o) PROVE [Next]_vars
    BY <2>1 DEF RunCommand, Next, Life
  <2> QED
    BY <1>3, <2>1 DEF Ask, Await, AwaitCompleted, OtherCall
<1>4. CASE UNCHANGED <<vars, delivery>>
  BY <1>4
<1> QED
  BY <1>1, <1>2, <1>3, <1>4 DEF DeliveryNext

\* So the monitor's invariant holds here too.
LEMMA MonitorInvariant == DeliverySpec => []IInv
<1>1. DeliveryInit => IInv
  BY InitIInv DEF DeliveryInit
<1>2. IInv /\ [DeliveryNext]_<<vars, delivery>> => IInv'
  BY MonitorSteps, TypeStep, SettlingStep DEF IInv
<1> QED
  BY <1>1, <1>2, PTL DEF DeliverySpec

\* What is in the history has ended, and stays so.
LEMMA HistoryHasEnded ==
    ASSUME IInv
    PROVE  \A o \in history : o \in Op /\ status[o] \in Terminal /\ ~InMap(o)
<1>1. \A o \in history : o \in Op /\ status[o] \in Terminal
  BY DEF IInv, TypeOK, SettlingInv, Settling
<1> QED
  BY <1>1, StatesDiffer DEF InMap

-----------------------------------------------------------------------------
(***************************************************************************)
(* Types.                                                                  *)
(***************************************************************************)
LEMMA InitDeliveryType == DeliveryInit => DeliveryTypeOK
BY DEF DeliveryInit, DeliveryTypeOK, Idle, Request, Stages

\* The record of a request, and what it looks at when it looks at something.
Sound(r) == r \in Request /\ (r.at \in {"take", "active"} => r.on \in Op)

\* One request turns to another record.
LEMMA TurnType ==
    ASSUME DeliveryTypeOK, NEW c \in Call, NEW r, Sound(r), call' = [call EXCEPT ![c] = r],
           ledger' \subseteq Op, UNCHANGED <<shown, prepended>>
    PROVE  DeliveryTypeOK'
BY DEF DeliveryTypeOK, Sound

\* What the steps of a request make of its record.
LEMMA RequestFields ==
    ASSUME NEW r \in Request, NEW S \in SUBSET Op
    PROVE  /\ \A at \in Stages \ {"take", "active"} : Sound([r EXCEPT !.at = at])
           /\ Sound([r EXCEPT !.at = "settling", !.carry = S])
           /\ Sound([r EXCEPT !.at = "history", !.todo = S])
           /\ Sound([r EXCEPT !.at = "history", !.carry = @ \cup S])
BY DEF Sound, Request, Stages

LEMMA WaitFields ==
    ASSUME NEW r \in Request, r.at = "awaiting", NEW o \in Op, NEW S \in SUBSET Op
    PROVE  Sound([r EXCEPT !.left = @ \ {o}, !.carry = @ \cup S])
BY DEF Sound, Request

LEMMA LookingFields ==
    ASSUME NEW r \in Request, NEW o \in Op, NEW at \in {"take", "active"}
    PROVE  Sound([r EXCEPT !.at = at, !.todo = @ \ {o}, !.on = o])
BY DEF Sound, Request, Stages

\* The record of a request that comes in.
New(at, S, R) == [Idle EXCEPT !.at = at, !.ops = S, !.left = S, !.carry = R,
                              !.owed = {o \in ledger : told[o] > 0}]

LEMMA NewFields ==
    ASSUME DeliveryTypeOK, NEW at \in Stages \ {"take", "active"},
           NEW S \in SUBSET Op, NEW R \in SUBSET Op
    PROVE  Sound(New(at, S, R))
BY DEF Sound, New, Idle, Request, DeliveryTypeOK

LEMMA DeliveryTypeStep ==
    IInv /\ DeliveryTypeOK /\ [DeliveryNext]_<<vars, delivery>> => DeliveryTypeOK'
<1> SUFFICES ASSUME IInv, DeliveryTypeOK, [DeliveryNext]_<<vars, delivery>>
             PROVE  DeliveryTypeOK'
  OBVIOUS
<1>0. history \subseteq Op /\ ledger \subseteq Op
  BY DEF IInv, TypeOK, DeliveryTypeOK
<1>1. CASE MonitorStep
  BY <1>1 DEF MonitorStep, delivery, DeliveryTypeOK
<1>2. ASSUME NEW c \in Call, Serve(c) PROVE DeliveryTypeOK'
  <2> DEFINE r == call[c]
  <2>0. r \in Request /\ r.ops \subseteq Op /\ r.carry \subseteq Op
    BY DEF DeliveryTypeOK, Request
  <2> HIDE DEF r
  <2>1. ASSUME NEW at \in Stages \ {"take", "active"}, Goes(c, at), ledger' \subseteq Op,
               UNCHANGED <<shown, prepended>>
        PROVE  DeliveryTypeOK'
    <3>1. call' = [call EXCEPT ![c] = [r EXCEPT !.at = at]]
      BY <2>1 DEF Goes, r
    <3> QED
      BY <2>0, <2>1, <3>1, RequestFields, TurnType
  <2>2. CASE WindowAnswers(c)
    <3>1. call' = [call EXCEPT ![c] = [r EXCEPT !.at = "settling", !.carry = r.ops]]
      BY <2>2 DEF WindowAnswers, r
    <3>2. Sound([r EXCEPT !.at = "settling", !.carry = r.ops])
      BY <2>0, RequestFields
    <3> QED
      BY <1>0, <2>2, <3>1, <3>2, TurnType DEF WindowAnswers
  <2>3. CASE WindowElapses(c)
    BY <1>0, <2>1, <2>3 DEF WindowElapses, Stages
  <2>4. CASE StartedWithoutResult(c)
    BY <1>0, <2>0, <2>1, <2>4 DEF StartedWithoutResult, Stages, r
  <2>5. CASE AwaitAnswers(c)
    BY <1>0, <2>1, <2>5 DEF AwaitAnswers, Stages, Settled
  <2>6. CASE AwaitTimesOut(c)
    <3>1. call' = [call EXCEPT ![c] = [r EXCEPT !.at = "settling", !.carry = {}]]
      BY <2>6 DEF AwaitTimesOut, r
    <3>2. Sound([r EXCEPT !.at = "settling", !.carry = {}])
      BY <2>0, RequestFields
    <3> QED
      BY <1>0, <2>6, <3>1, <3>2, TurnType DEF AwaitTimesOut
  <2>7. ASSUME NEW o \in Op, WaitEnds(c, o) PROVE DeliveryTypeOK'
    <3>1. call' = [call EXCEPT ![c] = [r EXCEPT !.left = @ \ {o},
                                                !.carry = @ \cup ({o} \cap history)]]
      BY <2>7 DEF WaitEnds, r
    <3>2. Sound([r EXCEPT !.left = @ \ {o}, !.carry = @ \cup ({o} \cap history)])
      BY <1>0, <2>0, <2>7, WaitFields DEF WaitEnds, r
    <3> QED
      BY <1>0, <2>7, <3>1, <3>2, TurnType DEF WaitEnds
  <2>8. CASE Snapshot(c)
    <3>1. call' = [call EXCEPT ![c] = [r EXCEPT !.at = "history", !.todo = ledger]]
      BY <2>8 DEF Snapshot, r
    <3>2. Sound([r EXCEPT !.at = "history", !.todo = ledger])
      BY <1>0, <2>0, RequestFields
    <3> QED
      BY <1>0, <2>8, <3>1, <3>2, TurnType DEF Snapshot
  <2>9. ASSUME NEW o \in Op, LookInHistory(c, o) PROVE DeliveryTypeOK'
    <3>1. PICK at \in {"take", "active"} :
             call' = [call EXCEPT ![c] = [r EXCEPT !.at = at, !.todo = @ \ {o}, !.on = o]]
      BY <2>9 DEF LookInHistory, r
    <3>2. Sound([r EXCEPT !.at = at, !.todo = @ \ {o}, !.on = o])
      BY <2>0, LookingFields
    <3> QED
      BY <1>0, <2>9, <3>1, <3>2, TurnType DEF LookInHistory
  <2>10. CASE Take(c)
    <3>1. r.on \in Op
      BY <2>10 DEF Take, DeliveryTypeOK, r
    <3>2. call' = [call EXCEPT ![c] = [r EXCEPT !.at = "history", !.carry = @ \cup {r.on}]]
      BY <2>10 DEF Take, r
    <3>3. Sound([r EXCEPT !.at = "history", !.carry = @ \cup {r.on}])
      BY <2>0, <3>1, RequestFields
    <3>4. prepended' \in [Op -> Nat]
      BY <2>10 DEF Take, DeliveryTypeOK
    <3>5. ledger' \subseteq Op /\ shown' \subseteq Op
      BY <1>0, <2>10 DEF Take, Settled, DeliveryTypeOK
    <3> QED
      BY <3>2, <3>3, <3>4, <3>5 DEF DeliveryTypeOK, Sound
  <2>11. CASE LookInActive(c)
    BY <1>0, <2>1, <2>11 DEF LookInActive, Stages, Settled
  <2>12. CASE AnswerCall(c)
    <3>1. Sound(Idle)
      BY DEF Sound, Idle, Request, Stages
    <3>2. ledger' \subseteq Op /\ shown' \subseteq Op /\ prepended' \in [Op -> Nat]
      BY <2>0, <2>12 DEF AnswerCall, DeliveryTypeOK, r
    <3> QED
      BY <2>12, <3>1, <3>2 DEF AnswerCall, DeliveryTypeOK, Sound
  <2> QED
    BY <1>2, <2>2, <2>3, <2>4, <2>5, <2>6, <2>7, <2>8, <2>9, <2>10, <2>11, <2>12 DEF Serve
<1>3. ASSUME NEW c \in Call, Ask(c) PROVE DeliveryTypeOK'
  <2>1. ASSUME NEW at \in Stages \ {"take", "active"}, NEW S \in SUBSET Op, NEW R \in SUBSET Op,
               Begin(c, at, S, R), ledger' \subseteq Op, UNCHANGED <<shown, prepended>>
        PROVE  DeliveryTypeOK'
    <3>1. call' = [call EXCEPT ![c] = New(at, S, R)]
      BY <2>1 DEF Begin, New
    <3> QED
      BY <2>1, <3>1, NewFields, TurnType
  <2>2. ASSUME NEW o \in Op, RunCommand(c, o) PROVE DeliveryTypeOK'
    <3>1. Begin(c, "window", {o}, {}) /\ UNCHANGED <<ledger, shown, prepended>>
      BY <2>2 DEF RunCommand
    <3> QED
      BY <1>0, <2>1, <3>1 DEF Stages
  <2>3. ASSUME NEW S \in SUBSET Op, Await(c, S) PROVE DeliveryTypeOK'
    <3>1. Begin(c, "awaiting", S, {}) /\ UNCHANGED <<ledger, shown, prepended>>
      BY <2>3 DEF Await
    <3> QED
      BY <1>0, <2>1, <3>1 DEF Stages
  <2>4. ASSUME NEW S \in SUBSET Op, AwaitCompleted(c, S) PROVE DeliveryTypeOK'
    BY <1>0, <2>1, <2>4 DEF AwaitCompleted, Stages, Settled
  <2>5. CASE OtherCall(c)
    BY <1>0, <2>1, <2>5 DEF OtherCall, Stages
  <2> QED
    BY <1>3, <2>2, <2>3, <2>4, <2>5 DEF Ask
<1>4. CASE UNCHANGED <<vars, delivery>>
  BY <1>4 DEF delivery, DeliveryTypeOK
<1> QED
  BY <1>1, <1>2, <1>3, <1>4 DEF DeliveryNext

\* The ledger, the requests and what they have shown keep their types.
THEOREM DeliveryTypeCorrect == DeliverySpec => []DeliveryTypeOK
<1> QED
  BY InitDeliveryType, DeliveryTypeStep, MonitorInvariant, PTL DEF DeliverySpec

-----------------------------------------------------------------------------
(***************************************************************************)
(* What leaves the ledger has ended.                                       *)
(***************************************************************************)
HasEnded(o) == status[o] \in Terminal

\* What an answer carries, and what take_finished has found, has ended.
EndedFor(r) ==
    /\ \A o \in r.carry : HasEnded(o)
    /\ r.at = "take" => HasEnded(r.on)

EndedInv == \A c \in Call : EndedFor(call[c])

LEMMA EndedKept ==
    ASSUME DeliveryTypeOK, EndedInv, Onward, UNCHANGED call
    PROVE  EndedInv'
BY DEF DeliveryTypeOK, Request, EndedInv, EndedFor, HasEnded, Onward

LEMMA EndedTurn ==
    ASSUME DeliveryTypeOK, EndedInv, Onward, NEW c \in Call, NEW r,
           r.carry \subseteq Op, r.at = "take" => r.on \in Op,
           EndedFor(r), call' = [call EXCEPT ![c] = r]
    PROVE  EndedInv'
<1>1. ASSUME NEW d \in Call, d # c PROVE EndedFor(call[d])'
  BY <1>1 DEF DeliveryTypeOK, Request, EndedInv, EndedFor, HasEnded, Onward
<1>2. EndedFor(call[c])'
  BY DEF DeliveryTypeOK, EndedFor, HasEnded, Onward
<1> QED
  BY <1>1, <1>2 DEF EndedInv

LEMMA EndedStep ==
    IInv /\ DeliveryTypeOK /\ EndedInv /\ [DeliveryNext]_<<vars, delivery>> => EndedInv'
<1> SUFFICES ASSUME IInv, DeliveryTypeOK, EndedInv, [DeliveryNext]_<<vars, delivery>>
             PROVE  EndedInv'
  OBVIOUS
<1>0. Onward
  BY MonitorSteps, StepGoesOnward DEF IInv
<1>1. \A o \in history : o \in Op /\ HasEnded(o)
  BY HistoryHasEnded DEF HasEnded
<1>2. CASE UNCHANGED call
  BY <1>0, <1>2, EndedKept
<1>3. ASSUME NEW c \in Call, Serve(c) PROVE EndedInv'
  <2> DEFINE r == call[c]
  <2>0. r \in Request /\ EndedFor(r) /\ (r.at \in {"take", "active"} => r.on \in Op)
    BY DEF DeliveryTypeOK, EndedInv
  <2>00. call \in [Call -> Request]
    BY DEF DeliveryTypeOK
  <2> HIDE DEF r
  <2>1. ASSUME NEW at \in Stages \ {"take"}, Goes(c, at) PROVE EndedInv'
    <3>1. call' = [call EXCEPT ![c] = [r EXCEPT !.at = at]]
      BY <2>1 DEF Goes, r
    <3>2. EndedFor([r EXCEPT !.at = at])
      BY <2>0 DEF EndedFor, Request
    <3>3. [r EXCEPT !.at = at].carry \subseteq Op /\ [r EXCEPT !.at = at].at # "take"
      BY <2>0, <2>1 DEF Request
    <3> QED
      BY <1>0, <3>1, <3>2, <3>3, EndedTurn
  <2>2. CASE WindowAnswers(c)
    <3> DEFINE q == [r EXCEPT !.at = "settling", !.carry = r.ops]
    <3>1. call' = [call EXCEPT ![c] = q] /\ r.ops \subseteq history
      BY <2>2 DEF WindowAnswers, r
    <3>2. q.at = "settling" /\ q.carry = r.ops
      BY <2>0 DEF Request
    <3> HIDE DEF q
    <3> QED
      BY <1>0, <1>1, <3>1, <3>2, EndedTurn DEF EndedFor
  <2>3. CASE WindowElapses(c) \/ StartedWithoutResult(c) \/ AwaitAnswers(c) \/ LookInActive(c)
    BY <2>1, <2>3 DEF WindowElapses, StartedWithoutResult, AwaitAnswers, LookInActive, Stages
  <2>4. CASE AwaitTimesOut(c)
    <3> DEFINE q == [r EXCEPT !.at = "settling", !.carry = {}]
    <3>1. call' = [call EXCEPT ![c] = q]
      BY <2>4 DEF AwaitTimesOut, r
    <3>2. q.at = "settling" /\ q.carry = {}
      BY <2>0 DEF Request
    <3> HIDE DEF q
    <3> QED
      BY <1>0, <3>1, <3>2, EndedTurn DEF EndedFor
  <2>5. ASSUME NEW o \in Op, WaitEnds(c, o) PROVE EndedInv'
    <3> DEFINE q == [r EXCEPT !.left = @ \ {o}, !.carry = @ \cup ({o} \cap history)]
    <3>1. call' = [call EXCEPT ![c] = q] /\ r.at = "awaiting"
      BY <2>5 DEF WaitEnds, r
    <3>2. q.at = "awaiting" /\ q.carry = r.carry \cup ({o} \cap history) /\ r.carry \subseteq Op
      BY <2>0, <3>1 DEF Request
    <3> HIDE DEF q
    <3> QED
      BY <1>0, <1>1, <2>0, <3>1, <3>2, EndedTurn DEF EndedFor
  <2>6. CASE Snapshot(c)
    <3> DEFINE q == [r EXCEPT !.at = "history", !.todo = ledger]
    <3>1. call' = [call EXCEPT ![c] = q]
      BY <2>6 DEF Snapshot, r
    <3>2. q.at = "history" /\ q.carry = r.carry /\ r.carry \subseteq Op
      BY <2>0 DEF Request
    <3> HIDE DEF q
    <3> QED
      BY <1>0, <2>0, <3>1, <3>2, EndedTurn DEF EndedFor
  <2>7. ASSUME NEW o \in Op, LookInHistory(c, o) PROVE EndedInv'
    <3>1. PICK at \in {"take", "active"} :
             /\ at = IF o \in history THEN "take" ELSE "active"
             /\ call' = [call EXCEPT ![c] = [r EXCEPT !.at = at, !.todo = @ \ {o}, !.on = o]]
      BY <2>7 DEF LookInHistory, r
    <3> DEFINE q == [r EXCEPT !.at = at, !.todo = @ \ {o}, !.on = o]
    <3>2. q.at = at /\ q.on = o /\ q.carry = r.carry /\ r.carry \subseteq Op
      BY <2>0 DEF Request
    <3>3. call' = [call EXCEPT ![c] = q]
      BY <3>1
    <3> HIDE DEF q
    <3> QED
      BY <1>0, <1>1, <2>0, <3>1, <3>2, <3>3, EndedTurn DEF EndedFor
  <2>8. CASE Take(c)
    <3> DEFINE q == [r EXCEPT !.at = "history", !.carry = @ \cup {r.on}]
    <3>1. call' = [call EXCEPT ![c] = q] /\ r.at = "take"
      BY <2>8 DEF Take, r
    <3>2. q.at = "history" /\ q.carry = r.carry \cup {r.on} /\ r.carry \subseteq Op
      BY <2>0 DEF Request
    <3> HIDE DEF q
    <3> QED
      BY <1>0, <2>0, <3>1, <3>2, EndedTurn DEF EndedFor
  <2>9. CASE AnswerCall(c)
    <3>1. Idle.carry = {} /\ Idle.at = "idle"
      BY DEF Idle
    <3>2. call' = [call EXCEPT ![c] = Idle]
      BY <2>9 DEF AnswerCall
    <3> QED
      BY <1>0, <3>1, <3>2, EndedTurn DEF EndedFor
  <2> QED
    BY <1>3, <2>2, <2>3, <2>4, <2>5, <2>6, <2>7, <2>8, <2>9 DEF Serve
<1>4. ASSUME NEW c \in Call, Ask(c) PROVE EndedInv'
  <2>1. ASSUME NEW at \in Stages \ {"take"}, NEW S \in SUBSET Op, NEW R \in SUBSET Op,
               R \subseteq history, Begin(c, at, S, R)
        PROVE  EndedInv'
    <3>1. call' = [call EXCEPT ![c] = New(at, S, R)]
      BY <2>1 DEF Begin, New
    <3>2. New(at, S, R).at = at /\ New(at, S, R).carry = R
      BY DEF New, Idle
    <3> QED
      BY <1>0, <1>1, <2>1, <3>1, <3>2, EndedTurn DEF EndedFor
  <2>2. ASSUME NEW o \in Op, RunCommand(c, o) PROVE EndedInv'
    <3>1. Begin(c, "window", {o}, {})
      BY <2>2 DEF RunCommand
    <3> QED
      BY <2>1, <3>1 DEF Stages
  <2>3. ASSUME NEW S \in SUBSET Op, Await(c, S) PROVE EndedInv'
    <3>1. Begin(c, "awaiting", S, {})
      BY <2>3 DEF Await
    <3> QED
      BY <2>1, <3>1 DEF Stages
  <2>4. ASSUME NEW S \in SUBSET Op, AwaitCompleted(c, S) PROVE EndedInv'
    BY <2>1, <2>4 DEF AwaitCompleted, Stages
  <2>5. CASE OtherCall(c)
    BY <2>1, <2>5 DEF OtherCall, Stages
  <2> QED
    BY <1>4, <2>2, <2>3, <2>4, <2>5 DEF Ask
<1> QED
  BY <1>2, <1>3, <1>4 DEF DeliveryNext, MonitorStep, delivery

LEMMA EndedInvariant == DeliverySpec => []EndedInv
<1>1. DeliveryInit => EndedInv
  BY DEF DeliveryInit, EndedInv, EndedFor, Idle
<1> QED
  BY <1>1, EndedStep, MonitorInvariant, DeliveryTypeCorrect, PTL DEF DeliverySpec

\* SPEC R2.7.5, "nothing a model started is ever silently lost": whatever
\* finishes while take_finished looks into two maps, one after the other, and
\* however many calls settle the ledger at once, no running operation leaves it.
THEOREM RunningStaysOwed == DeliverySpec => LedgerKeepsRunning
<1> DEFINE A == \A o \in ledger : InMap(o) => o \in ledger'
<1>1. IInv /\ DeliveryTypeOK /\ EndedInv /\ [DeliveryNext]_<<vars, delivery>>
         => [A]_<<vars, delivery>>
  <2> SUFFICES ASSUME IInv, DeliveryTypeOK, EndedInv, DeliveryNext PROVE A
    OBVIOUS
  <2>1. \A o : HasEnded(o) => ~InMap(o)
    BY StatesDiffer DEF HasEnded, InMap
  <2>2. CASE UNCHANGED ledger
    BY <2>2
  <2>3. ASSUME NEW S, \A o \in S : ~InMap(o), ledger' = Settled(S) PROVE A
    BY <2>3 DEF Settled
  <2>4. ASSUME NEW c \in Call, StartedWithoutResult(c) PROVE A
    BY <2>4 DEF StartedWithoutResult
  <2>5. ASSUME NEW c \in Call, AwaitAnswers(c) PROVE A
    BY <2>1, <2>3, <2>5 DEF AwaitAnswers, EndedInv, EndedFor
  <2>6. ASSUME NEW c \in Call, Take(c) PROVE A
    BY <2>1, <2>3, <2>6 DEF Take, EndedInv, EndedFor
  <2>7. ASSUME NEW c \in Call, LookInActive(c) PROVE A
    BY <2>3, <2>7 DEF LookInActive
  <2>8. ASSUME NEW c \in Call, NEW S \in SUBSET Op, AwaitCompleted(c, S) PROVE A
    BY <2>3, <2>8, HistoryHasEnded DEF AwaitCompleted
  <2>9. \/ UNCHANGED ledger
        \/ \E c \in Call : \/ StartedWithoutResult(c) \/ AwaitAnswers(c) \/ Take(c)
                           \/ LookInActive(c) \/ \E S \in SUBSET Op : AwaitCompleted(c, S)
    BY DEF DeliveryNext, MonitorStep, delivery, Serve, Ask, WindowAnswers, WindowElapses,
           AwaitTimesOut, WaitEnds, Snapshot, LookInHistory, AnswerCall, RunCommand, Await,
           OtherCall
  <2> QED
    BY <2>2, <2>4, <2>5, <2>6, <2>7, <2>8, <2>9
<1> QED
  BY <1>1, MonitorInvariant, DeliveryTypeCorrect, EndedInvariant, PTL
  DEF DeliverySpec, LedgerKeepsRunning

-----------------------------------------------------------------------------
(***************************************************************************)
(* A session that makes one call at a time.                                *)
(***************************************************************************)

\* A result that was handed out is owed no more, and its id is never started again.
HandedOut(o) ==
    prepended[o] = 0 \/ (prepended[o] = 1 /\ o \notin ledger /\ status[o] # "new")

\* What take_finished still has to look at is owed, each operation once; what a
\* call runs has not been handed out (`owed` is the ledger, `times` prepended).
OnceFor(r, owed, times) ==
    /\ r.todo \subseteq owed
    /\ r.at \notin {"history", "take", "active"} => r.todo = {}
    /\ r.at \in {"window", "elapsed"} => \A o \in r.ops : times[o] = 0
    /\ r.at = "take" => r.on \in owed
    /\ r.at \in {"take", "active"} => r.on \notin r.todo

OnceInv == /\ \A o \in Op : HandedOut(o)
           /\ \A c \in Call : OnceFor(call[c], ledger, prepended)

\* With one call, a step concerns the only one.
LEMMA OnceTurn ==
    ASSUME OneCall, DeliveryTypeOK, NEW c \in Call, NEW r, call' = [call EXCEPT ![c] = r],
           \A o \in Op : HandedOut(o)', OnceFor(r, ledger', prepended')
    PROVE  OnceInv'
BY DEF OneCall, DeliveryTypeOK, OnceInv, OnceFor, HandedOut

\* A step that hands nothing out and puts nothing new into the ledger.
LEMMA HandedOutKept ==
    ASSUME Onward, OnceInv, UNCHANGED prepended, ledger' \subseteq ledger
    PROVE  \A o \in Op : HandedOut(o)'
BY DEF Onward, OnceInv, HandedOut

LEMMA OnceStep ==
    OneCall /\ IInv /\ DeliveryTypeOK /\ EndedInv /\ OnceInv /\ [DeliveryNext]_<<vars, delivery>>
        => OnceInv'
<1> SUFFICES ASSUME OneCall, IInv, DeliveryTypeOK, EndedInv, OnceInv,
                    [DeliveryNext]_<<vars, delivery>>
             PROVE  OnceInv'
  OBVIOUS
<1>0. Onward
  BY MonitorSteps, StepGoesOnward DEF IInv
<1>1. CASE UNCHANGED delivery
  BY <1>0, <1>1, HandedOutKept DEF delivery, OnceInv, OnceFor
<1>2. ASSUME NEW c \in Call, Serve(c) PROVE OnceInv'
  <2> DEFINE r == call[c]
  <2>0. /\ r \in Request /\ EndedFor(r) /\ OnceFor(r, ledger, prepended)
        /\ r.at = "take" => r.on \in Op
    BY DEF DeliveryTypeOK, EndedInv, OnceInv
  <2> HIDE DEF r
  <2>1. CASE WindowAnswers(c)
    <3> DEFINE q == [r EXCEPT !.at = "settling", !.carry = r.ops]
    <3>1. call' = [call EXCEPT ![c] = q] /\ r.at = "window" /\ UNCHANGED <<ledger, prepended>>
      BY <2>1 DEF WindowAnswers, r
    <3>2. q.at = "settling" /\ q.todo = r.todo
      BY <2>0 DEF Request
    <3> HIDE DEF q
    <3>3. OnceFor(q, ledger', prepended')
      BY <2>0, <3>1, <3>2 DEF OnceFor
    <3> QED
      BY <1>0, <3>1, <3>3, HandedOutKept, OnceTurn
  <2>2. CASE WindowElapses(c)
    <3> DEFINE q == [r EXCEPT !.at = "elapsed"]
    <3>1. call' = [call EXCEPT ![c] = q] /\ r.at = "window" /\ UNCHANGED <<ledger, prepended>>
      BY <2>2 DEF WindowElapses, Goes, r
    <3>2. q.at = "elapsed" /\ q.todo = r.todo /\ q.ops = r.ops
      BY <2>0 DEF Request
    <3> HIDE DEF q
    <3>3. OnceFor(q, ledger', prepended')
      BY <2>0, <3>1, <3>2 DEF OnceFor
    <3> QED
      BY <1>0, <3>1, <3>3, HandedOutKept, OnceTurn
  <2>3. CASE StartedWithoutResult(c)
    <3> DEFINE q == [r EXCEPT !.at = "settling"]
    <3>1. /\ call' = [call EXCEPT ![c] = q] /\ r.at = "elapsed"
          /\ ledger' = ledger \cup r.ops /\ UNCHANGED prepended
      BY <2>3 DEF StartedWithoutResult, Goes, r
    <3>2. q.at = "settling" /\ q.todo = r.todo
      BY <2>0 DEF Request
    <3> HIDE DEF q
    <3>3. OnceFor(q, ledger', prepended')
      BY <2>0, <3>1, <3>2 DEF OnceFor
    <3>4. \A o \in Op : HandedOut(o)'
      BY <1>0, <2>0, <3>1 DEF OnceInv, OnceFor, HandedOut, Onward
    <3> QED
      BY <3>1, <3>3, <3>4, OnceTurn
  <2>4. CASE AwaitAnswers(c)
    <3> DEFINE q == [r EXCEPT !.at = "settling"]
    <3>1. /\ call' = [call EXCEPT ![c] = q] /\ r.at = "awaiting"
          /\ ledger' \subseteq ledger /\ UNCHANGED prepended
      BY <2>4 DEF AwaitAnswers, Goes, Settled, r
    <3>2. q.at = "settling" /\ q.todo = r.todo
      BY <2>0 DEF Request
    <3> HIDE DEF q
    <3>3. OnceFor(q, ledger', prepended')
      BY <2>0, <3>1, <3>2 DEF OnceFor
    <3> QED
      BY <1>0, <3>1, <3>3, HandedOutKept, OnceTurn
  <2>5. CASE AwaitTimesOut(c)
    <3> DEFINE q == [r EXCEPT !.at = "settling", !.carry = {}]
    <3>1. call' = [call EXCEPT ![c] = q] /\ r.at = "awaiting" /\ UNCHANGED <<ledger, prepended>>
      BY <2>5 DEF AwaitTimesOut, r
    <3>2. q.at = "settling" /\ q.todo = r.todo
      BY <2>0 DEF Request
    <3> HIDE DEF q
    <3>3. OnceFor(q, ledger', prepended')
      BY <2>0, <3>1, <3>2 DEF OnceFor
    <3> QED
      BY <1>0, <3>1, <3>3, HandedOutKept, OnceTurn
  <2>6. ASSUME NEW o \in Op, WaitEnds(c, o) PROVE OnceInv'
    <3> DEFINE q == [r EXCEPT !.left = @ \ {o}, !.carry = @ \cup ({o} \cap history)]
    <3>1. call' = [call EXCEPT ![c] = q] /\ r.at = "awaiting" /\ UNCHANGED <<ledger, prepended>>
      BY <2>6 DEF WaitEnds, r
    <3>2. q.at = r.at /\ q.todo = r.todo
      BY <2>0 DEF Request
    <3> HIDE DEF q
    <3>3. OnceFor(q, ledger', prepended')
      BY <2>0, <3>1, <3>2 DEF OnceFor
    <3> QED
      BY <1>0, <3>1, <3>3, HandedOutKept, OnceTurn
  <2>7. CASE Snapshot(c)
    <3> DEFINE q == [r EXCEPT !.at = "history", !.todo = ledger]
    <3>1. call' = [call EXCEPT ![c] = q] /\ UNCHANGED <<ledger, prepended>>
      BY <2>7 DEF Snapshot, r
    <3>2. q.at = "history" /\ q.todo = ledger
      BY <2>0 DEF Request
    <3> HIDE DEF q
    <3>3. OnceFor(q, ledger', prepended')
      BY <3>1, <3>2 DEF OnceFor
    <3> QED
      BY <1>0, <3>1, <3>3, HandedOutKept, OnceTurn
  <2>8. ASSUME NEW o \in Op, LookInHistory(c, o) PROVE OnceInv'
    <3>1. PICK at \in {"take", "active"} :
             call' = [call EXCEPT ![c] = [r EXCEPT !.at = at, !.todo = @ \ {o}, !.on = o]]
      BY <2>8 DEF LookInHistory, r
    <3> DEFINE q == [r EXCEPT !.at = at, !.todo = @ \ {o}, !.on = o]
    <3>2. q.at = at /\ q.on = o /\ q.todo = r.todo \ {o}
      BY <2>0 DEF Request
    <3>3. call' = [call EXCEPT ![c] = q] /\ o \in r.todo /\ UNCHANGED <<ledger, prepended>>
      BY <2>8, <3>1 DEF LookInHistory, r
    <3> HIDE DEF q
    <3>4. OnceFor(q, ledger', prepended')
      BY <2>0, <3>2, <3>3 DEF OnceFor
    <3> QED
      BY <1>0, <3>3, <3>4, HandedOutKept, OnceTurn
  <2>9. CASE Take(c)
    <3> DEFINE q == [r EXCEPT !.at = "history", !.carry = @ \cup {r.on}]
    <3>1. /\ call' = [call EXCEPT ![c] = q] /\ r.at = "take"
          /\ ledger' = ledger \ {r.on}
          /\ prepended' = [prepended EXCEPT ![r.on] = @ + 1]
      BY <2>9 DEF Take, Settled, r
    <3>2. q.at = "history" /\ q.todo = r.todo
      BY <2>0 DEF Request
    <3> HIDE DEF q
    <3>3. OnceFor(q, ledger', prepended')
      BY <2>0, <3>1, <3>2 DEF OnceFor
    <3>4. r.on \in Op /\ prepended[r.on] = 0
      BY <2>0, <3>1 DEF OnceFor, OnceInv, HandedOut
    <3>5. status'[r.on] # "new"
      BY <1>0, <2>0, <3>1, <3>4, StatesDiffer DEF EndedFor, HasEnded, Onward
    <3>6. prepended'[r.on] = 1 /\ \A o \in Op \ {r.on} : prepended'[o] = prepended[o]
      BY <3>1, <3>4 DEF DeliveryTypeOK
    <3>7. \A o \in Op : HandedOut(o)'
      BY <1>0, <3>1, <3>5, <3>6 DEF OnceInv, HandedOut, Onward
    <3> QED
      BY <3>1, <3>3, <3>7, OnceTurn
  <2>10. CASE LookInActive(c)
    <3> DEFINE q == [r EXCEPT !.at = "history"]
    <3>1. /\ call' = [call EXCEPT ![c] = q] /\ r.at = "active"
          /\ ledger' \subseteq ledger /\ ledger \ {r.on} \subseteq ledger' /\ UNCHANGED prepended
      BY <2>10 DEF LookInActive, Goes, Settled, r
    <3>2. q.at = "history" /\ q.todo = r.todo
      BY <2>0 DEF Request
    <3> HIDE DEF q
    <3>3. OnceFor(q, ledger', prepended')
      BY <2>0, <3>1, <3>2 DEF OnceFor
    <3> QED
      BY <1>0, <3>1, <3>3, HandedOutKept, OnceTurn
  <2>11. CASE AnswerCall(c)
    <3>1. call' = [call EXCEPT ![c] = Idle] /\ UNCHANGED <<ledger, prepended>>
      BY <2>11 DEF AnswerCall
    <3>2. OnceFor(Idle, ledger', prepended')
      BY DEF OnceFor, Idle
    <3> QED
      BY <1>0, <3>1, <3>2, HandedOutKept, OnceTurn
  <2> QED
    BY <1>2, <2>1, <2>2, <2>3, <2>4, <2>5, <2>6, <2>7, <2>8, <2>9, <2>10, <2>11 DEF Serve
<1>3. ASSUME NEW c \in Call, Ask(c) PROVE OnceInv'
  <2>1. ASSUME NEW at \in Stages, NEW S, NEW R, Begin(c, at, S, R),
               at = "window" => \A o \in S : prepended'[o] = 0,
               at \notin {"elapsed", "take", "active"},
               UNCHANGED prepended, ledger' \subseteq ledger
        PROVE  OnceInv'
    <3>1. call' = [call EXCEPT ![c] = New(at, S, R)]
      BY <2>1 DEF Begin, New
    <3>2. New(at, S, R).at = at /\ New(at, S, R).todo = {} /\ New(at, S, R).ops = S
      BY DEF New, Idle
    <3> DEFINE q == New(at, S, R)
    <3>3. call' = [call EXCEPT ![c] = q] /\ q.at = at /\ q.todo = {} /\ q.ops = S
      BY <3>1, <3>2
    <3> HIDE DEF q
    <3>4. OnceFor(q, ledger', prepended')
      BY <2>1, <3>3 DEF OnceFor
    <3> QED
      BY <1>0, <2>1, <3>3, <3>4, HandedOutKept, OnceTurn
  <2>2. ASSUME NEW o \in Op, RunCommand(c, o) PROVE OnceInv'
    <3>1. /\ Begin(c, "window", {o}, {}) /\ status[o] = "new"
          /\ UNCHANGED <<ledger, prepended>>
      BY <2>2 DEF RunCommand, AddOperation
    <3>2. prepended'[o] = 0
      BY <3>1 DEF OnceInv, HandedOut
    <3> QED
      BY <2>1, <3>1, <3>2 DEF Stages
  <2>3. ASSUME NEW S \in SUBSET Op, Await(c, S) PROVE OnceInv'
    <3>1. Begin(c, "awaiting", S, {}) /\ UNCHANGED <<ledger, prepended>>
      BY <2>3 DEF Await
    <3> QED
      BY <2>1, <3>1 DEF Stages
  <2>4. ASSUME NEW S \in SUBSET Op, AwaitCompleted(c, S) PROVE OnceInv'
    <3>1. Begin(c, "settling", {}, S) /\ ledger' \subseteq ledger /\ UNCHANGED prepended
      BY <2>4 DEF AwaitCompleted, Settled
    <3> QED
      BY <2>1, <3>1 DEF Stages
  <2>5. CASE OtherCall(c)
    <3>1. Begin(c, "settling", {}, {}) /\ UNCHANGED <<ledger, prepended>>
      BY <2>5 DEF OtherCall
    <3> QED
      BY <2>1, <3>1 DEF Stages
  <2> QED
    BY <1>3, <2>2, <2>3, <2>4, <2>5 DEF Ask
<1> QED
  BY <1>1, <1>2, <1>3 DEF DeliveryNext, MonitorStep

\* SPEC R2.7.5, "prepended to the next tool result ... exactly once": a session
\* that makes one call at a time is handed no result twice, whatever its calls do.
THEOREM HandedOutOnce == ASSUME OneCall PROVE DeliverySpec => []PrependedOnce
<1>1. DeliveryInit => OnceInv
  BY DEF DeliveryInit, OnceInv, OnceFor, HandedOut, Idle
<1>2. OnceInv /\ IInv /\ DeliveryTypeOK /\ EndedInv /\ [DeliveryNext]_<<vars, delivery>> => OnceInv'
  BY OnceStep
<1>3. DeliverySpec => []OnceInv
  BY <1>1, <1>2, MonitorInvariant, DeliveryTypeCorrect, EndedInvariant, PTL DEF DeliverySpec
<1>4. OnceInv => PrependedOnce
  BY DEF OnceInv, HandedOut, PrependedOnce
<1> QED
  BY <1>3, <1>4, PTL

-----------------------------------------------------------------------------
(***************************************************************************)
(* Nothing that is owed is passed over, while the history holds every      *)
(* operation.                                                              *)
(***************************************************************************)

\* A full history that has room for every operation holds them all.
LEMMA FullHoldsAll ==
    ASSUME IsFiniteSet(Op), Roomy, IInv, Len(order) = MaxHistory
    PROVE  Op \subseteq history
<1>1. order \in Seq(Op) /\ IsInjective(order) /\ ToSet(order) = history
  BY DEF IInv, TypeOK, HistoryInOrder
<1>2. order \in Injection(1 .. MaxHistory, Op)
  BY <1>1, MonitorAssumption DEF Injection
<1>3. Cardinality(1 .. MaxHistory) = MaxHistory
  BY FS_Interval, MonitorAssumption
<1>4. Cardinality(1 .. MaxHistory) <= Cardinality(Op)
      /\ (Cardinality(1 .. MaxHistory) = Cardinality(Op) <=> order \in Surjection(1 .. MaxHistory, Op))
  BY <1>2, FS_Injection
<1>5. Cardinality(Op) \in Nat
  BY FS_CardinalityType
<1>6. order \in Surjection(1 .. MaxHistory, Op)
  BY <1>3, <1>4, <1>5, MonitorAssumption DEF Roomy
<1>7. \A o \in Op : \E i \in 1 .. MaxHistory : order[i] = o
  BY <1>6 DEF Surjection
<1> QED
  BY <1>1, <1>7 DEF ToSet

\* What was announced is in the history.
LEMMA ToldIsKept ==
    ASSUME IsFiniteSet(Op), Roomy, IInv
    PROVE  \A o \in Op : told[o] > 0 => o \in history
BY FullHoldsAll DEF IInv, SettlingInv, Settling, Kept

\* Nothing is evicted.
LEMMA HistoryGrows ==
    ASSUME IsFiniteSet(Op), Roomy, IInv, [Next]_vars
    PROVE  history \subseteq history'
<1>1. CASE UNCHANGED history
  BY <1>1
<1>2. ASSUME NEW o \in Op, StoreInHistory(o) PROVE history \subseteq history'
  <2>1. o \notin history
    BY <1>2 DEF IInv, SettlingInv, Settling, StoreInHistory
  <2>2. Len(order) # MaxHistory
    BY <2>1, FullHoldsAll
  <2>3. Len(order) < MaxHistory
    <3>1. order \in Seq(Op) /\ Len(order) <= MaxHistory
      BY DEF IInv, TypeOK, HistoryInOrder
    <3> QED
      BY <2>2, <3>1, MonitorAssumption
  <2> QED
    BY <1>2, <2>3 DEF StoreInHistory
<1>3. UNCHANGED history \/ \E o \in Op : StoreInHistory(o)
  BY DEF Next, Life, AddOperation, LeftQueue, Start, UpdateStatus, CancelOperation, Time,
         RunsLate, FallsSilent, ShowsLife, Move, Signal, EmitTerminal, Alert, AppendAlert,
         AppendToHistory, Suspend, SleepFor, CancelAll, ListActive, CancelListed, SkipListed, Loop,
         NoteMonitorTick, CheckTimeouts, SleepASecond, Sweep, TimeoutOperation, SpareOperation,
         Answer, CheckHistory, Subscribe, Recheck, ObserveFlag, Lookup, WaitTimesOut, AskFor,
         Step, vars, finishing
<1> QED
  BY <1>1, <1>2, <1>3

\* Where what was owed when a call came in is on its way to the answer (`found`
\* is the history, `listed` the ledger).
OwedFor(r, found, listed) ==
    /\ r.owed \subseteq found
    /\ r.at \in {"window", "elapsed", "awaiting"} => r.owed \subseteq listed
    /\ r.at = "settling" => r.owed \subseteq listed \cup r.carry
    /\ r.at \in {"history", "active"} => r.owed \subseteq r.todo \cup r.carry
    /\ r.at = "take" => r.owed \subseteq r.todo \cup {r.on} \cup r.carry

OwedInv == \A c \in Call : OwedFor(call[c], history, ledger)

LEMMA OwedTurn ==
    ASSUME OneCall, DeliveryTypeOK, NEW c \in Call, NEW r, call' = [call EXCEPT ![c] = r],
           OwedFor(r, history', ledger')
    PROVE  OwedInv'
BY DEF OneCall, DeliveryTypeOK, OwedInv

LEMMA OwedStep ==
    ASSUME OneCall, IsFiniteSet(Op), Roomy, IInv, DeliveryTypeOK, OwedInv,
           [DeliveryNext]_<<vars, delivery>>
    PROVE  OwedInv'
<1>0. history \subseteq history'
  BY MonitorSteps, HistoryGrows
<1>1. CASE UNCHANGED delivery
  BY <1>0, <1>1 DEF delivery, OwedInv, OwedFor
<1>2. ASSUME NEW c \in Call, Serve(c) PROVE OwedInv'
  <2> DEFINE r == call[c]
  <2>0. r \in Request /\ OwedFor(r, history, ledger)
    BY DEF DeliveryTypeOK, OwedInv
  <2> HIDE DEF r
  <2>1. CASE WindowAnswers(c)
    <3> DEFINE q == [r EXCEPT !.at = "settling", !.carry = r.ops]
    <3>1. call' = [call EXCEPT ![c] = q] /\ r.at = "window" /\ UNCHANGED ledger
      BY <2>1 DEF WindowAnswers, r
    <3>2. q.at = "settling" /\ q.owed = r.owed
      BY <2>0 DEF Request
    <3> HIDE DEF q
    <3>3. OwedFor(q, history', ledger')
      BY <1>0, <2>0, <3>1, <3>2 DEF OwedFor
    <3> QED
      BY <3>1, <3>3, OwedTurn
  <2>2. CASE WindowElapses(c)
    <3> DEFINE q == [r EXCEPT !.at = "elapsed"]
    <3>1. call' = [call EXCEPT ![c] = q] /\ r.at = "window" /\ UNCHANGED ledger
      BY <2>2 DEF WindowElapses, Goes, r
    <3>2. q.at = "elapsed" /\ q.owed = r.owed
      BY <2>0 DEF Request
    <3> HIDE DEF q
    <3>3. OwedFor(q, history', ledger')
      BY <1>0, <2>0, <3>1, <3>2 DEF OwedFor
    <3> QED
      BY <3>1, <3>3, OwedTurn
  <2>3. CASE StartedWithoutResult(c)
    <3> DEFINE q == [r EXCEPT !.at = "settling"]
    <3>1. call' = [call EXCEPT ![c] = q] /\ r.at = "elapsed" /\ ledger \subseteq ledger'
      BY <2>3 DEF StartedWithoutResult, Goes, r
    <3>2. q.at = "settling" /\ q.owed = r.owed
      BY <2>0 DEF Request
    <3> HIDE DEF q
    <3>3. OwedFor(q, history', ledger')
      BY <1>0, <2>0, <3>1, <3>2 DEF OwedFor
    <3> QED
      BY <3>1, <3>3, OwedTurn
  <2>4. CASE AwaitAnswers(c)
    <3> DEFINE q == [r EXCEPT !.at = "settling"]
    <3>1. call' = [call EXCEPT ![c] = q] /\ r.at = "awaiting" /\ ledger' = ledger \ r.carry
      BY <2>4 DEF AwaitAnswers, Goes, Settled, r
    <3>2. q.at = "settling" /\ q.carry = r.carry /\ q.owed = r.owed
      BY <2>0 DEF Request
    <3> HIDE DEF q
    <3>3. OwedFor(q, history', ledger')
      BY <1>0, <2>0, <3>1, <3>2 DEF OwedFor
    <3> QED
      BY <3>1, <3>3, OwedTurn
  <2>5. CASE AwaitTimesOut(c)
    <3> DEFINE q == [r EXCEPT !.at = "settling", !.carry = {}]
    <3>1. call' = [call EXCEPT ![c] = q] /\ r.at = "awaiting" /\ UNCHANGED ledger
      BY <2>5 DEF AwaitTimesOut, r
    <3>2. q.at = "settling" /\ q.owed = r.owed
      BY <2>0 DEF Request
    <3> HIDE DEF q
    <3>3. OwedFor(q, history', ledger')
      BY <1>0, <2>0, <3>1, <3>2 DEF OwedFor
    <3> QED
      BY <3>1, <3>3, OwedTurn
  <2>6. ASSUME NEW o \in Op, WaitEnds(c, o) PROVE OwedInv'
    <3> DEFINE q == [r EXCEPT !.left = @ \ {o}, !.carry = @ \cup ({o} \cap history)]
    <3>1. call' = [call EXCEPT ![c] = q] /\ r.at = "awaiting" /\ UNCHANGED ledger
      BY <2>6 DEF WaitEnds, r
    <3>2. q.at = r.at /\ q.owed = r.owed
      BY <2>0 DEF Request
    <3> HIDE DEF q
    <3>3. OwedFor(q, history', ledger')
      BY <1>0, <2>0, <3>1, <3>2 DEF OwedFor
    <3> QED
      BY <3>1, <3>3, OwedTurn
  <2>7. CASE Snapshot(c)
    <3> DEFINE q == [r EXCEPT !.at = "history", !.todo = ledger]
    <3>1. call' = [call EXCEPT ![c] = q] /\ r.at = "settling"
      BY <2>7 DEF Snapshot, r
    <3>2. q.at = "history" /\ q.todo = ledger /\ q.carry = r.carry /\ q.owed = r.owed
      BY <2>0 DEF Request
    <3> HIDE DEF q
    <3>3. OwedFor(q, history', ledger')
      BY <1>0, <2>0, <3>1, <3>2 DEF OwedFor
    <3> QED
      BY <3>1, <3>3, OwedTurn
  <2>8. ASSUME NEW o \in Op, LookInHistory(c, o) PROVE OwedInv'
    <3>1. PICK at \in {"take", "active"} :
             /\ at = IF o \in history THEN "take" ELSE "active"
             /\ call' = [call EXCEPT ![c] = [r EXCEPT !.at = at, !.todo = @ \ {o}, !.on = o]]
      BY <2>8 DEF LookInHistory, r
    <3> DEFINE q == [r EXCEPT !.at = at, !.todo = @ \ {o}, !.on = o]
    <3>2. /\ q.at = at /\ q.on = o /\ q.todo = r.todo \ {o}
          /\ q.carry = r.carry /\ q.owed = r.owed
      BY <2>0 DEF Request
    <3>3. call' = [call EXCEPT ![c] = q] /\ r.at = "history"
      BY <2>8, <3>1 DEF LookInHistory, r
    <3> HIDE DEF q
    <3>4. OwedFor(q, history', ledger')
      BY <1>0, <2>0, <3>1, <3>2, <3>3 DEF OwedFor
    <3> QED
      BY <3>3, <3>4, OwedTurn
  <2>9. CASE Take(c)
    <3> DEFINE q == [r EXCEPT !.at = "history", !.carry = @ \cup {r.on}]
    <3>1. call' = [call EXCEPT ![c] = q] /\ r.at = "take"
      BY <2>9 DEF Take, r
    <3>2. q.at = "history" /\ q.todo = r.todo /\ q.carry = r.carry \cup {r.on} /\ q.owed = r.owed
      BY <2>0 DEF Request
    <3> HIDE DEF q
    <3>3. OwedFor(q, history', ledger')
      BY <1>0, <2>0, <3>1, <3>2 DEF OwedFor
    <3> QED
      BY <3>1, <3>3, OwedTurn
  <2>10. CASE LookInActive(c)
    <3> DEFINE q == [r EXCEPT !.at = "history"]
    <3>1. call' = [call EXCEPT ![c] = q] /\ r.at = "active"
      BY <2>10 DEF LookInActive, Goes, r
    <3>2. q.at = "history" /\ q.todo = r.todo /\ q.carry = r.carry /\ q.owed = r.owed
      BY <2>0 DEF Request
    <3> HIDE DEF q
    <3>3. OwedFor(q, history', ledger')
      BY <1>0, <2>0, <3>1, <3>2 DEF OwedFor
    <3> QED
      BY <3>1, <3>3, OwedTurn
  <2>11. CASE AnswerCall(c)
    <3>1. call' = [call EXCEPT ![c] = Idle]
      BY <2>11 DEF AnswerCall
    <3>2. OwedFor(Idle, history', ledger')
      BY DEF OwedFor, Idle
    <3> QED
      BY <3>1, <3>2, OwedTurn
  <2> QED
    BY <1>2, <2>1, <2>2, <2>3, <2>4, <2>5, <2>6, <2>7, <2>8, <2>9, <2>10, <2>11 DEF Serve
<1>3. ASSUME NEW c \in Call, Ask(c) PROVE OwedInv'
  <2>1. ASSUME NEW at \in {"window", "awaiting", "settling"}, NEW S, NEW R, Begin(c, at, S, R),
               at # "settling" => UNCHANGED ledger, ledger \subseteq ledger' \cup R
        PROVE  OwedInv'
    <3> DEFINE q == New(at, S, R)
    <3>1. call' = [call EXCEPT ![c] = q]
      BY <2>1 DEF Begin, New
    <3>2. q.at = at /\ q.carry = R /\ q.owed = {o \in ledger : told[o] > 0}
      BY DEF New, Idle
    <3>3. q.owed \subseteq ledger /\ q.owed \subseteq history
      BY <3>2, ToldIsKept DEF DeliveryTypeOK
    <3> HIDE DEF q
    <3>4. OwedFor(q, history', ledger')
      BY <1>0, <2>1, <3>2, <3>3 DEF OwedFor
    <3> QED
      BY <3>1, <3>4, OwedTurn
  <2>2. ASSUME NEW o \in Op, RunCommand(c, o) PROVE OwedInv'
    <3>1. Begin(c, "window", {o}, {}) /\ UNCHANGED ledger
      BY <2>2 DEF RunCommand
    <3> QED
      BY <2>1, <3>1
  <2>3. ASSUME NEW S \in SUBSET Op, Await(c, S) PROVE OwedInv'
    <3>1. Begin(c, "awaiting", S, {}) /\ UNCHANGED ledger
      BY <2>3 DEF Await
    <3> QED
      BY <2>1, <3>1
  <2>4. ASSUME NEW S \in SUBSET Op, AwaitCompleted(c, S) PROVE OwedInv'
    <3>1. Begin(c, "settling", {}, S) /\ ledger \subseteq ledger' \cup S
      BY <2>4 DEF AwaitCompleted, Settled
    <3> QED
      BY <2>1, <3>1
  <2>5. CASE OtherCall(c)
    <3>1. Begin(c, "settling", {}, {}) /\ UNCHANGED ledger
      BY <2>5 DEF OtherCall
    <3> QED
      BY <2>1, <3>1
  <2> QED
    BY <1>3, <2>2, <2>3, <2>4, <2>5 DEF Ask
<1> QED
  BY <1>1, <1>2, <1>3 DEF DeliveryNext, MonitorStep

\* SPEC R2.7.5: a session that makes one call at a time finds, in each answer, every
\* result that was announced and owed when it asked, as long as nothing is evicted.
THEOREM OwedReachesTheAnswer ==
    ASSUME OneCall, IsFiniteSet(Op) PROVE DeliverySpec => []OwedIsDelivered
<1>1. DeliveryInit => OwedInv
  BY DEF DeliveryInit, OwedInv, OwedFor, Idle
<1>2. Roomy /\ IInv /\ DeliveryTypeOK /\ OwedInv /\ [DeliveryNext]_<<vars, delivery>> => OwedInv'
  BY OwedStep
<1>3. CASE Roomy
  <2>1. IInv /\ DeliveryTypeOK /\ OwedInv /\ [DeliveryNext]_<<vars, delivery>> => OwedInv'
    BY <1>2, <1>3
  <2>2. DeliverySpec => []OwedInv
    BY <1>1, <2>1, MonitorInvariant, DeliveryTypeCorrect, PTL DEF DeliverySpec
  <2>3. OwedInv => OwedIsDelivered
    BY DEF OwedInv, OwedFor, OwedIsDelivered, Carried
  <2> QED
    BY <2>2, <2>3, PTL
<1>4. CASE ~Roomy
  <2>1. OwedIsDelivered
    BY <1>4 DEF OwedIsDelivered
  <2> QED
    BY <2>1, PTL
<1> QED
  BY <1>3, <1>4

-----------------------------------------------------------------------------
(***************************************************************************)
(* Any number of calls in flight.                                          *)
(***************************************************************************)
\* What a step makes of one request's record: r turns to q.
Same == UNCHANGED <<ledger, shown, prepended>>

Asks(r, q) ==
    /\ r.at = "idle" /\ q.todo = {}
    /\ \/ /\ q.at = "window" /\ q.carry = {} /\ Same
          /\ \E o \in Op : q.ops = {o} /\ status[o] = "new" /\ status'[o] # "new"
       \/ q.at \in {"awaiting", "settling"} /\ q.carry = {} /\ Same
       \/ /\ q.at = "settling" /\ q.carry \subseteq history
          /\ ledger' = ledger \ q.carry /\ UNCHANGED <<shown, prepended>>

Waits(r, q) ==
    /\ q.todo = r.todo
    /\ \/ r.at = "window" /\ q.at = "settling" /\ q.carry = r.ops /\ Same
       \/ /\ r.at = "window" /\ q.at = "elapsed" /\ q.ops = r.ops /\ q.carry = r.carry /\ Same
       \/ /\ r.at = "elapsed" /\ q.at = "settling" /\ q.carry = r.carry
          /\ ledger' = ledger \cup r.ops /\ UNCHANGED <<shown, prepended>>
       \/ r.at = "awaiting" /\ q.at = "awaiting" /\ r.carry \subseteq q.carry /\ Same
       \/ r.at = "awaiting" /\ q.at = "settling" /\ q.carry = {} /\ Same
       \/ /\ r.at = "awaiting" /\ q.at = "settling" /\ q.carry = r.carry
          /\ ledger' = ledger \ r.carry /\ UNCHANGED <<shown, prepended>>

TakesFinished(r, q) ==
    \/ r.at = "settling" /\ q.at = "history" /\ q.todo = ledger /\ q.carry = r.carry /\ Same
    \/ /\ r.at = "history" /\ q.at \in {"take", "active"} /\ q.carry = r.carry /\ Same
       /\ q.on \in r.todo /\ q.todo = r.todo \ {q.on}
    \/ /\ r.at = "take" /\ q.at = "history" /\ q.todo = r.todo
       /\ q.carry = r.carry \cup {r.on} /\ ledger' = ledger \ {r.on}
       /\ prepended' = [prepended EXCEPT ![r.on] = @ + 1] /\ UNCHANGED shown
    \/ /\ r.at = "active" /\ q.at = "history" /\ q.todo = r.todo /\ q.carry = r.carry
       /\ ledger' = IF InMap(r.on) THEN ledger ELSE ledger \ {r.on}
       /\ UNCHANGED <<shown, prepended>>
    \/ /\ r.at = "history" /\ q.at = "idle" /\ q.todo = {} /\ r.todo = {}
       /\ shown' = shown \cup r.carry /\ UNCHANGED <<ledger, prepended>>

Turns(r, q) == Asks(r, q) \/ Waits(r, q) \/ TakesFinished(r, q)

\* Every step is one request's turn, or the monitor's.
LEMMA EachTurn ==
    ASSUME IInv, DeliveryTypeOK, [DeliveryNext]_<<vars, delivery>>
    PROVE  \/ UNCHANGED delivery
           \/ \E c \in Call : \E q : call' = [call EXCEPT ![c] = q] /\ Turns(call[c], q)
<1> DEFINE Goal == \E c \in Call : \E q : call' = [call EXCEPT ![c] = q] /\ Turns(call[c], q)
<1>1. ASSUME NEW c \in Call, Serve(c) PROVE Goal
  <2> DEFINE r == call[c]
  <2>0. r \in Request
    BY DEF DeliveryTypeOK
  <2>1. ASSUME NEW q, call' = [call EXCEPT ![c] = q], Turns(r, q) PROVE Goal
    BY <2>1
  <2> HIDE DEF Goal
  <2>2. CASE WindowAnswers(c)
    <3> DEFINE q == [r EXCEPT !.at = "settling", !.carry = r.ops]
    <3>1. r.at = "window" /\ Same
      BY <2>2 DEF WindowAnswers, Same
    <3>2. call' = [call EXCEPT ![c] = q]
      BY <2>2 DEF WindowAnswers
    <3>3. q.at = "settling" /\ q.carry = r.ops /\ q.todo = r.todo
      BY <2>0 DEF Request
    <3> HIDE DEF q, r
    <3>4. Turns(r, q)
      BY <3>1, <3>3 DEF Turns, Waits
    <3> QED
      BY <2>1, <3>2, <3>4 DEF r
  <2>3. CASE WindowElapses(c)
    <3> DEFINE q == [r EXCEPT !.at = "elapsed"]
    <3>1. r.at = "window" /\ Same
      BY <2>3 DEF WindowElapses, Same, Settled
    <3>2. call' = [call EXCEPT ![c] = q]
      BY <2>3 DEF WindowElapses, Goes
    <3>3. q.at = "elapsed" /\ q.ops = r.ops /\ q.carry = r.carry /\ q.todo = r.todo
      BY <2>0 DEF Request
    <3> HIDE DEF q, r
    <3>4. Turns(r, q)
      BY <3>1, <3>3 DEF Turns, Waits
    <3> QED
      BY <2>1, <3>2, <3>4 DEF r
  <2>4. CASE StartedWithoutResult(c)
    <3> DEFINE q == [r EXCEPT !.at = "settling"]
    <3>1. r.at = "elapsed" /\ ledger' = ledger \cup r.ops /\ UNCHANGED <<shown, prepended>>
      BY <2>4 DEF StartedWithoutResult, Same, Settled
    <3>2. call' = [call EXCEPT ![c] = q]
      BY <2>4 DEF StartedWithoutResult, Goes
    <3>3. q.at = "settling" /\ q.carry = r.carry /\ q.todo = r.todo
      BY <2>0 DEF Request
    <3> HIDE DEF q, r
    <3>4. Turns(r, q)
      BY <3>1, <3>3 DEF Turns, Waits
    <3> QED
      BY <2>1, <3>2, <3>4 DEF r
  <2>5. CASE AwaitAnswers(c)
    <3> DEFINE q == [r EXCEPT !.at = "settling"]
    <3>1. r.at = "awaiting" /\ ledger' = ledger \ r.carry /\ UNCHANGED <<shown, prepended>>
      BY <2>5 DEF AwaitAnswers, Same, Settled
    <3>2. call' = [call EXCEPT ![c] = q]
      BY <2>5 DEF AwaitAnswers, Goes
    <3>3. q.at = "settling" /\ q.carry = r.carry /\ q.todo = r.todo
      BY <2>0 DEF Request
    <3> HIDE DEF q, r
    <3>4. Turns(r, q)
      BY <3>1, <3>3 DEF Turns, Waits
    <3> QED
      BY <2>1, <3>2, <3>4 DEF r
  <2>6. CASE AwaitTimesOut(c)
    <3> DEFINE q == [r EXCEPT !.at = "settling", !.carry = {}]
    <3>1. r.at = "awaiting" /\ Same
      BY <2>6 DEF AwaitTimesOut, Same, Settled
    <3>2. call' = [call EXCEPT ![c] = q]
      BY <2>6 DEF AwaitTimesOut, Goes
    <3>3. q.at = "settling" /\ q.carry = {} /\ q.todo = r.todo
      BY <2>0 DEF Request
    <3> HIDE DEF q, r
    <3>4. Turns(r, q)
      BY <3>1, <3>3 DEF Turns, Waits
    <3> QED
      BY <2>1, <3>2, <3>4 DEF r
  <2>7. ASSUME NEW o \in Op, WaitEnds(c, o) PROVE Goal
    <3> DEFINE q == [r EXCEPT !.left = @ \ {o}, !.carry = @ \cup ({o} \cap history)]
    <3>1. r.at = "awaiting" /\ Same
      BY <2>7 DEF WaitEnds, Same, Settled
    <3>2. call' = [call EXCEPT ![c] = q]
      BY <2>7 DEF WaitEnds, Goes
    <3>3. q.at = r.at /\ r.carry \subseteq q.carry /\ q.todo = r.todo
      BY <2>0 DEF Request
    <3> HIDE DEF q, r
    <3>4. Turns(r, q)
      BY <3>1, <3>3 DEF Turns, Waits
    <3> QED
      BY <2>1, <3>2, <3>4 DEF r
  <2>8. CASE Snapshot(c)
    <3> DEFINE q == [r EXCEPT !.at = "history", !.todo = ledger]
    <3>1. r.at = "settling" /\ Same
      BY <2>8 DEF Snapshot, Same, Settled
    <3>2. call' = [call EXCEPT ![c] = q]
      BY <2>8 DEF Snapshot, Goes
    <3>3. q.at = "history" /\ q.todo = ledger /\ q.carry = r.carry
      BY <2>0 DEF Request
    <3> HIDE DEF q, r
    <3>4. Turns(r, q)
      BY <3>1, <3>3 DEF Turns, TakesFinished
    <3> QED
      BY <2>1, <3>2, <3>4 DEF r
  <2>9. ASSUME NEW o \in Op, LookInHistory(c, o) PROVE Goal
    <3>1. PICK at \in {"take", "active"} :
             call' = [call EXCEPT ![c] = [r EXCEPT !.at = at, !.todo = @ \ {o}, !.on = o]]
      BY <2>9 DEF LookInHistory
    <3> DEFINE q == [r EXCEPT !.at = at, !.todo = @ \ {o}, !.on = o]
    <3>2. r.at = "history" /\ o \in r.todo /\ Same
      BY <2>9 DEF LookInHistory, Same
    <3>3. q.at = at /\ q.on = o /\ q.todo = r.todo \ {o} /\ q.carry = r.carry
      BY <2>0 DEF Request
    <3> HIDE DEF q, r
    <3>4. Turns(r, q)
      BY <3>2, <3>3 DEF Turns, TakesFinished
    <3> QED
      BY <2>1, <3>1, <3>4 DEF q, r
  <2>10. CASE Take(c)
    <3> DEFINE q == [r EXCEPT !.at = "history", !.carry = @ \cup {r.on}]
    <3>1. /\ r.at = "take" /\ ledger' = ledger \ {r.on} /\ UNCHANGED shown
          /\ prepended' = [prepended EXCEPT ![r.on] = @ + 1]
      BY <2>10 DEF Take, Same, Settled
    <3>2. call' = [call EXCEPT ![c] = q]
      BY <2>10 DEF Take, Goes
    <3>3. q.at = "history" /\ q.todo = r.todo /\ q.carry = r.carry \cup {r.on}
      BY <2>0 DEF Request
    <3> HIDE DEF q, r
    <3>4. Turns(r, q)
      BY <3>1, <3>3 DEF Turns, TakesFinished
    <3> QED
      BY <2>1, <3>2, <3>4 DEF r
  <2>11. CASE LookInActive(c)
    <3> DEFINE q == [r EXCEPT !.at = "history"]
    <3>1. /\ r.at = "active" /\ UNCHANGED <<shown, prepended>>
          /\ ledger' = IF InMap(r.on) THEN ledger ELSE ledger \ {r.on}
      BY <2>11 DEF LookInActive, Same, Settled
    <3>2. call' = [call EXCEPT ![c] = q]
      BY <2>11 DEF LookInActive, Goes
    <3>3. q.at = "history" /\ q.todo = r.todo /\ q.carry = r.carry
      BY <2>0 DEF Request
    <3> HIDE DEF q, r
    <3>4. Turns(r, q)
      BY <3>1, <3>3 DEF Turns, TakesFinished
    <3> QED
      BY <2>1, <3>2, <3>4 DEF r
  <2>12. CASE AnswerCall(c)
    <3> DEFINE q == Idle
    <3>1. /\ r.at = "history" /\ r.todo = {}
          /\ shown' = shown \cup r.carry /\ UNCHANGED <<ledger, prepended>>
      BY <2>12 DEF AnswerCall, Same, Settled
    <3>2. call' = [call EXCEPT ![c] = q]
      BY <2>12 DEF AnswerCall, Goes
    <3>3. q.at = "idle" /\ q.todo = {}
      BY DEF Idle
    <3> HIDE DEF q, r
    <3>4. Turns(r, q)
      BY <3>1, <3>3 DEF Turns, TakesFinished
    <3> QED
      BY <2>1, <3>2, <3>4 DEF r
  <2> QED
    BY <1>1, <2>2, <2>3, <2>4, <2>5, <2>6, <2>7, <2>8, <2>9, <2>10, <2>11, <2>12 DEF Serve
<1>2. ASSUME NEW c \in Call, Ask(c) PROVE Goal
  <2>1. ASSUME NEW at, NEW S, NEW R, Begin(c, at, S, R)
        PROVE  \E q : /\ call' = [call EXCEPT ![c] = q] /\ call[c].at = "idle"
                      /\ q.at = at /\ q.ops = S /\ q.carry = R /\ q.todo = {}
    <3> DEFINE q == New(at, S, R)
    <3>1. q.at = at /\ q.ops = S /\ q.carry = R /\ q.todo = {}
      BY DEF New, Idle
    <3>2. call' = [call EXCEPT ![c] = q] /\ call[c].at = "idle"
      BY <2>1 DEF Begin, New
    <3> HIDE DEF q
    <3> QED
      BY <3>1, <3>2
  <2>2. ASSUME NEW o \in Op, RunCommand(c, o) PROVE Goal
    <3>1. Begin(c, "window", {o}, {}) /\ Same
      BY <2>2 DEF RunCommand, Same
    <3>2. status[o] = "new" /\ status'[o] # "new"
      BY <2>2 DEF RunCommand, AddOperation, IInv, TypeOK
    <3>3. PICK q : /\ call' = [call EXCEPT ![c] = q] /\ call[c].at = "idle"
                   /\ q.at = "window" /\ q.ops = {o} /\ q.carry = {} /\ q.todo = {}
      BY <2>1, <3>1
    <3> QED
      BY <3>1, <3>2, <3>3 DEF Turns, Asks
  <2>3. ASSUME NEW S \in SUBSET Op, Await(c, S) PROVE Goal
    <3>1. Begin(c, "awaiting", S, {}) /\ Same
      BY <2>3 DEF Await, Same
    <3>2. PICK q : /\ call' = [call EXCEPT ![c] = q] /\ call[c].at = "idle"
                   /\ q.at = "awaiting" /\ q.ops = S /\ q.carry = {} /\ q.todo = {}
      BY <2>1, <3>1
    <3> QED
      BY <3>1, <3>2 DEF Turns, Asks
  <2>4. ASSUME NEW S \in SUBSET Op, AwaitCompleted(c, S) PROVE Goal
    <3>1. /\ Begin(c, "settling", {}, S) /\ S \subseteq history
          /\ ledger' = ledger \ S /\ UNCHANGED <<shown, prepended>>
      BY <2>4 DEF AwaitCompleted, Settled
    <3>2. PICK q : /\ call' = [call EXCEPT ![c] = q] /\ call[c].at = "idle"
                   /\ q.at = "settling" /\ q.ops = {} /\ q.carry = S /\ q.todo = {}
      BY <2>1, <3>1
    <3> QED
      BY <3>1, <3>2 DEF Turns, Asks
  <2>5. CASE OtherCall(c)
    <3>1. Begin(c, "settling", {}, {}) /\ Same
      BY <2>5 DEF OtherCall, Same
    <3>2. PICK q : /\ call' = [call EXCEPT ![c] = q] /\ call[c].at = "idle"
                   /\ q.at = "settling" /\ q.ops = {} /\ q.carry = {} /\ q.todo = {}
      BY <2>1, <3>1
    <3> QED
      BY <3>1, <3>2 DEF Turns, Asks
  <2> QED
    BY <1>2, <2>2, <2>3, <2>4, <2>5 DEF Ask
<1> QED
  BY <1>1, <1>2 DEF DeliveryNext, MonitorStep, delivery

\* The composition runs the monitor and nothing beside it: every theorem of
\* OperationMonitorProofs holds of a session's calls and their results.
THEOREM RunsTheMonitor == DeliverySpec => Spec
<1>1. DeliveryInit => Init
  BY DEF DeliveryInit
<1> QED
  BY <1>1, MonitorSteps, PTL DEF DeliverySpec, Spec

\* A request past the settling of its own answer, whose answer carries o.
Carries(r, o) == r.at \in {"settling", "history", "take", "active"} /\ o \in r.carry

Answering(o) == \E c \in Call : Carries(call[c], o)

\* What an answer carries it keeps until it is out.
LEMMA TurnCarries ==
    ASSUME NEW r, NEW q, Turns(r, q), NEW o, Carries(r, o)
    PROVE  Carries(q, o) \/ o \in shown'
BY DEF Turns, Asks, Waits, TakesFinished, Carries

LEMMA CarriedKept ==
    ASSUME IInv, DeliveryTypeOK, [DeliveryNext]_<<vars, delivery>>
    PROVE  /\ \A o : Answering(o) => Answering(o)' \/ o \in shown'
           /\ shown \subseteq shown'
<1>1. CASE UNCHANGED delivery
  BY <1>1 DEF delivery, Answering
<1>2. ASSUME NEW c \in Call, NEW q, call' = [call EXCEPT ![c] = q], Turns(call[c], q)
      PROVE  /\ \A o : Answering(o) => Answering(o)' \/ o \in shown'
             /\ shown \subseteq shown'
  <2>1. call'[c] = q /\ \A d \in Call \ {c} : call'[d] = call[d]
    BY <1>2 DEF DeliveryTypeOK
  <2>2. shown \subseteq shown'
    BY <1>2 DEF Turns, Asks, Waits, TakesFinished, Same
  <2>3. ASSUME NEW o, NEW d \in Call, Carries(call[d], o)
        PROVE  Carries(call'[d], o) \/ o \in shown'
    <3>1. CASE d = c
      BY <1>2, <2>1, <2>3, <3>1, TurnCarries
    <3>2. CASE d # c
      BY <2>1, <2>3, <3>2
    <3> QED
      BY <3>1, <3>2
  <2> QED
    BY <2>2, <2>3 DEF Answering
<1> QED
  BY <1>1, <1>2, EachTurn

\* Requests that may still hand out o, and the one that runs it.
MayTake(r, o) == o \in r.todo \/ (r.at \in {"take", "active"} /\ r.on = o)

Starts(r, o) == r.at \in {"window", "elapsed"} /\ o \in r.ops

\* An operation the session has not been told of yet.
Fresh(o) == status[o] = "new" \/ \E c \in Call : Starts(call[c], o)

\* What nobody was told of is neither owed nor looked for, one call runs it, and
\* what is owed has not been handed out.
FreshInv ==
    /\ \A o \in Op : Fresh(o) =>
          o \notin ledger /\ prepended[o] = 0 /\ \A c \in Call : ~MayTake(call[c], o)
    /\ \A o \in Op : \A c \in Call : Starts(call[c], o) =>
          status[o] # "new" /\ \A d \in Call : Starts(call[d], o) => c = d
    /\ \A o \in ledger : prepended[o] = 0
    /\ \A c \in Call : call[c].at \in {"take", "active"} => call[c].on \notin call[c].todo

LEMMA TurnTakes ==
    ASSUME NEW r, NEW q, Turns(r, q), NEW o \in Op, prepended \in [Op -> Nat],
           r.at \in {"take", "active"} => r.on \notin r.todo
    PROVE  /\ MayTake(q, o) => MayTake(r, o) \/ (o \in ledger /\ UNCHANGED prepended)
           /\ q.at \in {"take", "active"} => q.on \notin q.todo
           /\ o \in ledger' => \/ o \in ledger
                               \/ Starts(r, o) /\ ~Starts(q, o) /\ UNCHANGED prepended
           /\ Starts(q, o) => Starts(r, o) \/ (status[o] = "new" /\ status'[o] # "new")
           /\ \/ prepended'[o] = prepended[o]
              \/ /\ prepended'[o] = prepended[o] + 1 /\ o \notin ledger'
                 /\ MayTake(r, o) /\ ~MayTake(q, o)
<1> USE DEF MayTake, Starts
<1>1. CASE Asks(r, q)
  BY <1>1 DEF Asks, Same
<1>2. CASE Waits(r, q)
  BY <1>2 DEF Waits, Same
<1>3. CASE TakesFinished(r, q)
  BY <1>3 DEF TakesFinished, Same
<1> QED
  BY <1>1, <1>2, <1>3 DEF Turns

LEMMA FreshStep ==
    ASSUME IInv, DeliveryTypeOK, FreshInv, [DeliveryNext]_<<vars, delivery>>
    PROVE  FreshInv'
<1>0. Onward /\ prepended \in [Op -> Nat] /\ ledger' \subseteq Op
  BY MonitorSteps, StepGoesOnward, DeliveryTypeStep DEF IInv, DeliveryTypeOK
<1>1. \A o \in Op : status'[o] = "new" => status[o] = "new"
  BY <1>0 DEF Onward
<1>2. CASE UNCHANGED delivery
  <2>1. \A o \in Op : Fresh(o)' => Fresh(o)
    BY <1>1, <1>2 DEF Fresh, delivery
  <2> QED
    BY <1>0, <1>1, <1>2, <2>1 DEF FreshInv, delivery
<1>3. ASSUME NEW c \in Call, NEW q, call' = [call EXCEPT ![c] = q], Turns(call[c], q)
      PROVE  FreshInv'
  <2> DEFINE r == call[c]
  <2>1. call'[c] = q /\ \A d \in Call \ {c} : call'[d] = call[d]
    BY <1>3 DEF DeliveryTypeOK
  <2>2. r.at \in {"take", "active"} => r.on \notin r.todo
    BY DEF FreshInv
  <2>3. Turns(r, q)
    BY <1>3
  <2>4. ASSUME NEW o \in Op
        PROVE  /\ MayTake(q, o) => MayTake(r, o) \/ (o \in ledger /\ UNCHANGED prepended)
               /\ q.at \in {"take", "active"} => q.on \notin q.todo
               /\ o \in ledger' => \/ o \in ledger
                                   \/ Starts(r, o) /\ ~Starts(q, o) /\ UNCHANGED prepended
               /\ Starts(q, o) => Starts(r, o) \/ (status[o] = "new" /\ status'[o] # "new")
               /\ \/ prepended'[o] = prepended[o]
                  \/ /\ prepended'[o] = prepended[o] + 1 /\ o \notin ledger'
                     /\ MayTake(r, o) /\ ~MayTake(q, o)
    <3> HIDE DEF r
    <3> QED
      BY <1>0, <2>2, <2>3, TurnTakes
  <2>5. ASSUME NEW o \in Op, NEW d \in Call, Starts(call'[d], o)
        PROVE  /\ status'[o] # "new"
               /\ \A e \in Call : Starts(call'[e], o) => d = e
               /\ Starts(call[d], o) \/ status[o] = "new"
    BY <1>0, <2>1, <2>4, <2>5 DEF FreshInv, Onward
  <2>6. ASSUME NEW o \in Op, Fresh(o)'
        PROVE  o \notin ledger' /\ prepended'[o] = 0 /\ \A d \in Call : ~MayTake(call'[d], o)
    <3>1. Fresh(o)
      BY <1>1, <2>5, <2>6 DEF Fresh
    <3>2. o \notin ledger /\ prepended[o] = 0 /\ \A d \in Call : ~MayTake(call[d], o)
      BY <3>1 DEF FreshInv
    <3>3. ~(Starts(r, o) /\ ~Starts(q, o))
      <4>1. CASE status'[o] = "new"
        BY <1>1, <4>1 DEF FreshInv
      <4>2. CASE \E d \in Call : Starts(call'[d], o)
        BY <2>1, <2>5, <4>2 DEF FreshInv
      <4> QED
        BY <2>6, <4>1, <4>2 DEF Fresh
    <3> QED
      BY <2>1, <2>4, <3>2, <3>3
  <2>7. \A o \in ledger' : prepended'[o] = 0
    <3> SUFFICES ASSUME NEW o \in ledger' PROVE prepended'[o] = 0
      OBVIOUS
    <3>1. o \in Op
      BY <1>0
    <3>2. o \in ledger => prepended[o] = 0
      BY DEF FreshInv
    <3>3. Starts(r, o) => prepended[o] = 0
      BY <3>1 DEF FreshInv, Fresh
    <3> QED
      BY <2>4, <3>1, <3>2, <3>3
  <2>8. \A d \in Call : call'[d].at \in {"take", "active"} => call'[d].on \notin call'[d].todo
    <3>1. q.at \in {"take", "active"} => q.on \notin q.todo
      BY <2>3 DEF Turns, Asks, Waits, TakesFinished
    <3> QED
      BY <2>1, <3>1 DEF FreshInv
  <2> QED
    BY <2>5, <2>6, <2>7, <2>8 DEF FreshInv
<1> QED
  BY <1>2, <1>3, EachTurn

LEMMA FreshInvariant == DeliverySpec => []FreshInv
<1>1. DeliveryInit => FreshInv
  BY DEF DeliveryInit, FreshInv, Idle, MayTake, Starts
<1> QED
  BY <1>1, FreshStep, MonitorInvariant, DeliveryTypeCorrect, PTL DEF DeliverySpec

\* SPEC R2.7.5, "nothing a model started is ever silently lost", for any number
\* of calls in flight: what leaves the ledger is in an answer that is on its way,
\* and stays there until the answer is out; but for the gap of take_finished,
\* which forgets what ended after it looked for it in the history.
NothingSettledIsLost ==
    [][/\ \A o \in ledger \ ledger' :
             \/ Answering(o)'
             \/ \E c \in Call : call[c].at = "active" /\ call[c].on = o /\ HasEnded(o)
       /\ \A o \in Op : Answering(o) => Answering(o)' \/ o \in shown']_<<vars, delivery>>

\* What leaves the ledger goes into an answer (take_finished, and the requests
\* that return or remove an operation), and no answer drops what it carries.
THEOREM SettledIsAnswered == DeliverySpec => NothingSettledIsLost
<1> DEFINE A == \A o \in ledger \ ledger' :
                   \/ Answering(o)'
                   \/ \E c \in Call : call[c].at = "active" /\ call[c].on = o /\ HasEnded(o)
           B == \A o \in Op : Answering(o) => Answering(o)' \/ o \in shown'
<1>1. IInv /\ DeliveryTypeOK /\ FreshInv /\ [DeliveryNext]_<<vars, delivery>>
         => [A /\ B]_<<vars, delivery>>
  <2> SUFFICES ASSUME IInv, DeliveryTypeOK, FreshInv, [DeliveryNext]_<<vars, delivery>>
               PROVE  A /\ B
    OBVIOUS
  <2>1. B
    BY CarriedKept
  <2>2. CASE UNCHANGED delivery
    BY <2>1, <2>2 DEF delivery
  <2>3. ASSUME NEW c \in Call, NEW q, call' = [call EXCEPT ![c] = q], Turns(call[c], q)
        PROVE  A
    <3>1. call'[c] = q
      BY <2>3 DEF DeliveryTypeOK
    <3>2. ASSUME NEW o \in ledger \ ledger'
          PROVE  \/ Carries(q, o)
                 \/ call[c].at = "active" /\ call[c].on = o /\ ~InMap(o)
      BY <2>3, <3>2 DEF Turns, Asks, Waits, TakesFinished, Same, Carries
    <3>3. ASSUME NEW o \in ledger, call[c].at = "active", call[c].on = o, ~InMap(o)
          PROVE  HasEnded(o)
      BY <3>3 DEF FreshInv, Fresh, MayTake, HasEnded, InMap, IInv, TypeOK, DeliveryTypeOK
    <3> QED
      BY <3>1, <3>2, <3>3 DEF Answering
  <2> QED
    BY <2>1, <2>2, <2>3, EachTurn
<1> QED
  BY <1>1, MonitorInvariant, DeliveryTypeCorrect, FreshInvariant, PTL
  DEF DeliverySpec, NothingSettledIsLost

\* What take_finished has handed out reached an answer, or is about to.
HandedOutArrives == \A o \in Op : prepended[o] > 0 => o \in shown \/ Answering(o)

\* prepend_to puts what take_finished drained in front of the answer, in every
\* branch of the call.
THEOREM HandedOutIsShown == DeliverySpec => []HandedOutArrives
<1>1. DeliveryInit => HandedOutArrives
  BY DEF DeliveryInit, HandedOutArrives
<1>2. IInv /\ DeliveryTypeOK /\ HandedOutArrives /\ [DeliveryNext]_<<vars, delivery>>
         => HandedOutArrives'
  <2> SUFFICES ASSUME IInv, DeliveryTypeOK, HandedOutArrives,
                      [DeliveryNext]_<<vars, delivery>>,
                      NEW o \in Op, prepended'[o] > 0
               PROVE  o \in shown' \/ Answering(o)'
    BY DEF HandedOutArrives
  <2>1. CASE prepended[o] > 0
    BY <2>1, CarriedKept DEF HandedOutArrives
  <2>2. CASE ~(prepended[o] > 0)
    <3>0. PICK c \in Call : \E q : call' = [call EXCEPT ![c] = q] /\ Turns(call[c], q)
      BY <2>2, EachTurn DEF delivery
    <3>1. PICK q : call' = [call EXCEPT ![c] = q] /\ Turns(call[c], q)
      BY <3>0
    <3>2. call'[c] = q /\ prepended' # prepended
      BY <2>2, <3>1 DEF DeliveryTypeOK
    <3>3. /\ call[c].at = "take" /\ q.at = "history" /\ q.carry = call[c].carry \cup {call[c].on}
          /\ prepended' = [prepended EXCEPT ![call[c].on] = @ + 1]
      BY <3>1, <3>2 DEF Turns, Asks, Waits, TakesFinished, Same
    <3>4. o = call[c].on
      BY <2>2, <3>3 DEF DeliveryTypeOK
    <3> QED
      BY <3>2, <3>3, <3>4 DEF Answering, Carries
  <2> QED
    BY <2>1, <2>2
<1> QED
  BY <1>1, <1>2, MonitorInvariant, DeliveryTypeCorrect, PTL DEF DeliverySpec

\* However many calls look for finished operations at once, each hands a result
\* out at most once, and a call that comes later finds it settled.
HandedOutOncePerCall == \A o \in Op : prepended[o] <= Cardinality(Call)

Takers(o) == {c \in Call : MayTake(call[c], o)}

CountInv == \A o \in Op : prepended[o] + Cardinality(Takers(o)) <= Cardinality(Call)

LEMMA CountStep ==
    ASSUME IsFiniteSet(Call), IInv, DeliveryTypeOK, FreshInv, CountInv,
           [DeliveryNext]_<<vars, delivery>>
    PROVE  CountInv'
<1>0. prepended \in [Op -> Nat] /\ Cardinality(Call) \in Nat
  BY FS_CardinalityType DEF DeliveryTypeOK
<1>1. CASE UNCHANGED delivery
  BY <1>1 DEF delivery, CountInv, Takers
<1>2. ASSUME NEW c \in Call, NEW q, call' = [call EXCEPT ![c] = q], Turns(call[c], q),
             NEW o \in Op
      PROVE  prepended'[o] + Cardinality(Takers(o)') <= Cardinality(Call)
  <2> DEFINE r == call[c]
             T == Takers(o)
             U == {d \in Call : MayTake(call'[d], o)}
  <2>1. call'[c] = q /\ \A d \in Call \ {c} : call'[d] = call[d]
    BY <1>2 DEF DeliveryTypeOK
  <2>2. /\ MayTake(q, o) => MayTake(r, o) \/ (o \in ledger /\ UNCHANGED prepended)
        /\ \/ prepended'[o] = prepended[o]
           \/ /\ prepended'[o] = prepended[o] + 1
              /\ MayTake(r, o) /\ ~MayTake(q, o)
    <3>1. r.at \in {"take", "active"} => r.on \notin r.todo
      BY DEF FreshInv
    <3>2. Turns(r, q)
      BY <1>2
    <3> HIDE DEF r
    <3> QED
      BY <1>0, <3>1, <3>2, TurnTakes
  <2>3. T \in SUBSET Call /\ U \in SUBSET Call
    BY DEF Takers
  <2>4. /\ IsFiniteSet(T) /\ Cardinality(T) \in Nat
        /\ IsFiniteSet(U) /\ Cardinality(U) \in Nat /\ Cardinality(U) <= Cardinality(Call)
    BY <2>3, FS_Subset, FS_CardinalityType
  <2>5. CASE prepended'[o] = prepended[o] /\ U \subseteq T
    <3>1. U \in SUBSET T
      BY <2>5
    <3>2. Cardinality(U) <= Cardinality(T)
      BY <2>4, <3>1, FS_Subset
    <3> QED
      BY <1>0, <2>4, <2>5, <3>2 DEF CountInv, Takers
  <2>6. CASE o \in ledger /\ UNCHANGED prepended
    BY <1>0, <2>4, <2>6 DEF FreshInv, Takers
  <2>7. CASE prepended'[o] = prepended[o] + 1 /\ MayTake(r, o) /\ ~MayTake(q, o)
    <3>1. c \in T /\ U \in SUBSET (T \ {c})
      BY <2>1, <2>7 DEF Takers
    <3>2. IsFiniteSet(T \ {c}) /\ Cardinality(T \ {c}) = Cardinality(T) - 1
      BY <2>4, <3>1, FS_RemoveElement
    <3>3. Cardinality(U) <= Cardinality(T) - 1
      BY <3>1, <3>2, FS_Subset
    <3> QED
      BY <1>0, <2>4, <2>7, <3>3 DEF CountInv, Takers
  <2>8. prepended'[o] = prepended[o] /\ ~(o \in ledger /\ UNCHANGED prepended) => U \subseteq T
    BY <2>1, <2>2 DEF Takers
  <2> QED
    BY <2>2, <2>5, <2>6, <2>7, <2>8
<1>3. ASSUME NEW c \in Call, NEW q, call' = [call EXCEPT ![c] = q], Turns(call[c], q)
      PROVE  CountInv'
  BY <1>2, <1>3 DEF CountInv
<1> QED
  BY <1>1, <1>3, EachTurn

\* Each call drains the ledger once (take_finished), so it hands an operation
\* out at most once.
THEOREM OncePerCall == ASSUME IsFiniteSet(Call) PROVE DeliverySpec => []HandedOutOncePerCall
<1>1. DeliveryInit => CountInv
  <2> SUFFICES ASSUME DeliveryInit, NEW o \in Op
               PROVE  prepended[o] + Cardinality(Takers(o)) <= Cardinality(Call)
    BY DEF CountInv
  <2>1. prepended[o] = 0 /\ Takers(o) = {}
    BY DEF DeliveryInit, Takers, MayTake, Idle
  <2> QED
    BY <2>1, FS_EmptySet, FS_CardinalityType
<1>2. IInv /\ DeliveryTypeOK /\ FreshInv /\ CountInv /\ [DeliveryNext]_<<vars, delivery>>
         => CountInv'
  BY CountStep
<1>3. DeliveryTypeOK /\ CountInv => HandedOutOncePerCall
  <2> SUFFICES ASSUME DeliveryTypeOK, CountInv, NEW o \in Op
               PROVE  prepended[o] <= Cardinality(Call)
    BY DEF HandedOutOncePerCall
  <2>1. Takers(o) \in SUBSET Call
    BY DEF Takers
  <2>2. Cardinality(Takers(o)) \in Nat /\ prepended[o] \in Nat /\ Cardinality(Call) \in Nat
    BY <2>1, FS_Subset, FS_CardinalityType DEF DeliveryTypeOK
  <2> QED
    BY <2>2 DEF CountInv
<1> QED
  BY <1>1, <1>2, <1>3, MonitorInvariant, DeliveryTypeCorrect, FreshInvariant, PTL
  DEF DeliverySpec
=============================================================================
