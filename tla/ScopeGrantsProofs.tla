------------------------- MODULE ScopeGrantsProofs -------------------------
(***************************************************************************)
(* Theorems about ScopeGrants, for any number of paths, questions and      *)
(* commands, any tiers and any prompt budget.                              *)
(***************************************************************************)
EXTENDS ScopeGrants, TLAPS

\* Where a question can be at each stage of the task that raised it.
Lifecycle(q) ==
    /\ task[q] = "idle" <=> key[q] = None
    /\ key[q] # None <=> q \in inFlight \cup resolved
    /\ ~(q \in inFlight /\ q \in resolved)
    /\ task[q] \in {"raised", "asking", "falling", "closing"} => q \in inFlight
    /\ task[q] = "applying" => q \in resolved
    /\ q \in chan \cup atHub \cup shown \cup answers => task[q] = "gone"
    /\ decided[q] # None => q \in resolved
    /\ apply[q] \in Applying => q \in resolved /\ decided[q] \in Yes
    /\ task[q] = "closing" => q \notin window

LifecycleInv == \A q \in Question : Lifecycle(q)

\* What an answer settles is in the memo, unless a human asked for it again.
Remembered ==
    \A r \in Question, k \in Key :
        decided[r] # None /\ Settles(k, r) => k \in dismissed \cup reraised

Typed == ScopesTypeOK /\ LifecycleInv

IInv ==
    /\ Typed
    /\ OneOpenQuestion /\ SomebodyHolds /\ WaitingIsShown /\ ClosedIsRefunded
    /\ LiveIsHeld /\ Remembered

-----------------------------------------------------------------------------
(* The data: keys, answers, and what they grant and dismiss.               *)

LEMMA KeysAndAnswers ==
    /\ None \notin Key /\ None \notin Answer /\ Deny \in Answer /\ Deny \notin Yes
    /\ \A k \in Key : k.path \in Path /\ k.access \in Access
    /\ \A p \in Path, x \in Access : [path |-> p, access |-> x] \in Key
    /\ \A a \in Answer : a = Deny \/ (a \in Yes /\ a.access \in Access /\ a.tier \in Tier)
BY GrantAssumption DEF Key, Answer, Yes, Deny, Access

LEMMA CoversKeys == \A k \in Key : Covered(k) \subseteq Key
BY DEF Covered

LEMMA DismissesKeys == \A k \in Key, a \in Answer : Dismissal(k, a) \subseteq Key
<1> SUFFICES ASSUME NEW k \in Key, NEW a \in Answer PROVE Dismissal(k, a) \subseteq Key
  OBVIOUS
<1>1. CASE a = Deny
  BY <1>1 DEF Dismissal
<1>2. CASE a # Deny /\ a.tier = "once"
  BY <1>2 DEF Dismissal
<1>3. CASE a # Deny /\ a.tier # "once"
  <2>1. [path |-> k.path, access |-> a.access] \in Key
    BY <1>3, KeysAndAnswers
  <2> QED
    BY <1>3, <2>1, CoversKeys DEF Dismissal
<1> QED
  BY <1>1, <1>2, <1>3

LEMMA FirstStages ==
    \A a \in Answer : /\ FirstStage(a) \in Applying \cup {"done"}
                      /\ FirstStage(a) \in Applying => a \in Yes
BY KeysAndAnswers DEF FirstStage, Applying

\* An answer that is being applied grants a key.
LEMMA GrantsKey ==
    ASSUME Typed, NEW q \in Question, apply[q] \in Applying
    PROVE  Granted(q) \in Key
<1>1. key[q] \in Key /\ decided[q] \in Yes
  BY DEF Typed, LifecycleInv, Lifecycle, ScopesTypeOK
<1> QED
  BY <1>1, KeysAndAnswers DEF Granted, Answer

-----------------------------------------------------------------------------
(* Types.                                                                  *)

LEMMA ApplicableKeys == \A r : Applicable(r) \subseteq Key
BY DEF Applicable

LEMMA ScopesTyped == Typed /\ [Next]_vars => LiveTypeOK'
<1> SUFFICES ASSUME Typed, [Next]_vars PROVE LiveTypeOK'
  OBVIOUS
<1>0. LiveTypeOK
  BY DEF Typed, ScopesTypeOK
<1>1. CASE UNCHANGED scopes
  BY <1>0, <1>1 DEF scopes, LiveTypeOK
<1>2. ASSUME NEW q \in Question, Save(q) PROVE LiveTypeOK'
  <2>1. Granted(q) \in Key
    BY <1>2, GrantsKey DEF Save, Applying
  <2> QED
    BY <1>0, <1>2, <2>1, KeysAndAnswers DEF Save, Persist, LiveTypeOK, Recorded
<1>3. ASSUME NEW q \in Question, MakeLive(q) PROVE LiveTypeOK'
  <2>1. Granted(q) \in Key
    BY <1>3, GrantsKey DEF MakeLive, Applying
  <2> QED
    BY <1>0, <1>3, <2>1 DEF MakeLive, AddLive, LiveTypeOK
<1>4. ASSUME NEW q \in Question, RecordOnce(q) PROVE LiveTypeOK'
  <2>1. Granted(q) \in Key
    BY <1>4, GrantsKey DEF RecordOnce, Applying
  <2> QED
    BY <1>0, <1>4, <2>1 DEF RecordOnce, PushOnce, LiveTypeOK
<1>5. ASSUME NEW c \in Command,
             BeginUnchanged(c) \/ Load(c) \/ LoadFails(c) \/ Spawn(c) \/ RunReader(c)
      PROVE  LiveTypeOK'
  BY <1>0, <1>5 DEF BeginUnchanged, Load, LoadFails, Spawn, RunReader, Goes, LiveTypeOK
<1>6. ASSUME NEW c \in Command, Swap(c) PROVE LiveTypeOK'
  BY <1>0, <1>6, ApplicableKeys DEF Swap, Goes, LiveTypeOK, NoRecords, Recorded
<1>7. ASSUME NEW c \in Command, StartWriter(c) PROVE LiveTypeOK'
  BY <1>0, <1>7 DEF StartWriter, Spend, Goes, LiveTypeOK
<1>8. CASE EditFile
  BY <1>0, <1>8, ScopeAssumption DEF EditFile, LiveTypeOK
<1>9. \/ UNCHANGED scopes
      \/ \E q \in Question : Save(q) \/ MakeLive(q) \/ RecordOnce(q)
      \/ CommandStep
  BY DEF Next, vars, Raise, StampExpires, LadderStep, AskClient, ClientAnswers, ClientDismisses,
         ClientFails, AskTui, FindNobody, FailClosed, ApplyStep, SaveFails, ReporterStep, Forward,
         ForwardFails, TakeAnswer, ReRaise, ReRaiseInFlight, HearViewers, Reconnect, HubStep,
         LinkDrops, HubAnswers, SessionStep, Rest
<1> QED
  BY <1>1, <1>2, <1>3, <1>4, <1>5, <1>6, <1>7, <1>8, <1>9 DEF CommandStep

-----------------------------------------------------------------------------
(* The actions by what they change.                                        *)

\* Every action that changes the coordinator.
CoordinatorStep ==
    \/ \E q \in Question, k \in Key : Raise(q, k) \/ ReRaise(q, k)
    \/ \E q \in Question, a \in Answer :
          \/ ClientAnswers(q, a)
          \/ TakeAnswer(q, a) /\ Takes(q)
    \/ \E q \in Question : StampExpires(q) \/ FindNobody(q) \/ FailClosed(q)
    \/ \E k \in Key : ReRaiseInFlight(k)

LEMMA CoordinatorSteps == [Next]_vars => CoordinatorStep \/ UNCHANGED coordinator
BY DEF Next, vars, CoordinatorStep, LadderStep, AskClient, ClientDismisses, ClientFails, AskTui,
       ApplyStep, Save, SaveFails, MakeLive, RecordOnce, ApplyRest, ReporterStep, Forward,
       ForwardFails, TakeAnswer, HearViewers, Reconnect, HubStep, LinkDrops, HubAnswers, SessionStep

\* The actions that leave the coordinator alone and change who holds a question.
HandOver ==
    \/ \E q \in Question :
          \/ AskClient(q) \/ ClientDismisses(q) \/ ClientFails(q) \/ AskTui(q)
          \/ Save(q) \/ SaveFails(q) \/ MakeLive(q) \/ RecordOnce(q)
          \/ Forward(q) \/ ForwardFails(q) \/ HubAnswers(q)
          \/ \E a \in Answer : TakeAnswer(q, a) /\ ~Takes(q)
    \/ LinkDrops \/ Reconnect \/ HearViewers

LEMMA Steps ==
    [Next]_vars => \/ CoordinatorStep \/ HandOver
                   \/ UNCHANGED <<coordinator, task, demoted, apply, reporter>>
BY DEF Next, vars, CoordinatorStep, HandOver, LadderStep, ApplyStep, ReporterStep, HubStep,
       SessionStep

LEMMA LifecycleStep == Typed /\ [Next]_vars => LifecycleInv'
<1> SUFFICES ASSUME Typed, [Next]_vars, NEW r \in Question PROVE Lifecycle(r)'
  BY DEF LifecycleInv
<1>0. Lifecycle(r) /\ ScopesTypeOK
  BY DEF Typed, LifecycleInv
<1>1. ASSUME NEW q \in Question, NEW k \in Key, Raise(q, k) PROVE Lifecycle(r)'
  BY <1>0, <1>1, KeysAndAnswers
  DEF Lifecycle, Raise, Begin, Enter, Goto, ScopesTypeOK, reporter
<1>2. ASSUME NEW q \in Question, NEW k \in Key, ReRaise(q, k) PROVE Lifecycle(r)'
  BY <1>0, <1>2, KeysAndAnswers
  DEF Lifecycle, ReRaise, Reopen, Enter, Goto, ScopesTypeOK, Rest, Waiting
<1>3. ASSUME NEW q \in Question, NEW a \in Answer, ClientAnswers(q, a) PROVE Lifecycle(r)'
  BY <1>0, <1>3, KeysAndAnswers, FirstStages
  DEF Lifecycle, ClientAnswers, Takes, Resolve, Goto, ScopesTypeOK, reporter, Applying
<1>4. ASSUME NEW q \in Question, NEW a \in Answer, TakeAnswer(q, a), Takes(q) PROVE Lifecycle(r)'
  BY <1>0, <1>4, KeysAndAnswers, FirstStages
  DEF Lifecycle, TakeAnswer, Takes, Resolve, ScopesTypeOK, Applying
<1>5. ASSUME NEW q \in Question, StampExpires(q) PROVE Lifecycle(r)'
  BY <1>0, <1>5 DEF Lifecycle, StampExpires, reporter
<1>6. ASSUME NEW q \in Question, FindNobody(q) PROVE Lifecycle(r)'
  BY <1>0, <1>6 DEF Lifecycle, FindNobody, Refund, Goto, ScopesTypeOK, reporter
<1>7. ASSUME NEW q \in Question, FailClosed(q) PROVE Lifecycle(r)'
  BY <1>0, <1>7 DEF Lifecycle, FailClosed, Cancel, Goto, ScopesTypeOK, reporter
<1>8. ASSUME NEW k \in Key, ReRaiseInFlight(k) PROVE Lifecycle(r)'
  BY <1>0, <1>8 DEF Lifecycle, ReRaiseInFlight, Reopen, Rest, reporter
<1>9. ASSUME NEW q \in Question, AskClient(q) \/ ClientDismisses(q) \/ ClientFails(q) \/ AskTui(q)
      PROVE  Lifecycle(r)'
  BY <1>0, <1>9
  DEF Lifecycle, AskClient, ClientDismisses, ClientFails, AskTui, Goto, ScopesTypeOK, coordinator, reporter
<1>10. ASSUME NEW q \in Question, Save(q) \/ SaveFails(q) PROVE Lifecycle(r)'
  BY <1>0, <1>10
  DEF Lifecycle, Save, SaveFails, Settle, ApplyRest, ScopesTypeOK, coordinator, Applying
<1>11. ASSUME NEW q \in Question, MakeLive(q) \/ RecordOnce(q) PROVE Lifecycle(r)'
  BY <1>0, <1>11
  DEF Lifecycle, MakeLive, RecordOnce, Settle, ApplyRest, ScopesTypeOK, coordinator, Applying
<1>12. ASSUME NEW q \in Question, Forward(q) \/ ForwardFails(q) \/ HubAnswers(q) PROVE Lifecycle(r)'
  BY <1>0, <1>12
  DEF Lifecycle, Forward, ForwardFails, HubAnswers, Down, Rest, Waiting, coordinator
<1>13. ASSUME NEW q \in Question, NEW a \in Answer, TakeAnswer(q, a), ~Takes(q) PROVE Lifecycle(r)'
  BY <1>0, <1>13 DEF Lifecycle, TakeAnswer, coordinator
<1>14. CASE LinkDrops \/ Reconnect \/ HearViewers
  BY <1>0, <1>14 DEF Lifecycle, LinkDrops, Down, Reconnect, HearViewers, Rest, Waiting, coordinator
<1>15. CASE UNCHANGED <<coordinator, task, demoted, apply, reporter>>
  BY <1>0, <1>15 DEF Lifecycle, coordinator, reporter
<1> QED
  BY <1>1, <1>2, <1>3, <1>4, <1>5, <1>6, <1>7, <1>8, <1>9, <1>10, <1>11, <1>12, <1>13, <1>14,
     <1>15, Steps DEF CoordinatorStep, HandOver

LEMMA GrantsTyped == Typed /\ [Next]_vars => ScopesTypeOK'
<1> SUFFICES ASSUME Typed, [Next]_vars PROVE ScopesTypeOK'
  OBVIOUS
<1>0. ScopesTypeOK /\ LiveTypeOK' /\ Applying = {"persist", "live", "push"}
  BY ScopesTyped DEF Typed, Applying
<1>1. ASSUME NEW q \in Question, NEW k \in Key, Raise(q, k) \/ ReRaise(q, k) PROVE ScopesTypeOK'
  BY <1>0, <1>1
  DEF ScopesTypeOK, Raise, Begin, ReRaise, Reopen, Enter, Goto, reporter, Rest, Waiting, Asking
<1>2. ASSUME NEW q \in Question, NEW a \in Answer, ClientAnswers(q, a) PROVE ScopesTypeOK'
  <2>1. key[q] \in Key
    BY <1>0, <1>2 DEF Typed, LifecycleInv, Lifecycle, ScopesTypeOK, ClientAnswers, Takes
  <2> QED
    BY <1>0, <1>2, <2>1, FirstStages, DismissesKeys
    DEF ScopesTypeOK, ClientAnswers, Resolve, Goto, reporter, Asking
<1>3. ASSUME NEW q \in Question, NEW a \in Answer, TakeAnswer(q, a), Takes(q) PROVE ScopesTypeOK'
  <2>1. key[q] \in Key
    BY <1>0, <1>3 DEF Typed, LifecycleInv, Lifecycle, ScopesTypeOK, Takes
  <2> QED
    BY <1>0, <1>3, <2>1, FirstStages, DismissesKeys DEF ScopesTypeOK, TakeAnswer, Resolve
<1>4. ASSUME NEW q \in Question, StampExpires(q) \/ FindNobody(q) \/ FailClosed(q) PROVE ScopesTypeOK'
  BY <1>0, <1>4
  DEF ScopesTypeOK, StampExpires, FindNobody, Refund, FailClosed, Cancel, Goto, reporter, Asking
<1>5. ASSUME NEW k \in Key, ReRaiseInFlight(k) PROVE ScopesTypeOK'
  BY <1>0, <1>5 DEF ScopesTypeOK, ReRaiseInFlight, Reopen, Rest, reporter
<1>6. ASSUME NEW q \in Question, AskClient(q) \/ ClientDismisses(q) \/ ClientFails(q) \/ AskTui(q)
      PROVE  ScopesTypeOK'
  BY <1>0, <1>6
  DEF ScopesTypeOK, AskClient, ClientDismisses, ClientFails, AskTui, Goto, coordinator, reporter, Asking
<1>7. ASSUME NEW q \in Question, Save(q) \/ SaveFails(q) \/ MakeLive(q) \/ RecordOnce(q)
      PROVE  ScopesTypeOK'
  BY <1>0, <1>7
  DEF ScopesTypeOK, Save, SaveFails, MakeLive, RecordOnce, Settle, ApplyRest, coordinator
<1>8. ASSUME NEW q \in Question, Forward(q) \/ ForwardFails(q) \/ HubAnswers(q) PROVE ScopesTypeOK'
  BY <1>0, <1>8 DEF ScopesTypeOK, Forward, ForwardFails, HubAnswers, Down, Rest, Waiting, coordinator
<1>9. ASSUME NEW q \in Question, NEW a \in Answer, TakeAnswer(q, a), ~Takes(q) PROVE ScopesTypeOK'
  BY <1>0, <1>9 DEF ScopesTypeOK, TakeAnswer, coordinator
<1>10. CASE LinkDrops \/ Reconnect \/ HearViewers
  BY <1>0, <1>10 DEF ScopesTypeOK, LinkDrops, Down, Reconnect, HearViewers, Rest, Waiting, coordinator
<1>11. CASE UNCHANGED <<coordinator, task, demoted, apply, reporter>>
  BY <1>0, <1>11 DEF ScopesTypeOK, coordinator, reporter
<1> QED
  BY <1>1, <1>2, <1>3, <1>4, <1>5, <1>6, <1>7, <1>8, <1>9, <1>10, <1>11, Steps
  DEF CoordinatorStep, HandOver

-----------------------------------------------------------------------------
(* The questions in flight.                                                *)

LEMMA OneOpenStep == IInv /\ [Next]_vars => OneOpenQuestion'
<1> SUFFICES ASSUME IInv, [Next]_vars PROVE OneOpenQuestion'
  OBVIOUS
<1>0. /\ OneOpenQuestion /\ ScopesTypeOK
      /\ \A q \in Question : Lifecycle(q)
  BY DEF IInv, Typed, LifecycleInv
<1>1. ASSUME NEW q \in Question, NEW k \in Key, key[q] = None, k \notin activeKeys, Enter(q, k)
      PROVE  OneOpenQuestion'
  <2>1. q \notin inFlight /\ key'[q] = k /\ \A r \in inFlight : key'[r] = key[r]
    BY <1>0, <1>1 DEF Lifecycle, Enter, ScopesTypeOK
  <2>2. activeKeys' = {key'[r] : r \in inFlight'}
    BY <1>0, <1>1, <2>1 DEF OneOpenQuestion, Enter
  <2>3. \A r \in inFlight : key[r] # k
    BY <1>0, <1>1 DEF OneOpenQuestion
  <2> QED
    BY <1>0, <1>1, <2>1, <2>2, <2>3 DEF OneOpenQuestion, Enter
<1>2. ASSUME NEW q \in inFlight, inFlight' = inFlight \ {q}, activeKeys' = activeKeys \ {key[q]},
             UNCHANGED key
      PROVE  OneOpenQuestion'
  BY <1>0, <1>2 DEF OneOpenQuestion
<1>3. CASE UNCHANGED <<key, inFlight, activeKeys>>
  BY <1>0, <1>3 DEF OneOpenQuestion
<1>4. ASSUME NEW q \in Question, NEW k \in Key, Raise(q, k) \/ ReRaise(q, k) PROVE OneOpenQuestion'
  BY <1>1, <1>4 DEF Raise, Begin, ReRaise, Free
<1>5. ASSUME NEW q \in Question, NEW a \in Answer, ClientAnswers(q, a) \/ (TakeAnswer(q, a) /\ Takes(q))
      PROVE  OneOpenQuestion'
  BY <1>2, <1>5 DEF ClientAnswers, TakeAnswer, Takes, Resolve
<1>6. ASSUME NEW q \in Question, FailClosed(q) PROVE OneOpenQuestion'
  BY <1>0, <1>2, <1>6 DEF FailClosed, Cancel, Lifecycle
<1>7. ASSUME NEW q \in Question, StampExpires(q) \/ FindNobody(q) PROVE OneOpenQuestion'
  BY <1>3, <1>7 DEF StampExpires, FindNobody, Refund
<1>8. ASSUME NEW k \in Key, ReRaiseInFlight(k) PROVE OneOpenQuestion'
  BY <1>3, <1>8 DEF ReRaiseInFlight
<1>9. CASE UNCHANGED coordinator
  BY <1>3, <1>9 DEF coordinator
<1> QED
  BY <1>4, <1>5, <1>6, <1>7, <1>8, <1>9, CoordinatorSteps DEF CoordinatorStep

LEMMA HoldsStep == IInv /\ [Next]_vars => SomebodyHolds'
<1> SUFFICES ASSUME IInv, [Next]_vars, NEW r \in inFlight'
             PROVE  (task[r] \in Asking \/ r \in chan \/ r \in atHub)'
  BY DEF SomebodyHolds
<1> DEFINE Holds == task[r] \in Asking \/ r \in chan \/ r \in atHub
<1>0. /\ ScopesTypeOK /\ r \in Question
      /\ r \in inFlight => Holds /\ task[r] # "applying"
      /\ \A q \in Question : Lifecycle(q)
  BY GrantsTyped DEF IInv, Typed, LifecycleInv, Lifecycle, SomebodyHolds, ScopesTypeOK
<1>1. ASSUME NEW q \in Question, NEW k \in Key, Raise(q, k) \/ ReRaise(q, k) PROVE Holds'
  BY <1>0, <1>1
  DEF Raise, Begin, ReRaise, Enter, Goto, reporter, Rest, Waiting, Asking, ScopesTypeOK
<1>2. ASSUME NEW q \in Question, NEW a \in Answer, ClientAnswers(q, a) \/ (TakeAnswer(q, a) /\ Takes(q))
      PROVE  Holds'
  BY <1>0, <1>2 DEF ClientAnswers, TakeAnswer, Takes, Resolve, Goto, reporter, ScopesTypeOK
<1>3. ASSUME NEW q \in Question, StampExpires(q) \/ FindNobody(q) \/ FailClosed(q) PROVE Holds'
  BY <1>0, <1>3
  DEF StampExpires, FindNobody, Refund, FailClosed, Cancel, Goto, reporter, Asking, ScopesTypeOK
<1>4. ASSUME NEW k \in Key, ReRaiseInFlight(k) PROVE Holds'
  BY <1>0, <1>4 DEF ReRaiseInFlight, Rest, reporter
<1>5. ASSUME NEW q \in Question, AskClient(q) \/ ClientDismisses(q) \/ ClientFails(q) \/ AskTui(q)
      PROVE  Holds'
  BY <1>0, <1>5
  DEF AskClient, ClientDismisses, ClientFails, AskTui, Goto, coordinator, reporter, Asking, ScopesTypeOK
<1>6. ASSUME NEW q \in Question, Save(q) \/ SaveFails(q) \/ MakeLive(q) \/ RecordOnce(q) PROVE Holds'
  BY <1>0, <1>6
  DEF Save, SaveFails, MakeLive, RecordOnce, Settle, ApplyRest, coordinator, ScopesTypeOK
<1>7. ASSUME NEW q \in Question, Forward(q) \/ ForwardFails(q) \/ HubAnswers(q) PROVE Holds'
  BY <1>0, <1>7 DEF Forward, ForwardFails, HubAnswers, Down, Rest, Waiting, coordinator
<1>8. ASSUME NEW q \in Question, NEW a \in Answer, TakeAnswer(q, a), ~Takes(q) PROVE Holds'
  BY <1>0, <1>8 DEF TakeAnswer, coordinator
<1>9. CASE LinkDrops \/ Reconnect \/ HearViewers
  BY <1>0, <1>9 DEF LinkDrops, Down, Reconnect, HearViewers, Rest, Waiting, coordinator
<1>10. CASE UNCHANGED <<coordinator, task, demoted, apply, reporter>>
  BY <1>0, <1>10 DEF coordinator, reporter
<1> QED
  BY <1>1, <1>2, <1>3, <1>4, <1>5, <1>6, <1>7, <1>8, <1>9, <1>10, Steps DEF CoordinatorStep, HandOver

LEMMA ShownStep == IInv /\ [Next]_vars => WaitingIsShown'
<1> SUFFICES ASSUME IInv, [Next]_vars, link', NEW r \in Waiting' PROVE (r \in shown \/ r \in answers)'
  BY DEF WaitingIsShown
<1> DEFINE Shown == r \in shown \/ r \in answers
<1>0. /\ ScopesTypeOK /\ r \in Question /\ r \in inFlight' /\ r \in atHub'
      /\ link /\ r \in inFlight /\ r \in atHub => Shown
      /\ \A q \in Question : Lifecycle(q)
  BY GrantsTyped DEF IInv, Typed, LifecycleInv, WaitingIsShown, Waiting, ScopesTypeOK
<1>1. ASSUME NEW q \in Question, NEW k \in Key, Raise(q, k) \/ ReRaise(q, k) PROVE Shown'
  BY <1>0, <1>1 DEF Raise, Begin, ReRaise, Enter, reporter, Rest, Waiting, Lifecycle
<1>2. ASSUME NEW q \in Question, NEW a \in Answer, ClientAnswers(q, a) \/ (TakeAnswer(q, a) /\ Takes(q))
      PROVE  Shown'
  BY <1>0, <1>2 DEF ClientAnswers, TakeAnswer, Takes, Resolve, reporter
<1>3. ASSUME NEW q \in Question, StampExpires(q) \/ FindNobody(q) \/ FailClosed(q) PROVE Shown'
  BY <1>0, <1>3 DEF StampExpires, FindNobody, Refund, FailClosed, Cancel, reporter
<1>4. ASSUME NEW k \in Key, ReRaiseInFlight(k) PROVE Shown'
  BY <1>0, <1>4 DEF ReRaiseInFlight, reporter
<1>5. ASSUME NEW q \in Question, AskClient(q) \/ ClientDismisses(q) \/ ClientFails(q) \/ AskTui(q)
      PROVE  Shown'
  BY <1>0, <1>5 DEF AskClient, ClientDismisses, ClientFails, AskTui, coordinator, reporter
<1>6. ASSUME NEW q \in Question, Save(q) \/ SaveFails(q) \/ MakeLive(q) \/ RecordOnce(q) PROVE Shown'
  BY <1>0, <1>6
  DEF Save, SaveFails, MakeLive, RecordOnce, Settle, ApplyRest, coordinator, Lifecycle, Applying
<1>7. ASSUME NEW q \in Question, Forward(q) \/ ForwardFails(q) \/ HubAnswers(q) PROVE Shown'
  BY <1>0, <1>7 DEF Forward, ForwardFails, HubAnswers, Down, Rest, Waiting, coordinator
<1>8. ASSUME NEW q \in Question, NEW a \in Answer, TakeAnswer(q, a), ~Takes(q) PROVE Shown'
  BY <1>0, <1>8 DEF TakeAnswer, Takes, coordinator, Lifecycle
<1>9. CASE LinkDrops \/ Reconnect \/ HearViewers
  BY <1>0, <1>9 DEF LinkDrops, Down, Reconnect, HearViewers, Rest, Waiting, coordinator
<1>10. CASE UNCHANGED <<coordinator, task, demoted, apply, reporter>>
  BY <1>0, <1>10 DEF coordinator, reporter
<1> QED
  BY <1>1, <1>2, <1>3, <1>4, <1>5, <1>6, <1>7, <1>8, <1>9, <1>10, Steps DEF CoordinatorStep, HandOver

LEMMA RefundedStep == IInv /\ [Next]_vars => ClosedIsRefunded'
<1> SUFFICES ASSUME IInv, [Next]_vars, NEW r \in resolved', decided'[r] = None PROVE r \notin window'
  BY DEF ClosedIsRefunded
<1>0. /\ ScopesTypeOK /\ r \in Question
      /\ r \in resolved /\ decided[r] = None => r \notin window
      /\ \A q \in Question : Lifecycle(q)
  BY GrantsTyped DEF IInv, Typed, LifecycleInv, ClosedIsRefunded, ScopesTypeOK
<1>1. ASSUME NEW q \in Question, NEW k \in Key, Raise(q, k) \/ ReRaise(q, k) PROVE r \notin window'
  BY <1>0, <1>1 DEF Raise, Begin, ReRaise, Reopen, Enter, Lifecycle
<1>2. ASSUME NEW q \in Question, NEW a \in Answer, ClientAnswers(q, a) \/ (TakeAnswer(q, a) /\ Takes(q))
      PROVE  r \notin window'
  BY <1>0, <1>2, KeysAndAnswers DEF ClientAnswers, TakeAnswer, Takes, Resolve, ScopesTypeOK
<1>3. ASSUME NEW q \in Question, StampExpires(q) \/ FindNobody(q) \/ FailClosed(q) PROVE r \notin window'
  BY <1>0, <1>3 DEF StampExpires, FindNobody, Refund, FailClosed, Cancel, Lifecycle
<1>4. ASSUME NEW k \in Key, ReRaiseInFlight(k) PROVE r \notin window'
  BY <1>0, <1>4 DEF ReRaiseInFlight
<1>5. CASE UNCHANGED coordinator
  BY <1>0, <1>5 DEF coordinator
<1> QED
  BY <1>1, <1>2, <1>3, <1>4, <1>5, CoordinatorSteps DEF CoordinatorStep

\* The first answer counts: the step.
LEMMA AnswerStep ==
    IInv /\ [Next]_vars => \A q \in resolved : decided'[q] = decided[q] /\ q \notin inFlight'
<1> SUFFICES ASSUME IInv, [Next]_vars, NEW r \in resolved
             PROVE  decided'[r] = decided[r] /\ r \notin inFlight'
  OBVIOUS
<1>0. /\ ScopesTypeOK /\ r \in Question /\ r \notin inFlight
      /\ \A q \in Question : Lifecycle(q)
  BY DEF IInv, Typed, LifecycleInv, Lifecycle, ScopesTypeOK
<1>1. ASSUME NEW q \in Question, NEW k \in Key, Raise(q, k) \/ ReRaise(q, k)
      PROVE  decided'[r] = decided[r] /\ r \notin inFlight'
  BY <1>0, <1>1 DEF Raise, Begin, ReRaise, Enter, Lifecycle
<1>2. ASSUME NEW q \in Question, NEW a \in Answer, ClientAnswers(q, a) \/ (TakeAnswer(q, a) /\ Takes(q))
      PROVE  decided'[r] = decided[r] /\ r \notin inFlight'
  BY <1>0, <1>2 DEF ClientAnswers, TakeAnswer, Takes, Resolve, ScopesTypeOK
<1>3. ASSUME NEW q \in Question, StampExpires(q) \/ FindNobody(q) \/ FailClosed(q)
      PROVE  decided'[r] = decided[r] /\ r \notin inFlight'
  BY <1>0, <1>3 DEF StampExpires, FindNobody, Refund, FailClosed, Cancel
<1>4. ASSUME NEW k \in Key, ReRaiseInFlight(k)
      PROVE  decided'[r] = decided[r] /\ r \notin inFlight'
  BY <1>0, <1>4 DEF ReRaiseInFlight
<1>5. CASE UNCHANGED coordinator
  BY <1>0, <1>5 DEF coordinator
<1> QED
  BY <1>1, <1>2, <1>3, <1>4, <1>5, CoordinatorSteps DEF CoordinatorStep

-----------------------------------------------------------------------------
(* The memo of what was answered.                                          *)

LEMMA Dismissals ==
    \A k, a : /\ a = Deny => Dismissal(k, a) = {k}
              /\ a # Deny /\ a.tier # "once"
                    => Dismissal(k, a) = Covered([path |-> k.path, access |-> a.access])
<1> SUFFICES ASSUME NEW k, NEW a
             PROVE  /\ a = Deny => Dismissal(k, a) = {k}
                    /\ a # Deny /\ a.tier # "once"
                          => Dismissal(k, a) = Covered([path |-> k.path, access |-> a.access])
  OBVIOUS
<1>1. CASE a = Deny
  <2>1. a.tier # "once"
    BY <1>1 DEF Deny
  <2> QED
    BY <1>1, <2>1 DEF Dismissal
<1>2. CASE a # Deny /\ a.tier # "once"
  BY <1>2 DEF Dismissal
<1> QED
  BY <1>1, <1>2

LEMMA RememberedStep == IInv /\ [Next]_vars => Remembered'
<1> SUFFICES ASSUME IInv, [Next]_vars, NEW r \in Question, NEW k \in Key,
                    decided'[r] # None, Settles(k, r)'
             PROVE  k \in dismissed' \cup reraised'
  BY DEF Remembered
<1>0. /\ ScopesTypeOK /\ Remembered
      /\ \A q \in Question : Lifecycle(q)
  BY DEF IInv, Typed, LifecycleInv
<1>1. ASSUME decided'[r] = decided[r], key'[r] = key[r],
             dismissed \cup reraised \subseteq dismissed' \cup reraised'
      PROVE  k \in dismissed' \cup reraised'
  <2>1. Settles(k, r)
    BY <1>1 DEF Settles, Granted
  <2> QED
    BY <1>0, <1>1, <2>1 DEF Remembered
<1>2. ASSUME NEW q \in Question, NEW j \in Key, Raise(q, j) \/ ReRaise(q, j)
      PROVE  k \in dismissed' \cup reraised'
  <2>1. decided'[r] = decided[r] /\ key[q] = None /\ q # r
    BY <1>0, <1>2 DEF Raise, Begin, ReRaise, Lifecycle
  <2> QED
    BY <1>0, <1>1, <1>2, <2>1 DEF Raise, Begin, ReRaise, Reopen, Enter, ScopesTypeOK
<1>3. ASSUME NEW q \in Question, NEW a \in Answer, Takes(q), Resolve(q, a)
      PROVE  k \in dismissed' \cup reraised'
  <2>1. CASE q = r
    <3>1. key[r] \in Key /\ key'[r] = key[r] /\ decided'[r] = a /\ dismissed' = dismissed \cup Dismissal(key[r], a)
      BY <1>0, <1>3, <2>1 DEF Takes, Resolve, Lifecycle, ScopesTypeOK
    <3>2. k \in Dismissal(key[r], a)
      BY <3>1, Dismissals DEF Settles, Granted
    <3> QED
      BY <3>1, <3>2
  <2>2. CASE q # r
    BY <1>0, <1>1, <1>3, <2>2 DEF Resolve, ScopesTypeOK
  <2> QED
    BY <2>1, <2>2
<1>4. ASSUME NEW q \in Question, NEW a \in Answer, ClientAnswers(q, a) \/ (TakeAnswer(q, a) /\ Takes(q))
      PROVE  k \in dismissed' \cup reraised'
  BY <1>3, <1>4 DEF ClientAnswers, TakeAnswer
<1>5. ASSUME NEW q \in Question, StampExpires(q) \/ FindNobody(q) \/ FailClosed(q)
      PROVE  k \in dismissed' \cup reraised'
  BY <1>1, <1>5 DEF StampExpires, FindNobody, Refund, FailClosed, Cancel
<1>6. ASSUME NEW j \in Key, ReRaiseInFlight(j) PROVE k \in dismissed' \cup reraised'
  BY <1>1, <1>6 DEF ReRaiseInFlight, Reopen
<1>7. CASE UNCHANGED coordinator
  BY <1>1, <1>7 DEF coordinator
<1> QED
  BY <1>2, <1>4, <1>5, <1>6, <1>7, CoordinatorSteps DEF CoordinatorStep

\* Only Raise spends the budget, on a key that is not in the memo.
LEMMA AskStep ==
    IInv /\ [Next]_vars =>
        \A q, r \in Question :
          /\ q \in window' \ window
          /\ decided[r] # None /\ key'[q] \notin reraised
          => ~Settles(key'[q], r)
<1> SUFFICES ASSUME IInv, [Next]_vars, NEW q \in Question, NEW r \in Question,
                    q \in window' \ window, decided[r] # None, key'[q] \notin reraised
             PROVE  ~Settles(key'[q], r)
  OBVIOUS
<1>0. ScopesTypeOK /\ Remembered
  BY DEF IInv, Typed
<1>1. PICK k \in Key : Raise(q, k)
  BY CoordinatorSteps
  DEF CoordinatorStep, Raise, Begin, ReRaise, ClientAnswers, TakeAnswer, Resolve, StampExpires,
      FindNobody, Refund, FailClosed, Cancel, ReRaiseInFlight, coordinator
<1>2. key'[q] = k /\ k \notin dismissed
  BY <1>0, <1>1 DEF Raise, Begin, Enter, ScopesTypeOK
<1> QED
  BY <1>0, <1>2 DEF Remembered

-----------------------------------------------------------------------------
(* What is live.                                                           *)

\* Nothing that holds a scope changes but by these.
LEMMA HolderSteps ==
    [Next]_vars =>
        \/ \E q \in Question, k \in Key : Raise(q, k) \/ ReRaise(q, k)
        \/ \E q \in Question, a \in Answer :
              ClientAnswers(q, a) \/ (TakeAnswer(q, a) /\ Takes(q))
        \/ \E q \in Question : Save(q) \/ SaveFails(q) \/ MakeLive(q) \/ RecordOnce(q)
        \/ \E c \in Command : (Swap(c) \/ StartWriter(c)) /\ SessionStep
        \/ UNCHANGED <<live, once, saved, key, decided, apply>>
BY DEF Next, vars, scopes, coordinator, reporter, Rest, LadderStep, AskClient, ClientDismisses,
       ClientFails, AskTui, FindNobody, Refund, FailClosed, Cancel, ApplyStep, ReporterStep, Forward,
       ForwardFails, TakeAnswer, ReRaiseInFlight, HearViewers, Reconnect, HubStep, LinkDrops,
       HubAnswers, SessionStep, StampExpires, CommandStep, BeginUnchanged, Load, LoadFails, Spawn,
       RunReader, EditFile

\* q's answer holds k.
AnswerHolds(q, k) ==
    /\ decided[q] \notin {None, Deny} /\ Granted(q) = k
    /\ decided[q].tier = "once" => apply[q] = "push"

LEMMA HeldStep == IInv /\ [Next]_vars => LiveIsHeld'
<1> SUFFICES ASSUME IInv, [Next]_vars, NEW k \in live' PROVE Held(k)'
  BY DEF LiveIsHeld
<1>0. /\ ScopesTypeOK /\ LiveTypeOK /\ k \in Key
      /\ k \in live => Held(k)
      /\ \A q \in Question : Lifecycle(q)
  BY GrantsTyped DEF IInv, Typed, LifecycleInv, LiveIsHeld, ScopesTypeOK, LiveTypeOK
<1>1. Held(k) <=> k \in saved \/ (\E o \in once : o.key = k) \/ \E q \in Question : AnswerHolds(q, k)
  BY DEF Held, AnswerHolds
<1>2. Held(k)' <=> k \in saved' \/ (\E o \in once' : o.key = k) \/ \E q \in Question : AnswerHolds(q, k)'
  BY DEF Held, AnswerHolds
<1>3. ASSUME NEW q \in Question, key'[q] = key[q], decided'[q] = decided[q],
             apply'[q] = apply[q] \/ apply[q] # "push"
      PROVE  AnswerHolds(q, k) => AnswerHolds(q, k)'
  BY <1>3 DEF AnswerHolds, Granted
<1>4. ASSUME live' = live, saved' = saved, once' = once,
             \A q \in Question : AnswerHolds(q, k) => AnswerHolds(q, k)'
      PROVE  Held(k)'
  BY <1>0, <1>1, <1>2, <1>4
<1>5. ASSUME NEW q \in Question, NEW j \in Key, Raise(q, j) \/ ReRaise(q, j) PROVE Held(k)'
  <2>1. live' = live /\ saved' = saved /\ once' = once /\ decided' = decided /\ apply' = apply
    BY <1>5 DEF Raise, ReRaise, Begin, Rest, scopes
  <2>2. key[q] = None /\ decided[q] = None
    BY <1>0, <1>5 DEF Raise, ReRaise, Begin, Lifecycle
  <2>3. \A r \in Question \ {q} : key'[r] = key[r]
    BY <1>0, <1>5 DEF Raise, ReRaise, Begin, Enter, ScopesTypeOK
  <2>4. ~AnswerHolds(q, k)
    BY <2>2 DEF AnswerHolds
  <2> QED
    BY <1>3, <1>4, <2>1, <2>3, <2>4
<1>6. ASSUME NEW q \in Question, NEW a \in Answer, ClientAnswers(q, a) \/ (TakeAnswer(q, a) /\ Takes(q))
      PROVE  Held(k)'
  <2>1. /\ live' = live /\ saved' = saved /\ once' = once /\ key' = key
        /\ \A r \in Question \ {q} : decided'[r] = decided[r] /\ apply'[r] = apply[r]
    BY <1>0, <1>6 DEF ClientAnswers, TakeAnswer, Resolve, scopes, ScopesTypeOK
  <2>2. decided[q] = None
    BY <1>0, <1>6 DEF ClientAnswers, Takes, Lifecycle
  <2>3. ~AnswerHolds(q, k)
    BY <2>2 DEF AnswerHolds
  <2> QED
    BY <1>3, <1>4, <2>1, <2>3
<1>7. ASSUME NEW q \in Question, Save(q) \/ SaveFails(q) PROVE Held(k)'
  <2>1. /\ live' = live /\ saved' = saved /\ once' = once /\ key' = key /\ decided' = decided
        /\ \A r \in Question : apply'[r] = apply[r] \/ apply[r] # "push"
    BY <1>0, <1>7 DEF Save, SaveFails, Persist, Settle, ApplyRest, scopes, coordinator, ScopesTypeOK
  <2> QED
    BY <1>3, <1>4, <2>1
<1>8. ASSUME NEW q \in Question, MakeLive(q) PROVE Held(k)'
  <2>1. /\ live' = live \cup {Granted(q)} /\ saved' = saved /\ once' = once
        /\ key' = key /\ decided' = decided
        /\ \A r \in Question : apply'[r] = apply[r] \/ apply[r] # "push"
        /\ decided[q].tier = "once" => apply'[q] = "push"
    BY <1>0, <1>8 DEF MakeLive, AddLive, Settle, ApplyRest, coordinator, ScopesTypeOK
  <2>2. decided[q] \notin {None, Deny}
    BY <1>0, <1>8, KeysAndAnswers DEF MakeLive, Lifecycle, Applying, Answer
  <2>3. CASE k \in live
    BY <1>0, <1>1, <1>2, <1>3, <2>1, <2>3
  <2>4. CASE k = Granted(q)
    <3>1. AnswerHolds(q, k)'
      BY <2>1, <2>2, <2>4 DEF AnswerHolds, Granted
    <3> QED
      BY <1>2, <3>1
  <2> QED
    BY <2>1, <2>3, <2>4
<1>9. ASSUME NEW q \in Question, RecordOnce(q) PROVE Held(k)'
  <2>1. /\ live' = live /\ saved' = saved /\ once' = once \cup {[key |-> Granted(q), by |-> None]}
        /\ key' = key /\ decided' = decided
        /\ \A r \in Question \ {q} : apply'[r] = apply[r]
    BY <1>0, <1>9 DEF RecordOnce, PushOnce, Settle, ApplyRest, coordinator, ScopesTypeOK
  <2>2. ASSUME AnswerHolds(q, k) PROVE \E o \in once' : o.key = k
    <3> DEFINE record == [key |-> Granted(q), by |-> None]
    <3>1. record \in once' /\ record.key = k
      BY <2>1, <2>2 DEF AnswerHolds
    <3> QED
      BY <3>1
  <2>3. \A r \in Question \ {q} : AnswerHolds(r, k) => AnswerHolds(r, k)'
    BY <1>3, <2>1
  <2>4. (\E o \in once : o.key = k) => \E o \in once' : o.key = k
    BY <2>1
  <2>5. Held(k)
    BY <1>0, <2>1
  <2>6. CASE k \in saved
    BY <1>2, <2>1, <2>6
  <2>7. ASSUME NEW r \in Question, AnswerHolds(r, k) PROVE Held(k)'
    BY <1>2, <2>2, <2>3, <2>7
  <2> QED
    BY <1>1, <1>2, <2>4, <2>5, <2>6, <2>7
<1>10. ASSUME NEW c \in Command, Swap(c) \/ StartWriter(c), SessionStep PROVE Held(k)'
  <2>1. key' = key /\ decided' = decided /\ apply' = apply
    BY <1>10 DEF SessionStep, coordinator
  <2>2. CASE Swap(c)
    <3>1. k \notin saved' => k \in live /\ k \notin saved /\ once' = once
      BY <2>2 DEF Swap
    <3> QED
      BY <1>0, <1>1, <1>2, <1>3, <2>1, <3>1
  <2>3. CASE StartWriter(c)
    <3>1. saved' = saved /\ k \in live /\ (k \in InUse => k \in saved)
      BY <2>3 DEF StartWriter, Spend
    <3>2. ASSUME NEW o \in once, o.key = k PROVE k \in saved \/ \E n \in once' : n.key = k
      <4>1. CASE o.by = None
        <5>1. [key |-> o.key, by |-> c] \in once'
          BY <2>3, <4>1 DEF StartWriter, Spend
        <5> QED
          BY <3>2, <5>1
      <4>2. CASE o.by # None
        BY <3>1, <3>2, <4>2 DEF InUse
      <4> QED
        BY <4>1, <4>2
    <3> QED
      BY <1>0, <1>1, <1>2, <1>3, <2>1, <3>1, <3>2
  <2> QED
    BY <1>10, <2>2, <2>3
<1>11. CASE UNCHANGED <<live, once, saved, key, decided, apply>>
  BY <1>3, <1>4, <1>11
<1> QED
  BY <1>5, <1>6, <1>7, <1>8, <1>9, <1>10, <1>11, HolderSteps

-----------------------------------------------------------------------------
(* The theorems.                                                           *)

LEMMA InitInv == Init => IInv
<1> SUFFICES ASSUME Init PROVE IInv
  OBVIOUS
<1>1. ScopesTypeOK
  BY DEF Init, LiveInit, NoRecords, ScopesTypeOK, LiveTypeOK, Recorded
<1>2. LifecycleInv
  BY DEF Init, LifecycleInv, Lifecycle, Applying
<1>3. OneOpenQuestion /\ SomebodyHolds /\ WaitingIsShown /\ ClosedIsRefunded
  BY DEF Init, OneOpenQuestion, SomebodyHolds, WaitingIsShown, Waiting, ClosedIsRefunded
<1>4. LiveIsHeld /\ Remembered
  BY DEF Init, LiveInit, LiveIsHeld, Remembered
<1> QED
  BY <1>1, <1>2, <1>3, <1>4 DEF IInv, Typed

LEMMA StepInv == IInv /\ [Next]_vars => IInv'
BY GrantsTyped, LifecycleStep, OneOpenStep, HoldsStep, ShownStep, RefundedStep, HeldStep,
   RememberedStep
DEF IInv, Typed

LEMMA Invariant == Spec => []IInv
BY InitInv, StepInv, PTL DEF Spec

\* Every variable of the coordinator, the broker, the reporter and the live
\* scopes keeps its type.
THEOREM TypeCorrect == Spec => []ScopesTypeOK
<1>1. IInv => ScopesTypeOK
  BY DEF IInv, Typed
<1> QED
  BY <1>1, Invariant, PTL

\* The dedup gate (Inner.active_keys) holds the keys of the questions in flight,
\* each of them once.
THEOREM GateIsTrue == Spec => []OneOpenQuestion
<1>1. IInv => OneOpenQuestion
  BY DEF IInv
<1> QED
  BY <1>1, Invariant, PTL

\* No question in flight is lost between the ladder's task, the reporter's
\* channel, what the reporter has noted as asked and what the hub shows, whatever
\* connections were lost before.
THEOREM NothingIsLost == Spec => []NoQuestionIsLost
<1>1. IInv => NoQuestionIsLost
  BY DEF IInv, NoQuestionIsLost
<1> QED
  BY <1>1, Invariant, PTL

\* cancel_unseen leaves nothing of its question in the prompt budget.
THEOREM BudgetIsRefunded == Spec => []ClosedIsRefunded
<1>1. IInv => ClosedIsRefunded
  BY DEF IInv
<1> QED
  BY <1>1, Invariant, PTL

\* Whatever the sandbox has live is held by the ledger, by an answer or by a
\* once-grant's record, whatever commands start in between.
THEOREM NothingLiveIsOrphaned == Spec => []LiveIsHeld
<1>1. IInv => LiveIsHeld
  BY DEF IInv
<1> QED
  BY <1>1, Invariant, PTL

\* resolve: of two answers the first is the decision, for good.
THEOREM FirstAnswer == Spec => FirstAnswerCounts
<1>1. IInv /\ [Next]_vars =>
        [\A q \in resolved : decided'[q] = decided[q] /\ q \notin inFlight']_vars
  BY AnswerStep
<1> QED
  BY <1>1, Invariant, PTL DEF Spec, FirstAnswerCounts

\* begin asks nothing a human has settled, unless a human asked for it again.
THEOREM AskedOnce == Spec => NotAskedAgain
<1>1. IInv /\ [Next]_vars =>
        [\A q, r \in Question :
          /\ q \in window' \ window
          /\ decided[r] # None /\ key'[q] \notin reraised
          => ~Settles(key'[q], r)]_vars
  BY AskStep
<1> QED
  BY <1>1, Invariant, PTL DEF Spec, NotAskedAgain
=============================================================================
