--------------------------- MODULE AsyncRunProofs ---------------------------
(***************************************************************************)
(* Proofs about AsyncRun for any number of operations and processes, nested*)
(* to any depth, any of which runs in a pseudo-terminal, is gated, leaves  *)
(* descendants behind, is interrupted, aborted or dies with the command    *)
(* its ahma was started by.                                                *)
(***************************************************************************)
EXTENDS AsyncRun, LineLemmas, WellFoundedInduction

InLine(o) == Lease!InSomeLine(o)

\* Stages of a task, in the order it passes them.
BeforeTree == {"none", "added", "begun", "looking", "queueing", "leased", "started",
               "atGate", "atLock", "ready"}
Leased     == {"leased", "started", "atGate", "atLock", "ready",
               "running", "draining", "killing"}
WithTree   == {"running", "draining", "killing"}
WithPermit == {"atLock", "ready", "running", "draining", "killing",
               "releasing", "reporting", "closing", "dropped"}
WithLock   == WithPermit \ {"atLock"}
Succeeded  == {"Completed", "Failed"}

\* Lines hold operations, each of them once.
LinesOK ==
    /\ line \in [Proc -> Seq(Op)] /\ holders \subseteq Op
    /\ \A p \in Proc : \A j, k \in DOMAIN line[p] : line[p][j] = line[p][k] => j = k

\* Who is in line has called and has not ended, and is out of line before its
\* result is published, a pseudo-terminal's excepted.
LineInv ==
    \A o \in Op :
        /\ InLine(o) => /\ task[o] \notin {"none", "closing", "ended"}
                        /\ o \in Pty => task[o] \notin {"added", "begun"}
                        /\ o \notin Pty => task[o] # "reporting"
        /\ task[o] = "begun" => o \in Pty

\* A task past its turn in line has the lease until it gives it back, or until
\* its soft hold is over.
HolderInv == \A o \in Op \ Unqueued : task[o] \in Leased => o \in holders \cup handedOn

\* Whether a command runs agrees with how far its task is, nothing runs in an
\* ahma that has not been started, and only tasks are booked.
TreeInv ==
    \A o \in Op :
        /\ task[o] \in BeforeTree => tree[o] = "none"
        /\ task[o] \in BeforeTree \cup {"running", "draining"} => verdict[o] = None
        /\ tree[o] = "leader" /\ Alive(Home[o]) =>
              task[o] \in WithTree \/ o \in Pty \cap drained
        /\ task[o] = "draining" /\ tree[o] = "leader" => o \in Pty
        /\ Parent[Home[o]] # None /\ tree[Parent[Home[o]]] = "none" => task[o] = "none"
        /\ o \in handles \cup unstored \cup drained => task[o] \notin {"none", "added", "begun"}

\* A gated command runs with both locks of its gate, and whoever has one of them
\* is at a stage that gives it back.
GateInv ==
    \A o \in Op :
        /\ o \in Gated /\ task[o] \in {"atLock", "ready", "running", "draining", "killing"} =>
              permit[Home[o]] = o
        /\ o \in Gated /\ task[o] \in {"ready", "running", "draining", "killing"} =>
              groupLock = o \/ Home[o] \in NoLockDir
        /\ \A p \in Proc : permit[p] = o => p = Home[o] /\ task[o] \in WithPermit
        /\ groupLock = o => task[o] \in WithLock

\* A result is published as it was decided, when nothing that writes is left.
ResultInv ==
    \A o \in Op :
        /\ status[o] \in Succeeded => verdict[o] \in Succeeded
        /\ o \notin Pty /\ verdict[o] \in Succeeded => tree[o] \notin {"leader", "piped"}
        /\ o \notin Pty /\ status[o] \in Succeeded => ~InLine(o)

IInv ==
    /\ AsyncTypeOK /\ LinesOK /\ LineInv /\ HolderInv
    /\ TreeInv /\ GateInv /\ ResultInv /\ ShutdownReachesTasks

-----------------------------------------------------------------------------
(***************************************************************************)
(* What the steps of the lease do to who is in line and who holds.         *)
(***************************************************************************)
LEMMA Leaving ==
    ASSUME LinesOK, NEW o \in Op, Lease!Leave(o)
    PROVE  /\ LinesOK'
           /\ \A x \in Op : InLine(x)' <=> InLine(x) /\ x # o
           /\ \A x \in Op : x # o => (x \in holders' <=> x \in holders)
           /\ o \notin holders'
<1>1. Home[o] \in Proc /\ line[Home[o]] \in Seq(Op)
  BY AsyncRunAssumption DEF LinesOK
<1> DEFINE s == line[Home[o]]
<1>2. PICK i \in DOMAIN s : s[i] = o /\ line' = [line EXCEPT ![Home[o]] = RemoveAt(s, i)]
  BY DEF Lease!Leave, Lease!RemoveAt, RemoveAt
<1>3. s \in Seq(Op) /\ i \in DOMAIN s /\ \A j, k \in DOMAIN s : s[j] = s[k] => j = k
  BY <1>1, <1>2 DEF LinesOK
<1> DEFINE r == RemoveAt(s, i)
<1>4. /\ r \in Seq(Op)
      /\ \A j, k \in DOMAIN r : r[j] = r[k] => j = k
      /\ \A x \in Op : (\E j \in DOMAIN r : r[j] = x)
                        <=> (\E j \in DOMAIN s : s[j] = x) /\ x # s[i]
  <2>1. /\ s \in Seq(Op) /\ i \in DOMAIN s
        /\ \A j \in DOMAIN s : \A k \in DOMAIN s : s[j] = s[k] => j = k
    BY <1>3
  <2> HIDE DEF s
  <2>2. /\ RemoveAt(s, i) \in Seq(Op)
        /\ \A j, k \in DOMAIN RemoveAt(s, i) :
              RemoveAt(s, i)[j] = RemoveAt(s, i)[k] => j = k
        /\ \A x \in Op : (\E j \in DOMAIN RemoveAt(s, i) : RemoveAt(s, i)[j] = x)
                          <=> (\E j \in DOMAIN s : s[j] = x) /\ x # s[i]
    BY <2>1, RemoveAtMembers, SMT
  <2> QED
    BY <2>2
<1> HIDE DEF r
<1>5. /\ line' \in [Proc -> Seq(Op)]
      /\ line'[Home[o]] = r
      /\ \A p \in Proc : p # Home[o] => line'[p] = line[p]
  BY <1>1, <1>2, <1>4 DEF LinesOK, r
<1>6. holders' = holders \ {o}
  BY DEF Lease!Leave
<1>7. LinesOK'
  <2>1. holders' \subseteq Op
    BY <1>6 DEF LinesOK
  <2>2. ASSUME NEW p \in Proc
        PROVE  \A j, k \in DOMAIN line'[p] : line'[p][j] = line'[p][k] => j = k
    <3>1. CASE p = Home[o]
      BY <1>4, <1>5, <3>1
    <3>2. CASE p # Home[o]
      BY <1>5, <3>2 DEF LinesOK
    <3> QED
      BY <3>1, <3>2
  <2> QED
    BY <1>5, <2>1, <2>2 DEF LinesOK
<1>8. ASSUME NEW x \in Op
      PROVE  InLine(x)' <=> InLine(x) /\ x # o
  <2>1. Home[x] \in Proc
    BY AsyncRunAssumption
  <2>2. CASE Home[x] = Home[o]
    BY <1>2, <1>4, <1>5, <2>2 DEF InLine, Lease!InSomeLine
  <2>3. CASE Home[x] # Home[o]
    BY <1>5, <2>1, <2>3 DEF InLine, Lease!InSomeLine
  <2> QED
    BY <2>2, <2>3
<1> QED
  BY <1>6, <1>7, <1>8

LEMMA Dropping ==
    ASSUME LinesOK, NEW o \in Op, DropsLease(o)
    PROVE  /\ LinesOK'
           /\ \A x \in Op : InLine(x)' <=> InLine(x) /\ x # o
           /\ \A x \in Op : x # o => (x \in holders' <=> x \in holders)
           /\ o \in holders' => o \in holders /\ ~InLine(o)
           /\ handedOn' = handedOn
<1>1. CASE InLine(o)
  <2>1. Lease!Leave(o) /\ handedOn' = handedOn
    BY <1>1 DEF DropsLease, InLine
  <2> QED
    BY <2>1, Leaving
<1>2. CASE ~InLine(o)
  BY <1>2 DEF DropsLease, InLine, Lease!InSomeLine, lease, LinesOK
<1> QED
  BY <1>1, <1>2

LEMMA Arriving ==
    ASSUME LinesOK, NEW o \in Op, Lease!Arrive(o)
    PROVE  /\ LinesOK'
           /\ \A x \in Op : InLine(x)' <=> InLine(x) \/ x = o
           /\ holders' = holders
<1>1. Home[o] \in Proc /\ line[Home[o]] \in Seq(Op)
  BY AsyncRunAssumption DEF LinesOK
<1>2. /\ line' = [line EXCEPT ![Home[o]] = Append(@, o)]
      /\ holders' = holders
      /\ \A j \in DOMAIN line[Home[o]] : line[Home[o]][j] # o
  BY DEF Lease!Arrive, Lease!InSomeLine
<1> DEFINE s == line[Home[o]]
<1>3. /\ s \in Seq(Op) /\ \A j, k \in DOMAIN s : s[j] = s[k] => j = k
      /\ \A j \in DOMAIN s : s[j] # o
  BY <1>1, <1>2 DEF LinesOK
<1> DEFINE r == Append(s, o)
<1>4. /\ r \in Seq(Op)
      /\ \A j, k \in DOMAIN r : r[j] = r[k] => j = k
      /\ \A x \in Op : (\E j \in DOMAIN r : r[j] = x) <=> (\E j \in DOMAIN s : s[j] = x) \/ x = o
  <2> HIDE DEF s
  <2> QED
    BY <1>3, AppendMembers, SMT
<1> HIDE DEF r
<1>5. /\ line' \in [Proc -> Seq(Op)]
      /\ line'[Home[o]] = r
      /\ \A p \in Proc : p # Home[o] => line'[p] = line[p]
  BY <1>1, <1>2, <1>4 DEF LinesOK, r
<1>6. LinesOK'
  BY <1>2, <1>4, <1>5 DEF LinesOK
<1>7. ASSUME NEW x \in Op
      PROVE  InLine(x)' <=> InLine(x) \/ x = o
  <2>1. Home[x] \in Proc
    BY AsyncRunAssumption
  <2>2. CASE Home[x] = Home[o]
    BY <1>4, <1>5, <2>2 DEF InLine, Lease!InSomeLine
  <2>3. CASE Home[x] # Home[o]
    BY <1>5, <2>1, <2>3 DEF InLine, Lease!InSomeLine
  <2> QED
    BY <2>2, <2>3
<1> QED
  BY <1>2, <1>6, <1>7

LEMMA Taking ==
    ASSUME LinesOK, NEW o \in Op, Lease!Take(o)
    PROVE  /\ LinesOK' /\ InLine(o)
           /\ \A x \in Op : InLine(x)' <=> InLine(x)
           /\ holders' = holders \cup {o}
<1>1. Home[o] \in Proc /\ line[Home[o]] \in Seq(Op)
  BY AsyncRunAssumption DEF LinesOK
<1>2. line[Home[o]] # <<>> /\ Head(line[Home[o]]) = o
  BY DEF Lease!Take
<1>3. 1 \in DOMAIN line[Home[o]] /\ line[Home[o]][1] = o
  BY <1>1, <1>2
<1>4. line' = line /\ holders' = holders \cup {o}
  BY DEF Lease!Take
<1> QED
  BY <1>3, <1>4 DEF LinesOK, InLine, Lease!InSomeLine

LEMMA Vanishing ==
    ASSUME LinesOK, NEW P \in SUBSET Proc, Lease!Vanish(P)
    PROVE  /\ LinesOK'
           /\ \A x \in Op : InLine(x)' <=> InLine(x) /\ Home[x] \notin P
           /\ \A x \in Op : x \in holders' <=> x \in holders /\ Home[x] \notin P
<1>1. /\ line' = [p \in Proc |-> IF p \in P THEN <<>> ELSE line[p]]
      /\ holders' = {o \in holders : Home[o] \notin P}
  BY DEF Lease!Vanish
<1>2. <<>> \in Seq(Op) /\ DOMAIN <<>> = {}
  OBVIOUS
<1>3. LinesOK'
  BY <1>1, <1>2 DEF LinesOK
<1>4. ASSUME NEW x \in Op
      PROVE  InLine(x)' <=> InLine(x) /\ Home[x] \notin P
  <2>1. Home[x] \in Proc
    BY AsyncRunAssumption
  <2>2. line'[Home[x]] = IF Home[x] \in P THEN <<>> ELSE line[Home[x]]
    BY <1>1, <2>1
  <2> QED
    BY <1>2, <2>2 DEF InLine, Lease!InSomeLine
<1> QED
  BY <1>1, <1>3, <1>4 DEF LinesOK

LEMMA Keeping ==
    ASSUME LinesOK, UNCHANGED lease
    PROVE  /\ LinesOK'
           /\ \A x \in Op : InLine(x)' <=> InLine(x)
           /\ holders' = holders /\ handedOn' = handedOn
BY DEF lease, LinesOK, InLine, Lease!InSomeLine


\* The steps about one operation.
OpStep(o) ==
    \/ Submit(o) \/ Call(o) \/ Prepare(o) \/ SoftRelease(o) \/ MaxWaitElapses(o)
    \/ RunTimesOut(o) \/ Finish(o) \/ LeaderExits(o) \/ DescendantsEnd(o)
    \/ Interrupt(o) \/ AbortTask(o) \/ StrayLocks(o)

-----------------------------------------------------------------------------
\* What the end of a process group does to the parts of the state.
LEMMA GroupEndsTypes ==
    ASSUME AsyncTypeOK, LinesOK, NEW o \in Op, NEW stage \in Tasks, GroupEnds(o, stage),
           stage \in {"killing", "releasing", "reporting"} => verdict[o] # None
    PROVE  AsyncTypeOK' /\ LinesOK'
<1>1. LinesOK'
  BY Vanishing DEF GroupEnds
<1>2. AsyncTypeOK'
  BY <1>1, AsyncRunAssumption
     DEF AsyncTypeOK, LinesOK, Lease!LeaseTypeOK, GroupEnds, Under, Tasks, Trees
<1> QED
  BY <1>1, <1>2

\* A verdict is given when its task goes on.
LEMMA VerdictGiven ==
    ASSUME AsyncTypeOK, NEW o \in Op, NEW stage \in Tasks, NEW v \in Verdicts,
           Goto(o, stage), verdict' = [verdict EXCEPT ![o] = v]
    PROVE  /\ (task \in [Op -> Tasks])'
           /\ (verdict \in [Op -> Verdicts \cup {None}])'
           /\ (\A x \in Op : task[x] \in {"killing", "releasing", "reporting"} =>
                                verdict[x] # None)'
BY NoneIsNoStatus DEF AsyncTypeOK, Goto, Verdicts

\* Every step keeps the types, and every line a line.
LEMMA TypeOpStep ==
    ASSUME AsyncTypeOK, LinesOK, NEW o \in Op, OpStep(o)
    PROVE  AsyncTypeOK' /\ LinesOK'
<1> USE AsyncRunAssumption, NoneIsNoStatus
<1>1. CASE Submit(o)
  <2>1. LinesOK'
    BY <1>1, Keeping, Arriving DEF Submit, gate, books
  <2> QED
    BY <1>1, <2>1
       DEF Submit, AsyncTypeOK, LinesOK, Lease!LeaseTypeOK, lease, Tasks, Trees, Verdicts,
           Active, Goto, gate, books
<1>2. CASE Spawn(o)
  <2>1. LinesOK'
    BY <1>2, Keeping DEF Spawn, gate, books
  <2> QED
    BY <1>2, <2>1
       DEF Spawn, AsyncTypeOK, LinesOK, Lease!LeaseTypeOK, lease, Tasks, Trees, Verdicts,
           Active, Goto, gate, books
<1>3. CASE BeginPty(o)
  <2>1. LinesOK'
    BY <1>3, Keeping DEF BeginPty, Transition, gate, books
  <2> QED
    BY <1>3, <2>1
       DEF BeginPty, Transition, AsyncTypeOK, LinesOK, Lease!LeaseTypeOK, lease, Tasks, Trees,
           Verdicts, Active, Goto, gate, books
<1>4. CASE SpawnPty(o)
  <2>1. LinesOK'
    BY <1>4, Arriving DEF SpawnPty, gate, books
  <2> QED
    BY <1>4, <2>1
       DEF SpawnPty, AsyncTypeOK, LinesOK, Lease!LeaseTypeOK, lease, Tasks, Trees, Verdicts,
           Active, Goto, gate, books
<1>5. CASE StoreHandle(o)
  <2>1. LinesOK'
    BY <1>5, Keeping DEF StoreHandle, gate, books
  <2> QED
    BY <1>5, <2>1
       DEF StoreHandle, AsyncTypeOK, LinesOK, Lease!LeaseTypeOK, lease, Tasks, Trees, Verdicts,
           Active, Goto, gate, books
<1>6. CASE LookUp(o)
  <2>1. LinesOK'
    BY <1>6, Keeping, Dropping DEF LookUp, DropsLease, gate, books
  <2> QED
    BY <1>6, <2>1
       DEF LookUp, DropsLease, AsyncTypeOK, LinesOK, Lease!LeaseTypeOK, lease, Tasks, Trees, Verdicts,
           Active, Goto, gate, books
<1>7. CASE TakeLease(o)
  <2>1. LinesOK'
    BY <1>7, Taking DEF TakeLease, gate, books
  <2> QED
    BY <1>7, <2>1
       DEF TakeLease, AsyncTypeOK, LinesOK, Lease!LeaseTypeOK, lease, Tasks, Trees, Verdicts,
           Active, Goto, gate, books
<1>8. CASE GiveUpQueueing(o)
  <2>1. LinesOK'
    BY <1>8, Dropping DEF GiveUpQueueing, DropsLease, gate, books
  <2> QED
    BY <1>8, <2>1
       DEF GiveUpQueueing, DropsLease, AsyncTypeOK, LinesOK, Lease!LeaseTypeOK, lease, Tasks, Trees,
           Verdicts, Active, Goto, gate, books
<1>9. CASE Begin(o)
  <2>1. LinesOK'
    BY <1>9, Keeping DEF Begin, Transition, gate, books
  <2> QED
    BY <1>9, <2>1
       DEF Begin, Transition, AsyncTypeOK, LinesOK, Lease!LeaseTypeOK, lease, Tasks, Trees,
           Verdicts, Active, Goto, gate, books
<1>10. CASE CheckToken(o)
  <2>1. LinesOK'
    BY <1>10, Keeping, Dropping DEF CheckToken, DropsLease, gate, books
  <2> QED
    BY <1>10, <2>1
       DEF CheckToken, DropsLease, AsyncTypeOK, LinesOK, Lease!LeaseTypeOK, lease, Tasks, Trees, Verdicts,
           Active, Goto, gate, books
<1>11. CASE TakePermit(o)
  <2>1. LinesOK'
    BY <1>11, Keeping DEF TakePermit, gate, books
  <2> QED
    BY <1>11, <2>1
       DEF TakePermit, AsyncTypeOK, LinesOK, Lease!LeaseTypeOK, lease, Tasks, Trees, Verdicts,
           Active, Goto, gate, books
<1>12. CASE MaxWaitElapses(o)
  <2>1. LinesOK'
    BY <1>12, Keeping DEF MaxWaitElapses, gate, books
  <2> QED
    BY <1>12, <2>1
       DEF MaxWaitElapses, AsyncTypeOK, LinesOK, Lease!LeaseTypeOK, lease, Tasks, Trees,
           Verdicts, Active, Goto, gate, books
<1>13. CASE GateTimesOut(o)
  <2>1. LinesOK'
    BY <1>13, Keeping DEF GateTimesOut, Fails, gate, books
  <2>2. PICK v \in {"Failed"} :
        Goto(o, (IF o \in Pty THEN "reporting" ELSE "releasing")) /\ verdict' = [verdict EXCEPT ![o] = v]
    BY <1>13 DEF GateTimesOut, Fails
  <2>3. (IF o \in Pty THEN "reporting" ELSE "releasing") \in Tasks /\ v \in Verdicts
    BY DEF Tasks, Verdicts
  <2> QED
    BY <1>13, <2>1, <2>2, <2>3, VerdictGiven
       DEF GateTimesOut, Fails, AsyncTypeOK, LinesOK, Lease!LeaseTypeOK, lease, gate, books
<1>14. CASE LockGroup(o) \/ NoGroupLock(o)
  <2>1. LinesOK'
    BY <1>14, Keeping DEF LockGroup, NoGroupLock, gate, books
  <2> QED
    BY <1>14, <2>1
       DEF LockGroup, NoGroupLock, AsyncTypeOK, LinesOK, Lease!LeaseTypeOK, lease, Tasks,
           Trees, Verdicts, Active, Goto, gate, books
<1>15. CASE FailToStart(o)
  <2>1. LinesOK'
    BY <1>15, Keeping DEF FailToStart, Fails, gate, books
  <2>2. PICK v \in {"Failed"} :
        Goto(o, (IF o \in Pty THEN "reporting" ELSE "releasing")) /\ verdict' = [verdict EXCEPT ![o] = v]
    BY <1>15 DEF FailToStart, Fails
  <2>3. (IF o \in Pty THEN "reporting" ELSE "releasing") \in Tasks /\ v \in Verdicts
    BY DEF Tasks, Verdicts
  <2> QED
    BY <1>15, <2>1, <2>2, <2>3, VerdictGiven
       DEF FailToStart, Fails, AsyncTypeOK, LinesOK, Lease!LeaseTypeOK, lease, gate, books
<1>16. CASE StartTree(o)
  <2>1. LinesOK'
    BY <1>16, Keeping DEF StartTree, gate, books
  <2> QED
    BY <1>16, <2>1
       DEF StartTree, AsyncTypeOK, LinesOK, Lease!LeaseTypeOK, lease, Tasks, Trees, Verdicts,
           Active, Goto, gate, books
<1>17. CASE NoticeExit(o) \/ PtyHangsUp(o)
  <2>1. LinesOK'
    BY <1>17, Keeping DEF NoticeExit, PtyHangsUp, gate, books
  <2> QED
    BY <1>17, <2>1
       DEF NoticeExit, PtyHangsUp, AsyncTypeOK, LinesOK, Lease!LeaseTypeOK, lease, Tasks,
           Trees, Verdicts, Active, Goto, gate, books
<1>18. CASE DrainEnds(o)
  <2>1. LinesOK'
    BY <1>18, Keeping DEF DrainEnds, Ends, gate, books
  <2>2. PICK v \in {"Completed", "Failed"} :
        Goto(o, "releasing") /\ verdict' = [verdict EXCEPT ![o] = v]
    BY <1>18 DEF DrainEnds, Ends
  <2>3. "releasing" \in Tasks /\ v \in Verdicts
    BY DEF Tasks, Verdicts
  <2> QED
    BY <1>18, <2>1, <2>2, <2>3, VerdictGiven
       DEF DrainEnds, Ends, AsyncTypeOK, LinesOK, Lease!LeaseTypeOK, lease, gate, books
<1>19. CASE NoticePtyExit(o)
  <2>1. LinesOK'
    BY <1>19, Keeping DEF NoticePtyExit, Ends, gate, books
  <2>2. PICK v \in {"Completed", "Failed"} :
        Goto(o, "reporting") /\ verdict' = [verdict EXCEPT ![o] = v]
    BY <1>19 DEF NoticePtyExit, Ends
  <2>3. "reporting" \in Tasks /\ v \in Verdicts
    BY DEF Tasks, Verdicts
  <2> QED
    BY <1>19, <2>1, <2>2, <2>3, VerdictGiven
       DEF NoticePtyExit, Ends, AsyncTypeOK, LinesOK, Lease!LeaseTypeOK, lease, gate, books
<1>20. CASE NoticeCancel(o)
  <2>1. LinesOK'
    BY <1>20, Keeping DEF NoticeCancel, Ends, gate, books
  <2>2. PICK v \in {"Cancelled"} :
        Goto(o, "killing") /\ verdict' = [verdict EXCEPT ![o] = v]
    BY <1>20 DEF NoticeCancel, Ends
  <2>3. "killing" \in Tasks /\ v \in Verdicts
    BY DEF Tasks, Verdicts
  <2> QED
    BY <1>20, <2>1, <2>2, <2>3, VerdictGiven
       DEF NoticeCancel, Ends, AsyncTypeOK, LinesOK, Lease!LeaseTypeOK, lease, gate, books
<1>21. CASE RunTimesOut(o)
  <2>1. LinesOK'
    BY <1>21, Keeping DEF RunTimesOut, Ends, gate, books
  <2>2. PICK v \in {"TimedOut"} :
        Goto(o, "killing") /\ verdict' = [verdict EXCEPT ![o] = v]
    BY <1>21 DEF RunTimesOut, Ends
  <2>3. "killing" \in Tasks /\ v \in Verdicts
    BY DEF Tasks, Verdicts
  <2> QED
    BY <1>21, <2>1, <2>2, <2>3, VerdictGiven
       DEF RunTimesOut, Ends, AsyncTypeOK, LinesOK, Lease!LeaseTypeOK, lease, gate, books
<1>22. CASE KillTree(o)
  <2> DEFINE next == IF o \in Pty THEN "reporting" ELSE "releasing"
  <2>1. verdict[o] # None /\ next \in Tasks /\ next \in {"reporting", "releasing"}
    BY <1>22 DEF KillTree, AsyncTypeOK, Tasks
  <2>2. CASE GroupEnds(o, next)
    BY <2>1, <2>2, GroupEndsTypes
  <2>3. CASE ~GroupEnds(o, next)
    <3>1. /\ tree' = [tree EXCEPT ![o] = "left"] /\ Goto(o, next)
          /\ UNCHANGED <<lease, status, token, verdict, gate, books>>
      BY <1>22, <2>3 DEF KillTree
    <3>2. LinesOK'
      BY <3>1, Keeping
    <3> QED
      BY <2>1, <3>1, <3>2
         DEF AsyncTypeOK, LinesOK, Lease!LeaseTypeOK, lease, Trees, Goto, gate, books
  <2> QED
    BY <2>2, <2>3
<1>23. CASE DropLease(o)
  <2>1. LinesOK'
    BY <1>23, Dropping DEF DropLease, DropsLease, gate, books
  <2> QED
    BY <1>23, <2>1
       DEF DropLease, DropsLease, AsyncTypeOK, LinesOK, Lease!LeaseTypeOK, lease, Tasks, Trees, Verdicts,
           Active, Goto, gate, books
<1>24. CASE Report(o)
  <2>1. LinesOK'
    BY <1>24, Keeping DEF Report, Transition, gate, books
  <2> QED
    BY <1>24, <2>1
       DEF Report, Transition, AsyncTypeOK, LinesOK, Lease!LeaseTypeOK, lease, Tasks, Trees,
           Verdicts, Active, Goto, gate, books
<1>25. CASE Close(o)
  <2>1. LinesOK'
    BY <1>25, Keeping DEF Close, DropsGate, gate, books
  <2> QED
    BY <1>25, <2>1
       DEF Close, DropsGate, AsyncTypeOK, LinesOK, Lease!LeaseTypeOK, lease, Tasks, Trees,
           Verdicts, Active, Goto, gate, books
<1>26. CASE Unwind(o)
  <2>1. LinesOK'
    BY <1>26, Dropping DEF Unwind, DropsLease, DropsGate, gate, books
  <2> QED
    BY <1>26, <2>1
       DEF Unwind, DropsLease, DropsGate, AsyncTypeOK, LinesOK, Lease!LeaseTypeOK, lease, Tasks, Trees,
           Verdicts, Active, Goto, gate, books
<1>27. CASE LeaderExits(o)
  <2>1. CASE GroupEnds(o, task[o])
    BY <2>1, GroupEndsTypes DEF AsyncTypeOK
  <2>2. CASE ~GroupEnds(o, task[o])
    <3>1. /\ \E t \in {"piped", "left"} : tree' = [tree EXCEPT ![o] = t]
          /\ UNCHANGED <<lease, task, status, token, verdict, gate, books>>
      BY <1>27, <2>2 DEF LeaderExits
    <3>2. LinesOK'
      BY <3>1, Keeping
    <3> QED
      BY <3>1, <3>2 DEF AsyncTypeOK, LinesOK, Lease!LeaseTypeOK, lease, Trees, gate, books
  <2> QED
    BY <2>1, <2>2
<1>28. CASE DescendantsEnd(o)
  BY <1>28, GroupEndsTypes
     DEF DescendantsEnd, AsyncTypeOK, LinesOK, Lease!LeaseTypeOK, lease, Tasks, Trees,
         Verdicts, Active, Goto, gate, books
<1>29. CASE Interrupt(o)
  <2>1. LinesOK'
    BY <1>29, Keeping DEF Interrupt, Transition, gate, books
  <2> QED
    BY <1>29, <2>1
       DEF Interrupt, Transition, AsyncTypeOK, LinesOK, Lease!LeaseTypeOK, lease, Tasks, Trees,
           Verdicts, Active, Goto, gate, books
<1>30. CASE AbortTask(o)
  <2>1. CASE GroupEnds(o, "dropped")
    BY <2>1, GroupEndsTypes DEF Tasks
  <2>2. CASE ~GroupEnds(o, "dropped")
    <3>1. /\ tree' \in {tree, [tree EXCEPT ![o] = "left"]}
          /\ stray' \subseteq stray \cup {o} /\ Goto(o, "dropped")
          /\ UNCHANGED <<lease, status, token, verdict, permit, groupLock, waited, books>>
      BY <1>30, <2>2 DEF AbortTask
    <3>2. LinesOK'
      BY <3>1, Keeping
    <3> QED
      BY <3>1, <3>2
         DEF AsyncTypeOK, LinesOK, Lease!LeaseTypeOK, lease, Tasks, Trees, Goto, books
  <2> QED
    BY <2>1, <2>2
<1>31. CASE StrayLocks(o)
  <2>1. LinesOK'
    BY <1>31, Keeping DEF StrayLocks, gate, books
  <2> QED
    BY <1>31, <2>1
       DEF StrayLocks, AsyncTypeOK, LinesOK, Lease!LeaseTypeOK, lease, Tasks, Trees, Verdicts,
           Active, Goto, gate, books
<1>32. CASE SoftRelease(o)
  <2>1. LinesOK'
    BY <1>32, Leaving DEF SoftRelease
  <2> QED
    BY <1>32, <2>1
       DEF SoftRelease, AsyncTypeOK, LinesOK, Lease!LeaseTypeOK, lease, gate, books
<1> QED
  BY <1>1, <1>2, <1>3, <1>4, <1>5, <1>6, <1>7, <1>8, <1>9, <1>10, <1>11, <1>12, <1>13,
     <1>14, <1>15, <1>16, <1>17, <1>18, <1>19, <1>20, <1>21, <1>22, <1>23, <1>24, <1>25,
     <1>26, <1>27, <1>28, <1>29, <1>30, <1>31, <1>32
     DEF OpStep, Call, Prepare, Finish

LEMMA TypeStep ==
    ASSUME AsyncTypeOK, LinesOK, [Next]_vars
    PROVE  AsyncTypeOK' /\ LinesOK'
<1>1. CASE \E o \in Op : OpStep(o)
  BY <1>1, TypeOpStep
<1>2. ASSUME NEW p \in Proc, Shutdown(p)
      PROVE  AsyncTypeOK' /\ LinesOK'
  <2>1. LinesOK'
    BY <1>2, Keeping DEF Shutdown, ShutdownCancels, ShutdownDrains
  <2>2. CASE ShutdownCancels(p)
    BY <2>1, <2>2
       DEF ShutdownCancels, AsyncTypeOK, LinesOK, Lease!LeaseTypeOK, lease, Verdicts, gate
  <2>3. CASE ShutdownDrains(p)
    BY <2>1, <2>3 DEF ShutdownDrains, AsyncTypeOK, LinesOK, Lease!LeaseTypeOK, lease, gate
  <2> QED
    BY <1>2, <2>2, <2>3 DEF Shutdown
<1>3. CASE UNCHANGED vars
  <2>1. LinesOK'
    BY <1>3, Keeping DEF vars, lease
  <2> QED
    BY <1>3, <2>1 DEF vars, AsyncTypeOK, LinesOK, Lease!LeaseTypeOK, lease
<1> QED
  BY <1>1, <1>2, <1>3 DEF Next, OpStep

-----------------------------------------------------------------------------
\* The end of a process group, seen from every operation: the operations of the
\* ahmas in it end, out of line and without the gate.
LEMMA GroupEndsParts ==
    ASSUME AsyncTypeOK, LinesOK, NEW o \in Op, NEW stage \in Tasks, GroupEnds(o, stage)
    PROVE  /\ tree' = [tree EXCEPT ![o] = "gone"]
           /\ \A x \in Op : task'[x] = IF x = o THEN stage
                                      ELSE IF Parent[Home[x]] = o /\ task[x] # "none"
                                           THEN "ended" ELSE task[x]
           /\ Parent[Home[o]] # o
           /\ \A x \in Op : InLine(x)' <=> InLine(x) /\ Parent[Home[x]] # o
           /\ \A x \in Op : x \in holders' <=> x \in holders /\ Parent[Home[x]] # o
           /\ \A p \in Proc : permit'[p] = IF Parent[p] = o THEN None ELSE permit[p]
           /\ groupLock' = IF groupLock \in Op /\ Parent[Home[groupLock]] = o
                           THEN None ELSE groupLock
           /\ \A x \in Op : Parent[Home[x]] # o => (/\ x \in handles' <=> x \in handles
                                                    /\ x \in unstored' <=> x \in unstored
                                                    /\ x \in drained' <=> x \in drained)
           /\ handles' \subseteq handles /\ unstored' \subseteq unstored
           /\ drained' \subseteq drained
           /\ UNCHANGED <<handedOn, status, verdict, token, late, phase>>
<1>1. \A x \in Op : Home[x] \in Proc
  BY AsyncRunAssumption
<1>2. Parent[Home[o]] # o
  BY <1>1, AsyncRunAssumption
<1>3. {p \in Proc : Parent[p] = o} \in SUBSET Proc
  OBVIOUS
<1>4. /\ \A x \in Op : InLine(x)' <=> InLine(x) /\ Home[x] \notin {p \in Proc : Parent[p] = o}
      /\ \A x \in Op : x \in holders' <=> x \in holders
                                          /\ Home[x] \notin {p \in Proc : Parent[p] = o}
  BY <1>3, Vanishing DEF GroupEnds
<1> QED
  BY <1>1, <1>2, <1>4 DEF GroupEnds, Under, AsyncTypeOK

\* Who is in line keeps to the stages that give the place back.
LEMMA LineOpStep ==
    ASSUME IInv, NEW o \in Op, OpStep(o)
    PROVE  LineInv'
<1> USE AsyncRunAssumption, NoneIsNoStatus
<1>0. /\ AsyncTypeOK /\ LinesOK /\ task \in [Op -> Tasks]
      /\ LineInv
  BY DEF IInv, AsyncTypeOK
<1>1. CASE Submit(o)
  BY <1>0, <1>1, Keeping, Arriving
     DEF Submit, Goto, LineInv, gate, books, Tasks
<1>2. CASE Spawn(o)
  BY <1>0, <1>2, Keeping
     DEF Spawn, Goto, LineInv, gate, books, Tasks
<1>3. CASE BeginPty(o)
  BY <1>0, <1>3, Keeping
     DEF BeginPty, Transition, Goto, LineInv, gate, books, Tasks
<1>4. CASE SpawnPty(o)
  BY <1>0, <1>4, Arriving
     DEF SpawnPty, Goto, LineInv, gate, books, Tasks
<1>5. CASE StoreHandle(o)
  BY <1>0, <1>5, Keeping
     DEF StoreHandle, Goto, LineInv, gate, books, Tasks
<1>6. CASE LookUp(o)
  BY <1>0, <1>6, Keeping, Dropping
     DEF LookUp, Goto, LineInv, gate, books, Tasks
<1>7. CASE TakeLease(o)
  BY <1>0, <1>7, Taking
     DEF TakeLease, Goto, LineInv, gate, books, Tasks
<1>8. CASE GiveUpQueueing(o)
  BY <1>0, <1>8, Dropping
     DEF GiveUpQueueing, Goto, LineInv, gate, books, Tasks
<1>9. CASE Begin(o)
  BY <1>0, <1>9, Keeping
     DEF Begin, Transition, Goto, LineInv, gate, books, Tasks
<1>10. CASE CheckToken(o)
  BY <1>0, <1>10, Keeping, Dropping
     DEF CheckToken, Goto, LineInv, gate, books, Tasks
<1>11. CASE TakePermit(o)
  BY <1>0, <1>11, Keeping
     DEF TakePermit, Goto, LineInv, gate, books, Tasks
<1>12. CASE MaxWaitElapses(o)
  BY <1>0, <1>12, Keeping
     DEF MaxWaitElapses, Goto, LineInv, gate, books, Tasks
<1>13. CASE GateTimesOut(o)
  BY <1>0, <1>13, Keeping
     DEF GateTimesOut, Fails, Goto, LineInv, gate, books, Tasks
<1>14. CASE LockGroup(o)
  BY <1>0, <1>14, Keeping
     DEF LockGroup, Goto, LineInv, gate, books, Tasks
<1>15. CASE NoGroupLock(o)
  BY <1>0, <1>15, Keeping
     DEF NoGroupLock, Goto, LineInv, gate, books, Tasks
<1>16. CASE FailToStart(o)
  BY <1>0, <1>16, Keeping
     DEF FailToStart, Fails, Goto, LineInv, gate, books, Tasks
<1>17. CASE StartTree(o)
  BY <1>0, <1>17, Keeping
     DEF StartTree, Goto, LineInv, gate, books, Tasks
<1>18. CASE NoticeExit(o)
  BY <1>0, <1>18, Keeping
     DEF NoticeExit, Goto, LineInv, gate, books, Tasks
<1>19. CASE DrainEnds(o)
  BY <1>0, <1>19, Keeping
     DEF DrainEnds, Ends, Goto, LineInv, gate, books, Tasks
<1>20. CASE PtyHangsUp(o)
  BY <1>0, <1>20, Keeping
     DEF PtyHangsUp, Goto, LineInv, gate, books, Tasks
<1>21. CASE NoticePtyExit(o)
  BY <1>0, <1>21, Keeping
     DEF NoticePtyExit, Ends, Goto, LineInv, gate, books, Tasks
<1>22. CASE NoticeCancel(o)
  BY <1>0, <1>22, Keeping
     DEF NoticeCancel, Ends, Goto, LineInv, gate, books, Tasks
<1>23. CASE RunTimesOut(o)
  BY <1>0, <1>23, Keeping
     DEF RunTimesOut, Ends, Goto, LineInv, gate, books, Tasks
<1>24. CASE KillTree(o)
  BY <1>0, <1>24, Keeping, GroupEndsParts
     DEF KillTree, Goto, LineInv, gate, books, Tasks
<1>25. CASE DropLease(o)
  BY <1>0, <1>25, Dropping
     DEF DropLease, Goto, LineInv, gate, books, Tasks
<1>26. CASE Report(o)
  BY <1>0, <1>26, Keeping
     DEF Report, Transition, Goto, LineInv, gate, books, Tasks
<1>27. CASE Close(o)
  BY <1>0, <1>27, Keeping
     DEF Close, DropsGate, Goto, LineInv, gate, books, Tasks
<1>28. CASE Unwind(o)
  BY <1>0, <1>28, Dropping
     DEF Unwind, DropsGate, Goto, LineInv, gate, books, Tasks
<1>29. CASE LeaderExits(o)
  BY <1>0, <1>29, Keeping, GroupEndsParts
     DEF LeaderExits, Goto, LineInv, gate, books, Tasks
<1>30. CASE DescendantsEnd(o)
  BY <1>0, <1>30, GroupEndsParts
     DEF DescendantsEnd, Goto, LineInv, gate, books, Tasks
<1>31. CASE Interrupt(o)
  BY <1>0, <1>31, Keeping
     DEF Interrupt, Transition, Goto, LineInv, gate, books, Tasks
<1>32. CASE AbortTask(o)
  BY <1>0, <1>32, Keeping, GroupEndsParts
     DEF AbortTask, Goto, LineInv, gate, books, Tasks
<1>33. CASE StrayLocks(o)
  BY <1>0, <1>33, Keeping
     DEF StrayLocks, Goto, LineInv, gate, books, Tasks
<1>34. CASE SoftRelease(o)
  BY <1>0, <1>34, Keeping, Leaving
     DEF SoftRelease, LineInv, gate, books, Tasks
<1> QED
  BY <1>1, <1>2, <1>3, <1>4, <1>5, <1>6, <1>7, <1>8, <1>9, <1>10, <1>11, <1>12, <1>13,
     <1>14, <1>15, <1>16, <1>17, <1>18, <1>19, <1>20, <1>21, <1>22, <1>23, <1>24, <1>25,
     <1>26, <1>27, <1>28, <1>29, <1>30, <1>31, <1>32, <1>33, <1>34
     DEF OpStep, Call, Prepare, Finish

\* The lease stays with the task until the task gives it back.
LEMMA HolderOpStep ==
    ASSUME IInv, NEW o \in Op, OpStep(o)
    PROVE  HolderInv'
<1> USE AsyncRunAssumption, NoneIsNoStatus
<1>0. /\ AsyncTypeOK /\ LinesOK /\ task \in [Op -> Tasks]
      /\ HolderInv
  BY DEF IInv, AsyncTypeOK
<1>1. CASE Submit(o)
  BY <1>0, <1>1, Keeping, Arriving
     DEF Submit, Goto, HolderInv, Leased, gate, books, Tasks
<1>2. CASE Spawn(o)
  BY <1>0, <1>2, Keeping
     DEF Spawn, Goto, HolderInv, Leased, gate, books, Tasks
<1>3. CASE BeginPty(o)
  BY <1>0, <1>3, Keeping
     DEF BeginPty, Transition, Goto, HolderInv, Leased, gate, books, Tasks
<1>4. CASE SpawnPty(o)
  BY <1>0, <1>4, Arriving
     DEF SpawnPty, Goto, HolderInv, Leased, gate, books, Tasks
<1>5. CASE StoreHandle(o)
  BY <1>0, <1>5, Keeping
     DEF StoreHandle, Goto, HolderInv, Leased, gate, books, Tasks
<1>6. CASE LookUp(o)
  BY <1>0, <1>6, Keeping, Dropping
     DEF LookUp, Goto, HolderInv, Leased, gate, books, Tasks
<1>7. CASE TakeLease(o)
  BY <1>0, <1>7, Taking
     DEF TakeLease, Goto, HolderInv, Leased, gate, books, Tasks
<1>8. CASE GiveUpQueueing(o)
  BY <1>0, <1>8, Dropping
     DEF GiveUpQueueing, Goto, HolderInv, Leased, gate, books, Tasks
<1>9. CASE Begin(o)
  BY <1>0, <1>9, Keeping
     DEF Begin, Transition, Goto, HolderInv, Leased, gate, books, Tasks
<1>10. CASE CheckToken(o)
  BY <1>0, <1>10, Keeping, Dropping
     DEF CheckToken, Goto, HolderInv, Leased, gate, books, Tasks
<1>11. CASE TakePermit(o)
  BY <1>0, <1>11, Keeping
     DEF TakePermit, Goto, HolderInv, Leased, gate, books, Tasks
<1>12. CASE MaxWaitElapses(o)
  BY <1>0, <1>12, Keeping
     DEF MaxWaitElapses, Goto, HolderInv, Leased, gate, books, Tasks
<1>13. CASE GateTimesOut(o)
  BY <1>0, <1>13, Keeping
     DEF GateTimesOut, Fails, Goto, HolderInv, Leased, gate, books, Tasks
<1>14. CASE LockGroup(o)
  BY <1>0, <1>14, Keeping
     DEF LockGroup, Goto, HolderInv, Leased, gate, books, Tasks
<1>15. CASE NoGroupLock(o)
  BY <1>0, <1>15, Keeping
     DEF NoGroupLock, Goto, HolderInv, Leased, gate, books, Tasks
<1>16. CASE FailToStart(o)
  BY <1>0, <1>16, Keeping
     DEF FailToStart, Fails, Goto, HolderInv, Leased, gate, books, Tasks
<1>17. CASE StartTree(o)
  BY <1>0, <1>17, Keeping
     DEF StartTree, Goto, HolderInv, Leased, gate, books, Tasks
<1>18. CASE NoticeExit(o)
  BY <1>0, <1>18, Keeping
     DEF NoticeExit, Goto, HolderInv, Leased, gate, books, Tasks
<1>19. CASE DrainEnds(o)
  BY <1>0, <1>19, Keeping
     DEF DrainEnds, Ends, Goto, HolderInv, Leased, gate, books, Tasks
<1>20. CASE PtyHangsUp(o)
  BY <1>0, <1>20, Keeping
     DEF PtyHangsUp, Goto, HolderInv, Leased, gate, books, Tasks
<1>21. CASE NoticePtyExit(o)
  BY <1>0, <1>21, Keeping
     DEF NoticePtyExit, Ends, Goto, HolderInv, Leased, gate, books, Tasks
<1>22. CASE NoticeCancel(o)
  BY <1>0, <1>22, Keeping
     DEF NoticeCancel, Ends, Goto, HolderInv, Leased, gate, books, Tasks
<1>23. CASE RunTimesOut(o)
  BY <1>0, <1>23, Keeping
     DEF RunTimesOut, Ends, Goto, HolderInv, Leased, gate, books, Tasks
<1>24. CASE KillTree(o)
  BY <1>0, <1>24, Keeping, GroupEndsParts
     DEF KillTree, Goto, HolderInv, Leased, gate, books, Tasks
<1>25. CASE DropLease(o)
  BY <1>0, <1>25, Dropping
     DEF DropLease, Goto, HolderInv, Leased, gate, books, Tasks
<1>26. CASE Report(o)
  BY <1>0, <1>26, Keeping
     DEF Report, Transition, Goto, HolderInv, Leased, gate, books, Tasks
<1>27. CASE Close(o)
  BY <1>0, <1>27, Keeping
     DEF Close, DropsGate, Goto, HolderInv, Leased, gate, books, Tasks
<1>28. CASE Unwind(o)
  BY <1>0, <1>28, Dropping
     DEF Unwind, DropsGate, Goto, HolderInv, Leased, gate, books, Tasks
<1>29. CASE LeaderExits(o)
  BY <1>0, <1>29, Keeping, GroupEndsParts
     DEF LeaderExits, Goto, HolderInv, Leased, gate, books, Tasks
<1>30. CASE DescendantsEnd(o)
  BY <1>0, <1>30, GroupEndsParts
     DEF DescendantsEnd, Goto, HolderInv, Leased, gate, books, Tasks
<1>31. CASE Interrupt(o)
  BY <1>0, <1>31, Keeping
     DEF Interrupt, Transition, Goto, HolderInv, Leased, gate, books, Tasks
<1>32. CASE AbortTask(o)
  BY <1>0, <1>32, Keeping, GroupEndsParts
     DEF AbortTask, Goto, HolderInv, Leased, gate, books, Tasks
<1>33. CASE StrayLocks(o)
  BY <1>0, <1>33, Keeping
     DEF StrayLocks, Goto, HolderInv, Leased, gate, books, Tasks
<1>34. CASE SoftRelease(o)
  BY <1>0, <1>34, Leaving
     DEF SoftRelease, HolderInv, gate, books, Tasks
<1> QED
  BY <1>1, <1>2, <1>3, <1>4, <1>5, <1>6, <1>7, <1>8, <1>9, <1>10, <1>11, <1>12, <1>13,
     <1>14, <1>15, <1>16, <1>17, <1>18, <1>19, <1>20, <1>21, <1>22, <1>23, <1>24, <1>25,
     <1>26, <1>27, <1>28, <1>29, <1>30, <1>31, <1>32, <1>33, <1>34
     DEF OpStep, Call, Prepare, Finish

\* Only the task starts its command, and only a live ahma has tasks.
LEMMA TreeOpStep ==
    ASSUME IInv, NEW o \in Op, OpStep(o)
    PROVE  TreeInv'
<1> USE AsyncRunAssumption, NoneIsNoStatus
<1>0. /\ AsyncTypeOK /\ LinesOK /\ task \in [Op -> Tasks] /\ tree \in [Op -> Trees]
      /\ verdict \in [Op -> Verdicts \cup {None}]
      /\ TreeInv
  BY DEF IInv, AsyncTypeOK
<1>1. CASE Submit(o)
  BY <1>0, <1>1
     DEF Submit, Goto, TreeInv, BeforeTree, WithTree, Alive, gate, books, Tasks
<1>2. CASE Spawn(o)
  BY <1>0, <1>2
     DEF Spawn, Goto, TreeInv, BeforeTree, WithTree, Alive, gate, books, Tasks
<1>3. CASE BeginPty(o)
  BY <1>0, <1>3
     DEF BeginPty, Transition, Goto, TreeInv, BeforeTree, WithTree, Alive, gate, books,
         Tasks
<1>4. CASE SpawnPty(o)
  BY <1>0, <1>4
     DEF SpawnPty, Goto, TreeInv, BeforeTree, WithTree, Alive, gate, books, Tasks
<1>5. CASE StoreHandle(o)
  BY <1>0, <1>5
     DEF StoreHandle, Goto, TreeInv, BeforeTree, WithTree, Alive, gate, books, Tasks
<1>6. CASE LookUp(o)
  BY <1>0, <1>6
     DEF LookUp, Goto, TreeInv, BeforeTree, WithTree, Alive, gate, books, Tasks
<1>7. CASE TakeLease(o)
  BY <1>0, <1>7
     DEF TakeLease, Goto, TreeInv, BeforeTree, WithTree, Alive, gate, books, Tasks
<1>8. CASE GiveUpQueueing(o)
  BY <1>0, <1>8
     DEF GiveUpQueueing, Goto, TreeInv, BeforeTree, WithTree, Alive, gate, books, Tasks
<1>9. CASE Begin(o)
  BY <1>0, <1>9
     DEF Begin, Transition, Goto, TreeInv, BeforeTree, WithTree, Alive, gate, books, Tasks
<1>10. CASE CheckToken(o)
  BY <1>0, <1>10
     DEF CheckToken, Goto, TreeInv, BeforeTree, WithTree, Alive, gate, books, Tasks
<1>11. CASE TakePermit(o)
  BY <1>0, <1>11
     DEF TakePermit, Goto, TreeInv, BeforeTree, WithTree, Alive, gate, books, Tasks
<1>12. CASE MaxWaitElapses(o)
  BY <1>0, <1>12
     DEF MaxWaitElapses, Goto, TreeInv, BeforeTree, WithTree, Alive, gate, books, Tasks
<1>13. CASE GateTimesOut(o)
  BY <1>0, <1>13
     DEF GateTimesOut, Fails, Goto, TreeInv, BeforeTree, WithTree, Alive, gate, books, Tasks
<1>14. CASE LockGroup(o)
  BY <1>0, <1>14
     DEF LockGroup, Goto, TreeInv, BeforeTree, WithTree, Alive, gate, books, Tasks
<1>15. CASE NoGroupLock(o)
  BY <1>0, <1>15
     DEF NoGroupLock, Goto, TreeInv, BeforeTree, WithTree, Alive, gate, books, Tasks
<1>16. CASE FailToStart(o)
  BY <1>0, <1>16
     DEF FailToStart, Fails, Goto, TreeInv, BeforeTree, WithTree, Alive, gate, books, Tasks
<1>17. CASE StartTree(o)
  BY <1>0, <1>17
     DEF StartTree, Goto, TreeInv, BeforeTree, WithTree, Alive, gate, books, Tasks
<1>18. CASE NoticeExit(o)
  BY <1>0, <1>18
     DEF NoticeExit, Goto, TreeInv, BeforeTree, WithTree, Alive, gate, books, Tasks
<1>19. CASE DrainEnds(o)
  BY <1>0, <1>19
     DEF DrainEnds, Ends, Goto, TreeInv, BeforeTree, WithTree, Alive, gate, books, Tasks
<1>20. CASE PtyHangsUp(o)
  BY <1>0, <1>20
     DEF PtyHangsUp, Goto, TreeInv, BeforeTree, WithTree, Alive, gate, books, Tasks
<1>21. CASE NoticePtyExit(o)
  BY <1>0, <1>21
     DEF NoticePtyExit, Ends, Goto, TreeInv, BeforeTree, WithTree, Alive, gate, books, Tasks
<1>22. CASE NoticeCancel(o)
  BY <1>0, <1>22
     DEF NoticeCancel, Ends, Goto, TreeInv, BeforeTree, WithTree, Alive, gate, books, Tasks
<1>23. CASE RunTimesOut(o)
  BY <1>0, <1>23
     DEF RunTimesOut, Ends, Goto, TreeInv, BeforeTree, WithTree, Alive, gate, books, Tasks
<1>24. CASE KillTree(o)
  BY <1>0, <1>24, GroupEndsParts
     DEF KillTree, Goto, TreeInv, BeforeTree, WithTree, Alive, gate, books, Tasks
<1>25. CASE DropLease(o)
  BY <1>0, <1>25
     DEF DropLease, Goto, TreeInv, BeforeTree, WithTree, Alive, gate, books, Tasks
<1>26. CASE Report(o)
  BY <1>0, <1>26
     DEF Report, Transition, Goto, TreeInv, BeforeTree, WithTree, Alive, gate, books, Tasks
<1>27. CASE Close(o)
  BY <1>0, <1>27
     DEF Close, DropsGate, Goto, TreeInv, BeforeTree, WithTree, Alive, gate, books, Tasks
<1>28. CASE Unwind(o)
  BY <1>0, <1>28
     DEF Unwind, DropsGate, Goto, TreeInv, BeforeTree, WithTree, Alive, gate, books, Tasks
<1>29. CASE LeaderExits(o)
  BY <1>0, <1>29, GroupEndsParts
     DEF LeaderExits, Goto, TreeInv, BeforeTree, WithTree, Alive, gate, books, Tasks
<1>30. CASE DescendantsEnd(o)
  BY <1>0, <1>30, GroupEndsParts
     DEF DescendantsEnd, Goto, TreeInv, BeforeTree, WithTree, Alive, gate, books, Tasks
<1>31. CASE Interrupt(o)
  BY <1>0, <1>31
     DEF Interrupt, Transition, Goto, TreeInv, BeforeTree, WithTree, Alive, gate, books,
         Tasks
<1>32. CASE AbortTask(o)
  <2>1. CASE GroupEnds(o, "dropped")
    BY <1>0, <1>32, <2>1, GroupEndsParts
       DEF AbortTask, TreeInv, BeforeTree, WithTree, Alive, Tasks
  <2>2. CASE ~GroupEnds(o, "dropped")
    <3> DEFINE guarded == task[o] \in {"running", "killing"} /\ o \notin Pty
    <3>1. /\ o \in drained
          /\ guarded => tree[o] # "gone"
          /\ tree' = IF guarded THEN [tree EXCEPT ![o] = "left"] ELSE tree
          /\ task' = [task EXCEPT ![o] = "dropped"]
          /\ UNCHANGED <<verdict, drained, handles, unstored>>
      BY <1>32, <2>2 DEF AbortTask, Goto, books
    <3>2. CASE guarded
      <4>1. /\ tree' = [tree EXCEPT ![o] = "left"] /\ tree[o] # "gone"
            /\ task[o] \in {"running", "killing"}
        BY <3>1, <3>2
      <4>2. ASSUME NEW x \in Op, Alive(Home[x])', ~Alive(Home[x])
            PROVE  task[x] = "none"
        BY <1>0, <4>1, <4>2 DEF TreeInv, Alive
      <4> QED
        BY <1>0, <3>1, <4>1, <4>2 DEF TreeInv, BeforeTree, WithTree
    <3>3. CASE ~guarded
      BY <1>0, <3>1, <3>3 DEF TreeInv, BeforeTree, WithTree, Alive
    <3> QED
      BY <3>2, <3>3
  <2> QED
    BY <2>1, <2>2
<1>33. CASE StrayLocks(o)
  BY <1>0, <1>33
     DEF StrayLocks, Goto, TreeInv, BeforeTree, WithTree, Alive, gate, books, Tasks
<1>34. CASE SoftRelease(o)
  BY <1>0, <1>34
     DEF SoftRelease, TreeInv, BeforeTree, WithTree, Alive, gate, books, Tasks
<1> QED
  BY <1>1, <1>2, <1>3, <1>4, <1>5, <1>6, <1>7, <1>8, <1>9, <1>10, <1>11, <1>12, <1>13,
     <1>14, <1>15, <1>16, <1>17, <1>18, <1>19, <1>20, <1>21, <1>22, <1>23, <1>24, <1>25,
     <1>26, <1>27, <1>28, <1>29, <1>30, <1>31, <1>32, <1>33, <1>34
     DEF OpStep, Call, Prepare, Finish

\* The two locks of the gate stay with the task that took them.
LEMMA GateOpStep ==
    ASSUME IInv, NEW o \in Op, OpStep(o)
    PROVE  GateInv'
<1> USE AsyncRunAssumption, NoneIsNoStatus
<1>0. /\ AsyncTypeOK /\ LinesOK /\ task \in [Op -> Tasks] /\ permit \in [Proc -> Op \cup {None}]
      /\ groupLock \in Op \cup {None}
      /\ GateInv
  BY DEF IInv, AsyncTypeOK
<1>1. CASE Submit(o)
  BY <1>0, <1>1
     DEF Submit, Goto, GateInv, WithPermit, WithLock, gate, books, Tasks
<1>2. CASE Spawn(o)
  BY <1>0, <1>2
     DEF Spawn, Goto, GateInv, WithPermit, WithLock, gate, books, Tasks
<1>3. CASE BeginPty(o)
  BY <1>0, <1>3
     DEF BeginPty, Transition, Goto, GateInv, WithPermit, WithLock, gate, books, Tasks
<1>4. CASE SpawnPty(o)
  BY <1>0, <1>4
     DEF SpawnPty, Goto, GateInv, WithPermit, WithLock, gate, books, Tasks
<1>5. CASE StoreHandle(o)
  BY <1>0, <1>5
     DEF StoreHandle, Goto, GateInv, WithPermit, WithLock, gate, books, Tasks
<1>6. CASE LookUp(o)
  BY <1>0, <1>6
     DEF LookUp, Goto, GateInv, WithPermit, WithLock, gate, books, Tasks
<1>7. CASE TakeLease(o)
  BY <1>0, <1>7
     DEF TakeLease, Goto, GateInv, WithPermit, WithLock, gate, books, Tasks
<1>8. CASE GiveUpQueueing(o)
  BY <1>0, <1>8
     DEF GiveUpQueueing, Goto, GateInv, WithPermit, WithLock, gate, books, Tasks
<1>9. CASE Begin(o)
  BY <1>0, <1>9
     DEF Begin, Transition, Goto, GateInv, WithPermit, WithLock, gate, books, Tasks
<1>10. CASE CheckToken(o)
  BY <1>0, <1>10
     DEF CheckToken, Goto, GateInv, WithPermit, WithLock, gate, books, Tasks
<1>11. CASE TakePermit(o)
  BY <1>0, <1>11
     DEF TakePermit, Goto, GateInv, WithPermit, WithLock, gate, books, Tasks
<1>12. CASE MaxWaitElapses(o)
  BY <1>0, <1>12
     DEF MaxWaitElapses, Goto, GateInv, WithPermit, WithLock, gate, books, Tasks
<1>13. CASE GateTimesOut(o)
  BY <1>0, <1>13
     DEF GateTimesOut, Fails, Goto, GateInv, WithPermit, WithLock, gate, books, Tasks
<1>14. CASE LockGroup(o)
  BY <1>0, <1>14
     DEF LockGroup, Goto, GateInv, WithPermit, WithLock, gate, books, Tasks
<1>15. CASE NoGroupLock(o)
  BY <1>0, <1>15
     DEF NoGroupLock, Goto, GateInv, WithPermit, WithLock, gate, books, Tasks
<1>16. CASE FailToStart(o)
  BY <1>0, <1>16
     DEF FailToStart, Fails, Goto, GateInv, WithPermit, WithLock, gate, books, Tasks
<1>17. CASE StartTree(o)
  BY <1>0, <1>17
     DEF StartTree, Goto, GateInv, WithPermit, WithLock, gate, books, Tasks
<1>18. CASE NoticeExit(o)
  BY <1>0, <1>18
     DEF NoticeExit, Goto, GateInv, WithPermit, WithLock, gate, books, Tasks
<1>19. CASE DrainEnds(o)
  BY <1>0, <1>19
     DEF DrainEnds, Ends, Goto, GateInv, WithPermit, WithLock, gate, books, Tasks
<1>20. CASE PtyHangsUp(o)
  BY <1>0, <1>20
     DEF PtyHangsUp, Goto, GateInv, WithPermit, WithLock, gate, books, Tasks
<1>21. CASE NoticePtyExit(o)
  BY <1>0, <1>21
     DEF NoticePtyExit, Ends, Goto, GateInv, WithPermit, WithLock, gate, books, Tasks
<1>22. CASE NoticeCancel(o)
  BY <1>0, <1>22
     DEF NoticeCancel, Ends, Goto, GateInv, WithPermit, WithLock, gate, books, Tasks
<1>23. CASE RunTimesOut(o)
  BY <1>0, <1>23
     DEF RunTimesOut, Ends, Goto, GateInv, WithPermit, WithLock, gate, books, Tasks
<1>24. CASE KillTree(o)
  BY <1>0, <1>24, GroupEndsParts
     DEF KillTree, Goto, GateInv, WithPermit, WithLock, gate, books, Tasks
<1>25. CASE DropLease(o)
  BY <1>0, <1>25
     DEF DropLease, Goto, GateInv, WithPermit, WithLock, gate, books, Tasks
<1>26. CASE Report(o)
  BY <1>0, <1>26
     DEF Report, Transition, Goto, GateInv, WithPermit, WithLock, gate, books, Tasks
<1>27. CASE Close(o)
  BY <1>0, <1>27
     DEF Close, DropsGate, Goto, GateInv, WithPermit, WithLock, gate, books, Tasks
<1>28. CASE Unwind(o)
  BY <1>0, <1>28
     DEF Unwind, DropsGate, Goto, GateInv, WithPermit, WithLock, gate, books, Tasks
<1>29. CASE LeaderExits(o)
  BY <1>0, <1>29, GroupEndsParts
     DEF LeaderExits, Goto, GateInv, WithPermit, WithLock, gate, books, Tasks
<1>30. CASE DescendantsEnd(o)
  BY <1>0, <1>30, GroupEndsParts
     DEF DescendantsEnd, Goto, GateInv, WithPermit, WithLock, gate, books, Tasks
<1>31. CASE Interrupt(o)
  BY <1>0, <1>31
     DEF Interrupt, Transition, Goto, GateInv, WithPermit, WithLock, gate, books, Tasks
<1>32. CASE AbortTask(o)
  BY <1>0, <1>32, GroupEndsParts
     DEF AbortTask, Goto, GateInv, WithPermit, WithLock, gate, books, Tasks
<1>33. CASE StrayLocks(o)
  BY <1>0, <1>33
     DEF StrayLocks, Goto, GateInv, WithPermit, WithLock, gate, books, Tasks
<1>34. CASE SoftRelease(o)
  BY <1>0, <1>34
     DEF SoftRelease, GateInv, WithPermit, WithLock, gate, books, Tasks
<1> QED
  BY <1>1, <1>2, <1>3, <1>4, <1>5, <1>6, <1>7, <1>8, <1>9, <1>10, <1>11, <1>12, <1>13,
     <1>14, <1>15, <1>16, <1>17, <1>18, <1>19, <1>20, <1>21, <1>22, <1>23, <1>24, <1>25,
     <1>26, <1>27, <1>28, <1>29, <1>30, <1>31, <1>32, <1>33, <1>34
     DEF OpStep, Call, Prepare, Finish

\* A published result stays true of the tree and the line.
LEMMA ResultOpStep ==
    ASSUME IInv, NEW o \in Op, OpStep(o)
    PROVE  ResultInv'
<1> USE AsyncRunAssumption, NoneIsNoStatus
<1>0. /\ AsyncTypeOK /\ LinesOK /\ task \in [Op -> Tasks] /\ tree \in [Op -> Trees]
      /\ verdict \in [Op -> Verdicts \cup {None}]
      /\ status \in [Op -> Active \cup Verdicts \cup {None}]
      /\ LineInv /\ TreeInv /\ ResultInv
  BY DEF IInv, AsyncTypeOK
<1>1. CASE Submit(o)
  BY <1>0, <1>1, Keeping, Arriving
     DEF Submit, Goto, LineInv, TreeInv, ResultInv, Succeeded, Verdicts, BeforeTree,
         Active, gate, books, Tasks
<1>2. CASE Spawn(o)
  BY <1>0, <1>2, Keeping
     DEF Spawn, Goto, LineInv, TreeInv, ResultInv, Succeeded, Verdicts, BeforeTree,
         Active, gate, books, Tasks
<1>3. CASE BeginPty(o)
  BY <1>0, <1>3, Keeping
     DEF BeginPty, Transition, Goto, LineInv, TreeInv, ResultInv, Succeeded, Verdicts,
         BeforeTree, Active, gate, books, Tasks
<1>4. CASE SpawnPty(o)
  BY <1>0, <1>4, Arriving
     DEF SpawnPty, Goto, LineInv, TreeInv, ResultInv, Succeeded, Verdicts, BeforeTree,
         Active, gate, books, Tasks
<1>5. CASE StoreHandle(o)
  BY <1>0, <1>5, Keeping
     DEF StoreHandle, Goto, LineInv, TreeInv, ResultInv, Succeeded, Verdicts,
         BeforeTree, Active, gate, books, Tasks
<1>6. CASE LookUp(o)
  BY <1>0, <1>6, Keeping, Dropping
     DEF LookUp, Goto, LineInv, TreeInv, ResultInv, Succeeded, Verdicts, BeforeTree,
         Active, gate, books, Tasks
<1>7. CASE TakeLease(o)
  BY <1>0, <1>7, Taking
     DEF TakeLease, Goto, LineInv, TreeInv, ResultInv, Succeeded, Verdicts, BeforeTree,
         Active, gate, books, Tasks
<1>8. CASE GiveUpQueueing(o)
  BY <1>0, <1>8, Dropping
     DEF GiveUpQueueing, Goto, LineInv, TreeInv, ResultInv, Succeeded, Verdicts,
         BeforeTree, Active, gate, books, Tasks
<1>9. CASE Begin(o)
  BY <1>0, <1>9, Keeping
     DEF Begin, Transition, Goto, LineInv, TreeInv, ResultInv, Succeeded, Verdicts,
         BeforeTree, Active, gate, books, Tasks
<1>10. CASE CheckToken(o)
  BY <1>0, <1>10, Keeping, Dropping
     DEF CheckToken, Goto, LineInv, TreeInv, ResultInv, Succeeded, Verdicts, BeforeTree,
         Active, gate, books, Tasks
<1>11. CASE TakePermit(o)
  BY <1>0, <1>11, Keeping
     DEF TakePermit, Goto, LineInv, TreeInv, ResultInv, Succeeded, Verdicts, BeforeTree,
         Active, gate, books, Tasks
<1>12. CASE MaxWaitElapses(o)
  BY <1>0, <1>12, Keeping
     DEF MaxWaitElapses, Goto, LineInv, TreeInv, ResultInv, Succeeded, Verdicts,
         BeforeTree, Active, gate, books, Tasks
<1>13. CASE GateTimesOut(o)
  BY <1>0, <1>13, Keeping
     DEF GateTimesOut, Fails, Goto, LineInv, TreeInv, ResultInv, Succeeded, Verdicts,
         BeforeTree, Active, gate, books, Tasks
<1>14. CASE LockGroup(o)
  BY <1>0, <1>14, Keeping
     DEF LockGroup, Goto, LineInv, TreeInv, ResultInv, Succeeded, Verdicts, BeforeTree,
         Active, gate, books, Tasks
<1>15. CASE NoGroupLock(o)
  BY <1>0, <1>15, Keeping
     DEF NoGroupLock, Goto, LineInv, TreeInv, ResultInv, Succeeded, Verdicts,
         BeforeTree, Active, gate, books, Tasks
<1>16. CASE FailToStart(o)
  BY <1>0, <1>16, Keeping
     DEF FailToStart, Fails, Goto, LineInv, TreeInv, ResultInv, Succeeded, Verdicts,
         BeforeTree, Active, gate, books, Tasks
<1>17. CASE StartTree(o)
  BY <1>0, <1>17, Keeping
     DEF StartTree, Goto, LineInv, TreeInv, ResultInv, Succeeded, Verdicts, BeforeTree,
         Active, gate, books, Tasks
<1>18. CASE NoticeExit(o)
  BY <1>0, <1>18, Keeping
     DEF NoticeExit, Goto, LineInv, TreeInv, ResultInv, Succeeded, Verdicts, BeforeTree,
         Active, gate, books, Tasks
<1>19. CASE DrainEnds(o)
  BY <1>0, <1>19, Keeping
     DEF DrainEnds, Ends, Goto, LineInv, TreeInv, ResultInv, Succeeded, Verdicts,
         BeforeTree, Active, gate, books, Tasks
<1>20. CASE PtyHangsUp(o)
  BY <1>0, <1>20, Keeping
     DEF PtyHangsUp, Goto, LineInv, TreeInv, ResultInv, Succeeded, Verdicts, BeforeTree,
         Active, gate, books, Tasks
<1>21. CASE NoticePtyExit(o)
  BY <1>0, <1>21, Keeping
     DEF NoticePtyExit, Ends, Goto, LineInv, TreeInv, ResultInv, Succeeded, Verdicts,
         BeforeTree, Active, gate, books, Tasks
<1>22. CASE NoticeCancel(o)
  BY <1>0, <1>22, Keeping
     DEF NoticeCancel, Ends, Goto, LineInv, TreeInv, ResultInv, Succeeded, Verdicts,
         BeforeTree, Active, gate, books, Tasks
<1>23. CASE RunTimesOut(o)
  BY <1>0, <1>23, Keeping
     DEF RunTimesOut, Ends, Goto, LineInv, TreeInv, ResultInv, Succeeded, Verdicts,
         BeforeTree, Active, gate, books, Tasks
<1>24. CASE KillTree(o)
  BY <1>0, <1>24, Keeping, GroupEndsParts
     DEF KillTree, Goto, LineInv, TreeInv, ResultInv, Succeeded, Verdicts, BeforeTree,
         Active, gate, books, Tasks
<1>25. CASE DropLease(o)
  BY <1>0, <1>25, Dropping
     DEF DropLease, Goto, LineInv, TreeInv, ResultInv, Succeeded, Verdicts, BeforeTree,
         Active, gate, books, Tasks
<1>26. CASE Report(o)
  BY <1>0, <1>26, Keeping
     DEF Report, Transition, Goto, LineInv, TreeInv, ResultInv, Succeeded, Verdicts,
         BeforeTree, Active, gate, books, Tasks
<1>27. CASE Close(o)
  BY <1>0, <1>27, Keeping
     DEF Close, DropsGate, Goto, LineInv, TreeInv, ResultInv, Succeeded, Verdicts,
         BeforeTree, Active, gate, books, Tasks
<1>28. CASE Unwind(o)
  BY <1>0, <1>28, Dropping
     DEF Unwind, DropsGate, Goto, LineInv, TreeInv, ResultInv, Succeeded, Verdicts,
         BeforeTree, Active, gate, books, Tasks
<1>29. CASE LeaderExits(o)
  BY <1>0, <1>29, Keeping, GroupEndsParts
     DEF LeaderExits, Goto, LineInv, TreeInv, ResultInv, Succeeded, Verdicts,
         BeforeTree, Active, gate, books, Tasks
<1>30. CASE DescendantsEnd(o)
  BY <1>0, <1>30, GroupEndsParts
     DEF DescendantsEnd, Goto, LineInv, TreeInv, ResultInv, Succeeded, Verdicts,
         BeforeTree, Active, gate, books, Tasks
<1>31. CASE Interrupt(o)
  BY <1>0, <1>31, Keeping
     DEF Interrupt, Transition, Goto, LineInv, TreeInv, ResultInv, Succeeded, Verdicts,
         BeforeTree, Active, gate, books, Tasks
<1>32. CASE AbortTask(o)
  BY <1>0, <1>32, Keeping, GroupEndsParts
     DEF AbortTask, Goto, LineInv, TreeInv, ResultInv, Succeeded, Verdicts, BeforeTree,
         Active, gate, books, Tasks
<1>33. CASE StrayLocks(o)
  BY <1>0, <1>33, Keeping
     DEF StrayLocks, Goto, LineInv, TreeInv, ResultInv, Succeeded, Verdicts, BeforeTree,
         Active, gate, books, Tasks
<1>34. CASE SoftRelease(o)
  BY <1>0, <1>34, Leaving
     DEF SoftRelease, LineInv, TreeInv, ResultInv, Succeeded, Verdicts, BeforeTree,
         Active, gate, books, Tasks
<1> QED
  BY <1>1, <1>2, <1>3, <1>4, <1>5, <1>6, <1>7, <1>8, <1>9, <1>10, <1>11, <1>12, <1>13,
     <1>14, <1>15, <1>16, <1>17, <1>18, <1>19, <1>20, <1>21, <1>22, <1>23, <1>24, <1>25,
     <1>26, <1>27, <1>28, <1>29, <1>30, <1>31, <1>32, <1>33, <1>34
     DEF OpStep, Call, Prepare, Finish

\* The task of every operation is booked until it ends.
LEMMA HandleOpStep ==
    ASSUME IInv, NEW o \in Op, OpStep(o)
    PROVE  ShutdownReachesTasks'
<1> USE AsyncRunAssumption, NoneIsNoStatus
<1>0. /\ AsyncTypeOK /\ LinesOK /\ task \in [Op -> Tasks]
      /\ status \in [Op -> Active \cup Verdicts \cup {None}]
      /\ phase \in [Proc -> {"up", "cancelled", "drained"}]
      /\ ShutdownReachesTasks
  BY DEF IInv, AsyncTypeOK
<1>1. CASE Submit(o)
  BY <1>0, <1>1
     DEF Submit, Goto, ShutdownReachesTasks, Active, Verdicts, books, Tasks
<1>2. CASE Spawn(o)
  BY <1>0, <1>2
     DEF Spawn, Goto, ShutdownReachesTasks, Active, Verdicts, books, Tasks
<1>3. CASE BeginPty(o)
  BY <1>0, <1>3
     DEF BeginPty, Transition, Goto, ShutdownReachesTasks, Active, Verdicts, books, Tasks
<1>4. CASE SpawnPty(o)
  BY <1>0, <1>4
     DEF SpawnPty, Goto, ShutdownReachesTasks, Active, Verdicts, books, Tasks
<1>5. CASE StoreHandle(o)
  BY <1>0, <1>5
     DEF StoreHandle, Goto, ShutdownReachesTasks, Active, Verdicts, books, Tasks
<1>6. CASE LookUp(o)
  BY <1>0, <1>6
     DEF LookUp, Goto, ShutdownReachesTasks, Active, Verdicts, books, Tasks
<1>7. CASE TakeLease(o)
  BY <1>0, <1>7
     DEF TakeLease, Goto, ShutdownReachesTasks, Active, Verdicts, books, Tasks
<1>8. CASE GiveUpQueueing(o)
  BY <1>0, <1>8
     DEF GiveUpQueueing, Goto, ShutdownReachesTasks, Active, Verdicts, books, Tasks
<1>9. CASE Begin(o)
  BY <1>0, <1>9
     DEF Begin, Transition, Goto, ShutdownReachesTasks, Active, Verdicts, books, Tasks
<1>10. CASE CheckToken(o)
  BY <1>0, <1>10
     DEF CheckToken, Goto, ShutdownReachesTasks, Active, Verdicts, books, Tasks
<1>11. CASE TakePermit(o)
  BY <1>0, <1>11
     DEF TakePermit, Goto, ShutdownReachesTasks, Active, Verdicts, books, Tasks
<1>12. CASE MaxWaitElapses(o)
  BY <1>0, <1>12
     DEF MaxWaitElapses, Goto, ShutdownReachesTasks, Active, Verdicts, books, Tasks
<1>13. CASE GateTimesOut(o)
  BY <1>0, <1>13
     DEF GateTimesOut, Fails, Goto, ShutdownReachesTasks, Active, Verdicts, books, Tasks
<1>14. CASE LockGroup(o)
  BY <1>0, <1>14
     DEF LockGroup, Goto, ShutdownReachesTasks, Active, Verdicts, books, Tasks
<1>15. CASE NoGroupLock(o)
  BY <1>0, <1>15
     DEF NoGroupLock, Goto, ShutdownReachesTasks, Active, Verdicts, books, Tasks
<1>16. CASE FailToStart(o)
  BY <1>0, <1>16
     DEF FailToStart, Fails, Goto, ShutdownReachesTasks, Active, Verdicts, books, Tasks
<1>17. CASE StartTree(o)
  BY <1>0, <1>17
     DEF StartTree, Goto, ShutdownReachesTasks, Active, Verdicts, books, Tasks
<1>18. CASE NoticeExit(o)
  BY <1>0, <1>18
     DEF NoticeExit, Goto, ShutdownReachesTasks, Active, Verdicts, books, Tasks
<1>19. CASE DrainEnds(o)
  BY <1>0, <1>19
     DEF DrainEnds, Ends, Goto, ShutdownReachesTasks, Active, Verdicts, books, Tasks
<1>20. CASE PtyHangsUp(o)
  BY <1>0, <1>20
     DEF PtyHangsUp, Goto, ShutdownReachesTasks, Active, Verdicts, books, Tasks
<1>21. CASE NoticePtyExit(o)
  BY <1>0, <1>21
     DEF NoticePtyExit, Ends, Goto, ShutdownReachesTasks, Active, Verdicts, books, Tasks
<1>22. CASE NoticeCancel(o)
  BY <1>0, <1>22
     DEF NoticeCancel, Ends, Goto, ShutdownReachesTasks, Active, Verdicts, books, Tasks
<1>23. CASE RunTimesOut(o)
  BY <1>0, <1>23
     DEF RunTimesOut, Ends, Goto, ShutdownReachesTasks, Active, Verdicts, books, Tasks
<1>24. CASE KillTree(o)
  BY <1>0, <1>24, GroupEndsParts
     DEF KillTree, Goto, ShutdownReachesTasks, Active, Verdicts, books, Tasks
<1>25. CASE DropLease(o)
  BY <1>0, <1>25
     DEF DropLease, Goto, ShutdownReachesTasks, Active, Verdicts, books, Tasks
<1>26. CASE Report(o)
  BY <1>0, <1>26
     DEF Report, Transition, Goto, ShutdownReachesTasks, Active, Verdicts, books, Tasks
<1>27. CASE Close(o)
  BY <1>0, <1>27
     DEF Close, DropsGate, Goto, ShutdownReachesTasks, Active, Verdicts, books, Tasks
<1>28. CASE Unwind(o)
  BY <1>0, <1>28
     DEF Unwind, DropsGate, Goto, ShutdownReachesTasks, Active, Verdicts, books, Tasks
<1>29. CASE LeaderExits(o)
  BY <1>0, <1>29, GroupEndsParts
     DEF LeaderExits, Goto, ShutdownReachesTasks, Active, Verdicts, books, Tasks
<1>30. CASE DescendantsEnd(o)
  BY <1>0, <1>30, GroupEndsParts
     DEF DescendantsEnd, Goto, ShutdownReachesTasks, Active, Verdicts, books, Tasks
<1>31. CASE Interrupt(o)
  BY <1>0, <1>31
     DEF Interrupt, Transition, Goto, ShutdownReachesTasks, Active, Verdicts, books, Tasks
<1>32. CASE AbortTask(o)
  BY <1>0, <1>32, GroupEndsParts
     DEF AbortTask, IInv, TreeInv, Goto, ShutdownReachesTasks, Active, Verdicts, books, Tasks
<1>33. CASE StrayLocks(o)
  BY <1>0, <1>33
     DEF StrayLocks, Goto, ShutdownReachesTasks, Active, Verdicts, books, Tasks
<1>34. CASE SoftRelease(o)
  BY <1>0, <1>34
     DEF SoftRelease, ShutdownReachesTasks, Active, Verdicts, books, Tasks
<1> QED
  BY <1>1, <1>2, <1>3, <1>4, <1>5, <1>6, <1>7, <1>8, <1>9, <1>10, <1>11, <1>12, <1>13,
     <1>14, <1>15, <1>16, <1>17, <1>18, <1>19, <1>20, <1>21, <1>22, <1>23, <1>24, <1>25,
     <1>26, <1>27, <1>28, <1>29, <1>30, <1>31, <1>32, <1>33, <1>34
     DEF OpStep, Call, Prepare, Finish

-----------------------------------------------------------------------------
\* A step of a shutdown, and one that changes nothing.
LEMMA OtherStep ==
    ASSUME IInv, (\E p \in Proc : Shutdown(p)) \/ UNCHANGED vars
    PROVE  (LineInv /\ HolderInv /\ TreeInv /\ GateInv /\ ResultInv /\ ShutdownReachesTasks)'
<1>1. ASSUME NEW p \in Proc, ShutdownCancels(p) \/ ShutdownDrains(p)
      PROVE  /\ UNCHANGED <<lease, task, verdict, tree, permit, groupLock, unstored, late>>
             /\ \A o \in Op : status'[o] \in Succeeded => status[o] \in Succeeded
             /\ drained \subseteq drained'
             /\ handles' \cup drained' = handles \cup drained
  BY <1>1 DEF ShutdownCancels, ShutdownDrains, Succeeded, gate
<1>2. /\ UNCHANGED <<lease, task, verdict, tree, permit, groupLock, unstored, late>>
      /\ \A o \in Op : status'[o] \in Succeeded => status[o] \in Succeeded
      /\ drained \subseteq drained'
      /\ handles' \cup drained' = handles \cup drained
  BY <1>1 DEF Shutdown, vars, lease
<1>3. /\ \A o \in Op : InLine(o)' <=> InLine(o)
      /\ holders' = holders /\ handedOn' = handedOn
  BY <1>2, Keeping DEF IInv, lease
<1>4. \A o \in Op : Alive(Home[o])' <=> Alive(Home[o])
  BY <1>2 DEF Alive
<1>5. (LineInv /\ HolderInv)'
  BY <1>2, <1>3 DEF IInv, LineInv, HolderInv
<1>6. TreeInv'
  BY <1>2, <1>4 DEF IInv, TreeInv
<1>7. (GateInv /\ ResultInv)'
  BY <1>2, <1>3 DEF IInv, GateInv, ResultInv
<1>8. ShutdownReachesTasks'
  <2>0. /\ \A o \in Op : Home[o] \in Proc
        /\ phase \in [Proc -> {"up", "cancelled", "drained"}]
        /\ ShutdownReachesTasks
    BY AsyncRunAssumption DEF IInv, AsyncTypeOK
  <2>1. ASSUME NEW p \in Proc, ShutdownCancels(p)
        PROVE  ShutdownReachesTasks'
    <3> SUFFICES ASSUME NEW o \in Op, task'[o] \notin {"none", "added", "begun", "ended"}
                 PROVE  \/ o \in unstored'
                        \/ o \in late' \cap (handles' \cup drained')
                        \/ o \in handles' /\ phase'[Home[o]] = "up"
                        \/ /\ status'[o] \notin Active
                           /\ \/ o \in handles' /\ phase'[Home[o]] = "cancelled"
                              \/ o \in drained' /\ phase'[Home[o]] = "drained"
      BY DEF ShutdownReachesTasks
    <3> DEFINE S == {x \in handles : Home[x] = p /\ status[x] \in Active}
    <3>1. /\ phase' = [phase EXCEPT ![p] = "cancelled"] /\ phase[p] = "up"
          /\ UNCHANGED <<task, handles, unstored, late, drained>>
          /\ status'[o] = IF o \in S THEN "Cancelled" ELSE status[o]
      BY <2>1 DEF ShutdownCancels
    <3>2. status[o] \notin Active => status'[o] \notin Active
      BY <3>1 DEF Active
    <3>3. CASE Home[o] = p
      <4>1. phase'[Home[o]] = "cancelled" /\ phase[Home[o]] = "up"
        BY <2>0, <3>1, <3>3
      <4>2. o \in handles => status'[o] \notin Active
        BY <3>1, <3>3 DEF Active
      <4>3. \/ o \in unstored \/ o \in late \cap (handles \cup drained) \/ o \in handles
        BY <2>0, <3>1, <4>1 DEF ShutdownReachesTasks
      <4> QED
        BY <3>1, <4>1, <4>2, <4>3
    <3>4. CASE Home[o] # p
      BY <2>0, <3>1, <3>2, <3>4 DEF ShutdownReachesTasks
    <3> QED
      BY <3>3, <3>4
  <2>2. ASSUME NEW p \in Proc, ShutdownDrains(p)
        PROVE  ShutdownReachesTasks'
    BY <2>0, <2>2 DEF ShutdownDrains, ShutdownReachesTasks
  <2>3. CASE UNCHANGED vars
    BY <2>0, <2>3 DEF vars, ShutdownReachesTasks
  <2> QED
    BY <2>1, <2>2, <2>3 DEF Shutdown
<1> QED
  BY <1>5, <1>6, <1>7, <1>8

LEMMA InitIInv == Init => IInv
<1> SUFFICES ASSUME Init PROVE IInv
  OBVIOUS
<1>1. /\ line = [p \in Proc |-> <<>>] /\ holders = {}
      /\ task = [o \in Op |-> "none"] /\ status = [o \in Op |-> None]
      /\ verdict = [o \in Op |-> None] /\ tree = [o \in Op |-> "none"]
      /\ permit = [p \in Proc |-> None] /\ groupLock = None
      /\ phase = [p \in Proc |-> "up"]
      /\ UNION {handedOn, token, stray, waited, handles, unstored, late, drained} = {}
  BY DEF Init, Lease!LeaseInit
<1>2. <<>> \in Seq(Op) /\ DOMAIN <<>> = {}
  OBVIOUS
<1>3. AsyncTypeOK
  BY <1>1, <1>2 DEF AsyncTypeOK, Lease!LeaseTypeOK, Tasks, Trees
<1>4. LinesOK
  BY <1>1, <1>2 DEF LinesOK
<1>5. \A o \in Op : ~InLine(o)
  BY <1>1, <1>2, AsyncRunAssumption DEF InLine, Lease!InSomeLine
<1>6. LineInv /\ HolderInv /\ ShutdownReachesTasks
  BY <1>1, <1>5 DEF LineInv, HolderInv, Leased, ShutdownReachesTasks
<1>7. TreeInv /\ GateInv
  BY <1>1, AsyncRunAssumption DEF TreeInv, GateInv
<1>8. ResultInv
  BY <1>1, <1>5, NoneIsNoStatus DEF ResultInv, Succeeded, Active, Verdicts
<1> QED
  BY <1>3, <1>4, <1>6, <1>7, <1>8 DEF IInv

\* The invariant of every reachable state, by which the theorems below hold.
THEOREM Invariant == Spec => []IInv
<1>1. IInv /\ [Next]_vars => IInv'
  <2> SUFFICES ASSUME IInv, [Next]_vars PROVE IInv'
    OBVIOUS
  <2>1. (AsyncTypeOK /\ LinesOK)'
    BY TypeStep DEF IInv
  <2>2. (LineInv /\ HolderInv /\ TreeInv /\ GateInv /\ ResultInv /\ ShutdownReachesTasks)'
    <3>1. CASE \E o \in Op : OpStep(o)
      BY <3>1, LineOpStep, HolderOpStep, TreeOpStep, GateOpStep, ResultOpStep, HandleOpStep
    <3>2. CASE (\E p \in Proc : Shutdown(p)) \/ UNCHANGED vars
      BY <3>2, OtherStep
    <3> QED
      BY <3>1, <3>2 DEF Next, OpStep
  <2> QED
    BY <2>1, <2>2 DEF IInv
<1> QED
  BY <1>1, InitIInv, PTL DEF Spec

\* Every variable keeps its type; among them, a task that is about to publish
\* has a verdict to publish.
THEOREM TypeCorrect == Spec => []AsyncTypeOK
<1>1. IInv => AsyncTypeOK
  BY DEF IInv
<1> QED
  BY <1>1, Invariant, PTL

\* R2.7.1, R2.7.11: on every path, the leader of an exclusive command runs under
\* the lease until its soft hold, if it has one, is over, however many operations
\* wait, are interrupted, or are aborted.
THEOREM LeadersHoldTheLease == Spec => []LeaderUnderLease
<1>1. IInv => LeaderUnderLease
  BY DEF IInv, LeaderUnderLease, HolderInv, TreeInv, Leased, WithTree
<1> QED
  BY <1>1, Invariant, PTL

\* mutex_groups.rs: two commands of the group never run at once, in any number
\* of processes, but for one that could not open the group's lock file.
THEOREM GateExcludes == Spec => []GateIsExclusive
<1>1. IInv => GateIsExclusive
  <2> SUFFICES ASSUME IInv, NEW o \in Gated, NEW x \in Gated, o \in Op, x \in Op,
                      tree[o] = "leader", tree[x] = "leader", o # x,
                      Alive(Home[o]), Alive(Home[x]),
                      ~(/\ Home[o] # Home[x]
                        /\ \E y \in {o, x} : Home[y] \in NoLockDir /\ groupLock # y)
               PROVE  FALSE
    BY AsyncRunAssumption DEF GateIsExclusive
  <2>1. o \notin Pty /\ x \notin Pty
    BY AsyncRunAssumption
  <2>2. task[o] \in WithTree /\ task[x] \in WithTree
    BY <2>1 DEF IInv, TreeInv
  <2>3. /\ permit[Home[o]] = o /\ permit[Home[x]] = x
        /\ groupLock = o \/ Home[o] \in NoLockDir
        /\ groupLock = x \/ Home[x] \in NoLockDir
    BY <2>2 DEF IInv, GateInv, WithTree
  <2> QED
    BY <2>3
<1> QED
  BY <1>1, Invariant, PTL

\* finalize_streaming_operation: whoever sees the result of a command finds its
\* place in line given back and nobody at its output.
THEOREM ResultsComeLast == Spec => []ResultFreesLease
<1>1. IInv => ResultFreesLease
  BY DEF IInv, ResultFreesLease, ResultInv, Succeeded, InLine
<1> QED
  BY <1>1, Invariant, PTL

\* Every return of the task and every abort gives back the place in line and
\* the gate, and leaves no leader but that of a pseudo-terminal.
THEOREM TasksCleanUp == Spec => []NothingOutlivesTask
<1>1. IInv => NothingOutlivesTask
  BY DEF IInv, NothingOutlivesTask, LineInv, TreeInv, GateInv, WithTree, WithPermit,
         WithLock, InLine
<1> QED
  BY <1>1, Invariant, PTL

\* Adapter::shutdown: in no interleaving of callers, tasks and a shutdown does a
\* task escape it, or go on with its operation unsettled, but one whose handle was
\* not stored when the shutdown first looked.
THEOREM ShutdownReaches == Spec => []ShutdownReachesTasks
<1>1. IInv => ShutdownReachesTasks
  BY DEF IInv
<1> QED
  BY <1>1, Invariant, PTL
-----------------------------------------------------------------------------
(***************************************************************************)
(* The lease as WorkspaceLease promises it, and who waits for whom.        *)
(***************************************************************************)
\* What a task does to the line is what the lease allows it.
LEMMA LeaseSteps ==
    ASSUME NEW o \in Op, OpStep(o)
    PROVE  Lease!LeaseNext \/ UNCHANGED lease
<1>1. ASSUME NEW x \in Op, NEW stage, GroupEnds(x, stage)
      PROVE  Lease!LeaseNext
  <2>1. {p \in Proc : Parent[p] = x} \in SUBSET Proc
    OBVIOUS
  <2> QED
    BY <1>1, <2>1 DEF GroupEnds, Lease!LeaseNext
<1>2. CASE Submit(o) \/ SpawnPty(o)
  BY <1>2 DEF Submit, SpawnPty, Lease!LeaseNext
<1>3. CASE TakeLease(o) \/ SoftRelease(o)
  BY <1>3 DEF TakeLease, SoftRelease, Lease!LeaseNext
<1>4. CASE LookUp(o) \/ GiveUpQueueing(o) \/ CheckToken(o) \/ DropLease(o) \/ Unwind(o)
  BY <1>4 DEF LookUp, GiveUpQueueing, CheckToken, DropLease, Unwind, DropsLease,
              Lease!LeaseNext
<1>5. CASE KillTree(o) \/ LeaderExits(o) \/ DescendantsEnd(o) \/ AbortTask(o)
  BY <1>1, <1>5 DEF KillTree, LeaderExits, DescendantsEnd, AbortTask
<1>6. CASE \/ Spawn(o) \/ BeginPty(o) \/ StoreHandle(o) \/ Begin(o) \/ TakePermit(o)
           \/ GateTimesOut(o) \/ LockGroup(o) \/ NoGroupLock(o) \/ FailToStart(o)
           \/ StartTree(o) \/ MaxWaitElapses(o) \/ RunTimesOut(o)
  BY <1>6 DEF Spawn, BeginPty, StoreHandle, Begin, TakePermit, GateTimesOut, LockGroup,
              NoGroupLock, FailToStart, StartTree, MaxWaitElapses, RunTimesOut
<1>7. CASE \/ NoticeExit(o) \/ DrainEnds(o) \/ PtyHangsUp(o) \/ NoticePtyExit(o)
           \/ NoticeCancel(o) \/ Report(o) \/ Close(o) \/ Interrupt(o) \/ StrayLocks(o)
  BY <1>7 DEF NoticeExit, DrainEnds, PtyHangsUp, NoticePtyExit, NoticeCancel, Report,
              Close, Interrupt, StrayLocks
<1> QED
  BY <1>2, <1>3, <1>4, <1>5, <1>6, <1>7 DEF OpStep, Call, Prepare, Finish

\* Stages at which a task may have the lease.
Holding == Leased \cup {"releasing", "reporting", "dropped"}

\* Who waits for the lease has a place, and who has it is not asleep in line.
PlaceInv ==
    \A o \in Op :
        /\ task[o] = "queueing" => InLine(o) /\ o \notin Unqueued
        /\ task[o] \in {"added", "looking"} /\ o \notin Pty \cup Unqueued => InLine(o)
        /\ task[o] = "looking" => o \notin Pty
        /\ o \in holders => InLine(o) /\ task[o] \in Holding

\* An ahma's line is of its own operations.
OwnInv == \A p \in Proc : \A k \in DOMAIN line[p] : Home[line[p][k]] = p

\* The lease is at the head of a line, and of one line if nothing is nested.
HeadInv ==
    /\ \A o \in holders : line[Home[o]] # <<>> /\ Head(line[Home[o]]) = o
    /\ \A o, x \in holders : o # x => Home[o] \in Lockless \/ Home[x] \in Lockless

LeaseInv == IInv /\ PlaceInv /\ HeadInv /\ OwnInv

LEMMA HeadStep ==
    ASSUME LinesOK, HeadInv, Lease!LeaseNext \/ UNCHANGED lease
    PROVE  HeadInv'
<1>0. /\ \A o \in Op : Home[o] \in Proc /\ line[Home[o]] \in Seq(Op)
      /\ holders \subseteq Op
  BY AsyncRunAssumption DEF LinesOK
<1>1. ASSUME NEW o \in Op, Lease!Arrive(o)
      PROVE  HeadInv'
  <2>1. holders' = holders /\ line' = [line EXCEPT ![Home[o]] = Append(@, o)]
    BY <1>1 DEF Lease!Arrive
  <2>2. ASSUME NEW h \in holders
        PROVE  line'[Home[h]] # <<>> /\ Head(line'[Home[h]]) = h
    <3>1. line[Home[h]] # <<>> /\ Head(line[Home[h]]) = h /\ line[Home[h]] \in Seq(Op)
      BY <1>0 DEF HeadInv
    <3>2. CASE Home[h] = Home[o]
      <4>1. line'[Home[h]] = Append(line[Home[h]], o)
        BY <1>0, <2>1, <3>2 DEF LinesOK
      <4> QED
        BY <3>1, <4>1
    <3>3. CASE Home[h] # Home[o]
      BY <1>0, <2>1, <3>1, <3>3 DEF LinesOK
    <3> QED
      BY <3>2, <3>3
  <2> QED
    BY <2>1, <2>2 DEF HeadInv
<1>2. ASSUME NEW o \in Op, Lease!Take(o)
      PROVE  HeadInv'
  BY <1>0, <1>2 DEF HeadInv, Lease!Take
<1>3. ASSUME NEW o \in Op, Lease!Leave(o)
      PROVE  HeadInv'
  <2>1. PICK i \in DOMAIN line[Home[o]] :
              line[Home[o]][i] = o /\ line' = [line EXCEPT ![Home[o]] = RemoveAt(@, i)]
    BY <1>3 DEF Lease!Leave, Lease!RemoveAt, RemoveAt
  <2>2. holders' = holders \ {o}
    BY <1>3 DEF Lease!Leave
  <2>3. ASSUME NEW h \in holders'
        PROVE  line'[Home[h]] # <<>> /\ Head(line'[Home[h]]) = h
    <3>1. /\ line[Home[h]] # <<>> /\ Head(line[Home[h]]) = h
          /\ line[Home[h]] \in Seq(Op) /\ h # o /\ h \in Op
      BY <1>0, <2>2 DEF HeadInv
    <3>2. CASE Home[h] = Home[o]
      <4> DEFINE s == line[Home[h]]
                 r == RemoveAt(s, i)
      <4>1. s \in Seq(Op) /\ i \in 1..Len(s) /\ Len(s) \in Nat /\ s[1] = h /\ s[i] = o
        BY <2>1, <3>1, <3>2
      <4>2. i # 1
        BY <3>1, <4>1
      <4>3. line'[Home[h]] = r
        BY <1>0, <2>1, <3>2 DEF LinesOK
      <4> HIDE DEF s
      <4>4. /\ r \in Seq(Op) /\ Len(r) = Len(s) - 1
            /\ \A j \in 1..(Len(s) - 1) : r[j] = IF j < i THEN s[j] ELSE s[j + 1]
        BY <4>1, RemoveAtElements, Zenon
      <4>5. 1 \in 1..(Len(s) - 1) /\ 1 < i
        BY <4>1, <4>2
      <4> HIDE DEF r
      <4>6. r[1] = h /\ r # <<>>
        BY <4>1, <4>4, <4>5
      <4> QED
        BY <4>3, <4>4, <4>6
    <3>3. CASE Home[h] # Home[o]
      BY <1>0, <2>1, <3>1, <3>3 DEF LinesOK
    <3> QED
      BY <3>2, <3>3
  <2> QED
    BY <2>2, <2>3 DEF HeadInv
<1>4. ASSUME NEW P \in SUBSET Proc, Lease!Vanish(P)
      PROVE  HeadInv'
  BY <1>0, <1>4 DEF HeadInv, Lease!Vanish
<1>5. CASE UNCHANGED lease
  BY <1>5 DEF HeadInv, lease
<1> QED
  BY <1>1, <1>2, <1>3, <1>4, <1>5 DEF Lease!LeaseNext

LEMMA OwnStep ==
    ASSUME LinesOK, OwnInv, Lease!LeaseNext \/ UNCHANGED lease
    PROVE  OwnInv'
<1>0. \A o \in Op : Home[o] \in Proc /\ line[Home[o]] \in Seq(Op)
  BY AsyncRunAssumption DEF LinesOK
<1>1. ASSUME NEW o \in Op, Lease!Arrive(o)
      PROVE  OwnInv'
  <2> DEFINE s == line[Home[o]]
             r == Append(s, o)
  <2>1. s \in Seq(Op) /\ line' = [line EXCEPT ![Home[o]] = r]
    BY <1>0, <1>1 DEF Lease!Arrive
  <2>2. \A k \in DOMAIN r : r[k] = o \/ \E j \in DOMAIN s : s[j] = r[k]
    BY <2>1
  <2> HIDE DEF r
  <2> QED
    BY <1>0, <2>1, <2>2 DEF OwnInv, LinesOK
<1>2. ASSUME NEW o \in Op, Lease!Leave(o)
      PROVE  OwnInv'
  <2> DEFINE s == line[Home[o]]
  <2>1. PICK i \in DOMAIN s :
              line' = [line EXCEPT ![Home[o]] = RemoveAt(s, i)]
    BY <1>2 DEF Lease!Leave, Lease!RemoveAt, RemoveAt
  <2> DEFINE r == RemoveAt(s, i)
  <2>2. s \in Seq(Op) /\ i \in 1..Len(s) /\ Len(s) \in Nat /\ DOMAIN s = 1..Len(s)
    BY <1>0, <2>1
  <2> HIDE DEF s
  <2>3. /\ r \in Seq(Op) /\ Len(r) = Len(s) - 1
        /\ \A j \in 1..(Len(s) - 1) : r[j] = IF j < i THEN s[j] ELSE s[j + 1]
    BY <2>2, RemoveAtElements, Zenon
  <2> HIDE DEF r
  <2>4. \A k \in DOMAIN r : \E j \in DOMAIN s : s[j] = r[k]
    <3> SUFFICES ASSUME NEW k \in DOMAIN r PROVE \E j \in DOMAIN s : s[j] = r[k]
      OBVIOUS
    <3>1. k \in 1..(Len(s) - 1)
      BY <2>2, <2>3
    <3>2. k + 1 \in DOMAIN s /\ k \in DOMAIN s
      BY <2>2, <3>1
    <3>3. r[k] = IF k < i THEN s[k] ELSE s[k + 1]
      BY <2>3, <3>1
    <3> QED
      BY <3>2, <3>3
  <2> QED
    BY <1>0, <2>1, <2>4 DEF OwnInv, LinesOK, s, r
<1>3. ASSUME NEW P \in SUBSET Proc, Lease!Vanish(P)
      PROVE  OwnInv'
  BY <1>0, <1>3 DEF OwnInv, Lease!Vanish
<1>4. CASE UNCHANGED lease \/ \E o \in Op : Lease!Take(o)
  BY <1>4 DEF OwnInv, lease, Lease!Take
<1> QED
  BY <1>1, <1>2, <1>3, <1>4 DEF Lease!LeaseNext

\* Every step of a task keeps its place in line and its stage in agreement.
LEMMA PlaceOpStep ==
    ASSUME IInv, PlaceInv, NEW o \in Op, OpStep(o)
    PROVE  PlaceInv'
<1> USE AsyncRunAssumption, NoneIsNoStatus
<1>0. /\ AsyncTypeOK /\ LinesOK /\ task \in [Op -> Tasks]
      /\ PlaceInv /\ LineInv
  BY DEF IInv, AsyncTypeOK
<1>1. CASE Submit(o)
  BY <1>0, <1>1, Keeping, Arriving
     DEF Submit, Goto, PlaceInv, LineInv, Holding, Leased, gate, books, Tasks
<1>2. CASE Spawn(o)
  BY <1>0, <1>2, Keeping
     DEF Spawn, Goto, PlaceInv, LineInv, Holding, Leased, gate, books, Tasks
<1>3. CASE BeginPty(o)
  BY <1>0, <1>3, Keeping
     DEF BeginPty, Transition, Goto, PlaceInv, LineInv, Holding, Leased, gate, books, Tasks
<1>4. CASE SpawnPty(o)
  BY <1>0, <1>4, Arriving
     DEF SpawnPty, Goto, PlaceInv, LineInv, Holding, Leased, gate, books, Tasks
<1>5. CASE StoreHandle(o)
  BY <1>0, <1>5, Keeping
     DEF StoreHandle, Goto, PlaceInv, LineInv, Holding, Leased, gate, books, Tasks
<1>6. CASE LookUp(o)
  BY <1>0, <1>6, Keeping, Dropping
     DEF LookUp, Goto, PlaceInv, LineInv, Holding, Leased, gate, books, Tasks
<1>7. CASE TakeLease(o)
  BY <1>0, <1>7, Taking
     DEF TakeLease, Goto, PlaceInv, LineInv, Holding, Leased, gate, books, Tasks
<1>8. CASE GiveUpQueueing(o)
  BY <1>0, <1>8, Dropping
     DEF GiveUpQueueing, Goto, PlaceInv, LineInv, Holding, Leased, gate, books, Tasks
<1>9. CASE Begin(o)
  BY <1>0, <1>9, Keeping
     DEF Begin, Transition, Goto, PlaceInv, LineInv, Holding, Leased, gate, books, Tasks
<1>10. CASE CheckToken(o)
  BY <1>0, <1>10, Keeping, Dropping
     DEF CheckToken, Goto, PlaceInv, LineInv, Holding, Leased, gate, books, Tasks
<1>11. CASE TakePermit(o)
  BY <1>0, <1>11, Keeping
     DEF TakePermit, Goto, PlaceInv, LineInv, Holding, Leased, gate, books, Tasks
<1>12. CASE MaxWaitElapses(o)
  BY <1>0, <1>12, Keeping
     DEF MaxWaitElapses, Goto, PlaceInv, LineInv, Holding, Leased, gate, books, Tasks
<1>13. CASE GateTimesOut(o)
  BY <1>0, <1>13, Keeping
     DEF GateTimesOut, Fails, Goto, PlaceInv, LineInv, Holding, Leased, gate, books, Tasks
<1>14. CASE LockGroup(o)
  BY <1>0, <1>14, Keeping
     DEF LockGroup, Goto, PlaceInv, LineInv, Holding, Leased, gate, books, Tasks
<1>15. CASE NoGroupLock(o)
  BY <1>0, <1>15, Keeping
     DEF NoGroupLock, Goto, PlaceInv, LineInv, Holding, Leased, gate, books, Tasks
<1>16. CASE FailToStart(o)
  BY <1>0, <1>16, Keeping
     DEF FailToStart, Fails, Goto, PlaceInv, LineInv, Holding, Leased, gate, books, Tasks
<1>17. CASE StartTree(o)
  BY <1>0, <1>17, Keeping
     DEF StartTree, Goto, PlaceInv, LineInv, Holding, Leased, gate, books, Tasks
<1>18. CASE NoticeExit(o)
  BY <1>0, <1>18, Keeping
     DEF NoticeExit, Goto, PlaceInv, LineInv, Holding, Leased, gate, books, Tasks
<1>19. CASE DrainEnds(o)
  BY <1>0, <1>19, Keeping
     DEF DrainEnds, Ends, Goto, PlaceInv, LineInv, Holding, Leased, gate, books, Tasks
<1>20. CASE PtyHangsUp(o)
  BY <1>0, <1>20, Keeping
     DEF PtyHangsUp, Goto, PlaceInv, LineInv, Holding, Leased, gate, books, Tasks
<1>21. CASE NoticePtyExit(o)
  BY <1>0, <1>21, Keeping
     DEF NoticePtyExit, Ends, Goto, PlaceInv, LineInv, Holding, Leased, gate, books, Tasks
<1>22. CASE NoticeCancel(o)
  BY <1>0, <1>22, Keeping
     DEF NoticeCancel, Ends, Goto, PlaceInv, LineInv, Holding, Leased, gate, books, Tasks
<1>23. CASE RunTimesOut(o)
  BY <1>0, <1>23, Keeping
     DEF RunTimesOut, Ends, Goto, PlaceInv, LineInv, Holding, Leased, gate, books, Tasks
<1>24. CASE KillTree(o)
  BY <1>0, <1>24, Keeping, GroupEndsParts
     DEF KillTree, Goto, PlaceInv, LineInv, Holding, Leased, gate, books, Tasks
<1>25. CASE DropLease(o)
  BY <1>0, <1>25, Dropping
     DEF DropLease, Goto, PlaceInv, LineInv, Holding, Leased, gate, books, Tasks
<1>26. CASE Report(o)
  BY <1>0, <1>26, Keeping
     DEF Report, Transition, Goto, PlaceInv, LineInv, Holding, Leased, gate, books, Tasks
<1>27. CASE Close(o)
  BY <1>0, <1>27, Keeping
     DEF Close, DropsGate, Goto, PlaceInv, LineInv, Holding, Leased, gate, books, Tasks
<1>28. CASE Unwind(o)
  BY <1>0, <1>28, Dropping
     DEF Unwind, DropsGate, Goto, PlaceInv, LineInv, Holding, Leased, gate, books, Tasks
<1>29. CASE LeaderExits(o)
  BY <1>0, <1>29, Keeping, GroupEndsParts
     DEF LeaderExits, Goto, PlaceInv, LineInv, Holding, Leased, gate, books, Tasks
<1>30. CASE DescendantsEnd(o)
  BY <1>0, <1>30, GroupEndsParts
     DEF DescendantsEnd, Goto, PlaceInv, LineInv, Holding, Leased, gate, books, Tasks
<1>31. CASE Interrupt(o)
  BY <1>0, <1>31, Keeping
     DEF Interrupt, Transition, Goto, PlaceInv, LineInv, Holding, Leased, gate, books, Tasks
<1>32. CASE AbortTask(o)
  BY <1>0, <1>32, Keeping, GroupEndsParts
     DEF AbortTask, Goto, PlaceInv, LineInv, Holding, Leased, gate, books, Tasks
<1>33. CASE StrayLocks(o)
  BY <1>0, <1>33, Keeping
     DEF StrayLocks, Goto, PlaceInv, LineInv, Holding, Leased, gate, books, Tasks
<1>34. CASE SoftRelease(o)
  BY <1>0, <1>34, Leaving
     DEF SoftRelease, PlaceInv, LineInv, Holding, Leased, gate, books, Tasks
<1> QED
  BY <1>1, <1>2, <1>3, <1>4, <1>5, <1>6, <1>7, <1>8, <1>9, <1>10, <1>11, <1>12, <1>13,
     <1>14, <1>15, <1>16, <1>17, <1>18, <1>19, <1>20, <1>21, <1>22, <1>23, <1>24, <1>25,
     <1>26, <1>27, <1>28, <1>29, <1>30, <1>31, <1>32, <1>33, <1>34
     DEF OpStep, Call, Prepare, Finish

LEMMA LeaseInvariant == Spec => []LeaseInv
<1>1. Init => PlaceInv /\ HeadInv /\ OwnInv
  BY AsyncRunAssumption DEF Init, Lease!LeaseInit, PlaceInv, HeadInv, OwnInv
<1>2. IInv /\ PlaceInv /\ HeadInv /\ OwnInv /\ [Next]_vars => PlaceInv' /\ HeadInv' /\ OwnInv'
  <2> SUFFICES ASSUME IInv, PlaceInv, HeadInv, OwnInv, [Next]_vars
               PROVE  PlaceInv' /\ HeadInv' /\ OwnInv'
    OBVIOUS
  <2>1. CASE \E o \in Op : OpStep(o)
    BY <2>1, PlaceOpStep, LeaseSteps, HeadStep, OwnStep DEF IInv
  <2>2. CASE (\E p \in Proc : Shutdown(p)) \/ UNCHANGED vars
    <3>1. UNCHANGED lease /\ UNCHANGED task
      BY <2>2 DEF Shutdown, ShutdownCancels, ShutdownDrains, vars, lease
    <3> QED
      BY <3>1, Keeping, HeadStep, OwnStep DEF IInv, PlaceInv
  <2> QED
    BY <2>1, <2>2 DEF Next, OpStep
<1> QED
  BY <1>1, <1>2, Invariant, PTL DEF LeaseInv, Spec

\* R2.7.1, one at a time: the leaders of two exclusive commands run at once only
\* when the soft hold of one is over, in different ahmas of which one skips the
\* kernel lock, when the ahma of one died with the command it ran under, or when
\* one was left by a shutdown that aborted the task of a pseudo-terminal.
ExclusiveRunAlone ==
    \A o, x \in Op \ Unqueued : tree[o] = "leader" /\ tree[x] = "leader" /\ o # x =>
        \/ {o, x} \cap handedOn # {}
        \/ Home[o] # Home[x] /\ (Home[o] \in Lockless \/ Home[x] \in Lockless)
        \/ ~Alive(Home[o]) \/ ~Alive(Home[x])
        \/ {o, x} \cap Pty \cap drained # {}

\* Whatever is interrupted, aborted or dies, two exclusive commands of a
\* workspace run side by side only where the promise excepts them.
THEOREM CommandsRunAlone == Spec => []ExclusiveRunAlone
<1>1. LeaseInv => ExclusiveRunAlone
  <2> SUFFICES ASSUME LeaseInv, NEW o \in Op \ Unqueued, NEW x \in Op \ Unqueued,
                      tree[o] = "leader", tree[x] = "leader", o # x,
                      o \notin handedOn, x \notin handedOn,
                      Alive(Home[o]), Alive(Home[x]), o \notin Pty \cap drained,
                      x \notin Pty \cap drained
               PROVE  /\ Home[o] # Home[x]
                      /\ Home[o] \in Lockless \/ Home[x] \in Lockless
    BY DEF ExclusiveRunAlone
  <2>1. task[o] \in Leased /\ task[x] \in Leased
    BY DEF LeaseInv, IInv, TreeInv, WithTree, Leased
  <2>2. o \in holders /\ x \in holders
    BY <2>1 DEF LeaseInv, IInv, HolderInv
  <2> QED
    BY <2>2 DEF LeaseInv, HeadInv
<1> QED
  BY <1>1, LeaseInvariant, PTL

\* o waits for x: to leave the line before it, to give back the lease, the
\* permit of the group, or the group's lock.
Ahead(x, o) ==
    \E j, k \in DOMAIN line[Home[o]] :
        j < k /\ line[Home[o]][j] = x /\ line[Home[o]][k] = o

WaitsFor(o, x) ==
    \/ /\ task[o] = "queueing"
       /\ \/ Ahead(x, o)
          \/ x \in holders /\ ~(Home[o] \in Lockless \/ Home[x] \in Lockless)
    \/ task[o] = "atGate" /\ permit[Home[o]] = x
    \/ task[o] = "atLock" /\ groupLock = x

\* The guard of Lease!Take.
MayTake(o) ==
    /\ line[Home[o]] # <<>> /\ Head(line[Home[o]]) = o /\ o \notin holders
    /\ \A h \in holders : Home[o] \in Lockless \/ Home[h] \in Lockless

\* The guards of the task's own steps.  What a task that drains waits for is the
\* command's: nobody else keeps its pipes open or its terminal's leader running.
CanGo(o) ==
    /\ task[o] \notin {"none", "ended"}
    /\ task[o] = "begun" => ~InLine(o)
    /\ task[o] = "queueing" => MayTake(o) \/ o \in token
    /\ task[o] = "atGate" => permit[Home[o]] = None \/ o \in waited
    /\ task[o] = "atLock" => groupLock = None \/ Home[o] \in NoLockDir
    /\ task[o] = "draining" => tree[o] # IF o \in Pty THEN "leader" ELSE "piped"

AwaitsCommand(o) ==
    task[o] = "draining" /\ tree[o] = IF o \in Pty THEN "leader" ELSE "piped"

\* Who cannot go waits for the end of its command or for somebody it can name,
\* and however many wait for one another, not all of them do.
NobodyIsStuck ==
    /\ \A o \in Op : task[o] \notin {"none", "ended"} =>
          CanGo(o) \/ AwaitsCommand(o) \/ \E x \in Op \ {o} : WaitsFor(o, x)
    /\ \A S \in SUBSET Op : S # {} => \E o \in S : \A x \in S : ~WaitsFor(o, x)

LEMMA SomebodyInTheWay ==
    ASSUME LeaseInv, NEW o \in Op, task[o] \notin {"none", "ended"}
    PROVE  CanGo(o) \/ AwaitsCommand(o) \/ \E x \in Op \ {o} : WaitsFor(o, x)
<1>0. /\ Home[o] \in Proc /\ line[Home[o]] \in Seq(Op) /\ holders \subseteq Op
      /\ permit \in [Proc -> Op \cup {None}] /\ groupLock \in Op \cup {None}
  BY AsyncRunAssumption DEF LeaseInv, IInv, AsyncTypeOK, LinesOK
<1>1. CASE task[o] = "queueing"
  <2> DEFINE s == line[Home[o]]
  <2>1. PICK k \in DOMAIN s : s[k] = o
    BY <1>1 DEF LeaseInv, PlaceInv, InLine, Lease!InSomeLine
  <2>2. s \in Seq(Op) /\ s # <<>> /\ 1 \in DOMAIN s /\ Head(s) = s[1] /\ s[1] \in Op
    BY <1>0, <2>1
  <2>3. o \notin holders
    BY <1>1 DEF LeaseInv, PlaceInv, Holding, Leased
  <2>4. CASE s[1] # o
    <3>1. k # 1 /\ 1 < k
      BY <1>0, <2>1, <2>4
    <3>2. Ahead(s[1], o)
      BY <2>1, <2>2, <3>1 DEF Ahead
    <3> QED
      BY <1>1, <2>2, <2>4, <3>2 DEF WaitsFor
  <2>5. CASE s[1] = o
    <3>1. CASE \A h \in holders : Home[o] \in Lockless \/ Home[h] \in Lockless
      BY <1>1, <2>2, <2>3, <2>5, <3>1 DEF CanGo, MayTake
    <3>2. CASE \E h \in holders : ~(Home[o] \in Lockless \/ Home[h] \in Lockless)
      BY <1>0, <1>1, <2>3, <3>2 DEF WaitsFor
    <3> QED
      BY <3>1, <3>2
  <2> QED
    BY <2>4, <2>5
<1>2. CASE task[o] = "atGate"
  <2>1. CASE permit[Home[o]] = None
    BY <1>2, <2>1 DEF CanGo
  <2>2. CASE permit[Home[o]] # None
    <3>1. permit[Home[o]] \in Op /\ task[permit[Home[o]]] \in WithPermit
      BY <1>0, <2>2 DEF LeaseInv, IInv, GateInv
    <3>2. permit[Home[o]] # o
      BY <1>2, <3>1 DEF WithPermit
    <3> QED
      BY <1>2, <3>1, <3>2 DEF WaitsFor
  <2> QED
    BY <2>1, <2>2
<1>3. CASE task[o] = "atLock"
  <2>1. CASE groupLock = None
    BY <1>3, <2>1 DEF CanGo
  <2>2. CASE groupLock # None
    <3>1. groupLock \in Op /\ task[groupLock] \in WithLock
      BY <1>0, <2>2 DEF LeaseInv, IInv, GateInv
    <3>2. groupLock # o
      BY <1>3, <3>1 DEF WithLock, WithPermit
    <3> QED
      BY <1>3, <3>1, <3>2 DEF WaitsFor
  <2> QED
    BY <2>1, <2>2
<1>4. CASE task[o] \notin {"queueing", "atGate", "atLock"}
  <2>1. task[o] = "begun" => ~InLine(o)
    BY DEF LeaseInv, IInv, LineInv
  <2> QED
    BY <1>4, <2>1 DEF CanGo, AwaitsCommand
<1> QED
  BY <1>1, <1>2, <1>3, <1>4

LEMMA NoCircle ==
    ASSUME LeaseInv, NEW S \in SUBSET Op, \A o \in S : \E x \in S : WaitsFor(o, x)
    PROVE  S = {}
<1>0. \A o \in Op : Home[o] \in Proc /\ line[Home[o]] \in Seq(Op)
  BY AsyncRunAssumption DEF LeaseInv, IInv, LinesOK
<1>1. \A o \in S : task[o] \in {"queueing", "atGate", "atLock"}
  BY DEF WaitsFor
<1>2. \A o \in S : task[o] # "atLock"
  <2> SUFFICES ASSUME NEW o \in S, task[o] = "atLock" PROVE FALSE
    OBVIOUS
  <2>1. PICK x \in S : groupLock = x
    BY DEF WaitsFor
  <2>2. task[x] \in WithLock
    BY <2>1 DEF LeaseInv, IInv, GateInv
  <2> QED
    BY <1>1, <2>2 DEF WithLock, WithPermit
<1>3. \A o \in S : task[o] # "atGate"
  <2> SUFFICES ASSUME NEW o \in S, task[o] = "atGate" PROVE FALSE
    OBVIOUS
  <2>1. PICK x \in S : permit[Home[o]] = x
    BY DEF WaitsFor
  <2>2. task[x] \in WithPermit
    BY <1>0, <2>1 DEF LeaseInv, IInv, GateInv
  <2> QED
    BY <1>1, <1>2, <2>2 DEF WithPermit
<1>4. \A o \in S : \E x \in S : Ahead(x, o)
  <2> SUFFICES ASSUME NEW o \in S PROVE \E x \in S : Ahead(x, o)
    OBVIOUS
  <2>1. PICK x \in S : WaitsFor(o, x)
    OBVIOUS
  <2>2. task[o] = "queueing" /\ task[x] = "queueing"
    BY <1>1, <1>2, <1>3
  <2>3. x \notin holders
    BY <2>2 DEF LeaseInv, PlaceInv, Holding, Leased
  <2> QED
    BY <2>1, <2>2, <2>3 DEF WaitsFor
<1> SUFFICES ASSUME NEW o \in S PROVE FALSE
  OBVIOUS
<1> DEFINE s == line[Home[o]]
           T == {k \in DOMAIN s : s[k] \in S}
<1>5. s \in Seq(Op) /\ DOMAIN s \subseteq Nat
  BY <1>0
<1>6. T # {} /\ T \subseteq Nat
  BY <1>4, <1>5 DEF Ahead
<1> HIDE DEF T
<1>7. PICK k \in T : \A j \in T : ~(<<j, k>> \in OpToRel(<, Nat))
  BY <1>6, NatLessThanWellFounded, WFMin, Zenon
<1>8. k \in DOMAIN s /\ s[k] \in S /\ Home[s[k]] = Home[o]
  BY <1>0 DEF T, LeaseInv, OwnInv
<1>9. PICK x \in S : Ahead(x, s[k])
  BY <1>4, <1>8
<1>10. PICK j \in DOMAIN s, l \in DOMAIN s : j < l /\ s[j] = x /\ s[l] = s[k]
  BY <1>8, <1>9 DEF Ahead
<1>11. l = k
  BY <1>0, <1>8, <1>10 DEF LeaseInv, IInv, LinesOK
<1>12. j \in T /\ j \in Nat /\ k \in Nat /\ j < k
  BY <1>5, <1>8, <1>10, <1>11 DEF T
<1>13. <<j, k>> \in OpToRel(<, Nat)
  BY <1>12 DEF OpToRel
<1> QED
  BY <1>7, <1>12, <1>13

\* The line, the lease, the group's semaphore and its kernel lock are taken in
\* one order by everybody, in any number of ahmas and however they are nested:
\* no set of tasks waits for each other.  What EveryTaskEnds needs of the steps;
\* that each of them is taken is the fairness.  What a command waits for, be it an
\* ahma below it that wants the same gate, is ended by its time limit.
THEOREM NoDeadlock == Spec => []NobodyIsStuck
<1>1. LeaseInv => NobodyIsStuck
  BY SomebodyInTheWay, NoCircle DEF NobodyIsStuck
<1> QED
  BY <1>1, LeaseInvariant, PTL
=============================================================================
