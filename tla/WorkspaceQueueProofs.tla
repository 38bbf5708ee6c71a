------------------------ MODULE WorkspaceQueueProofs ------------------------
(***************************************************************************)
(* Proofs about WorkspaceQueue for any number of operations, probes and    *)
(* processes, nested to any depth, any of which may be killed, drop its    *)
(* future or find the lock file unopenable.                                *)
(* In order: the lanes and the kernel lock, the arrival order, wake-ups,   *)
(* commands under their lease, the published record, and the refinement of *)
(* WorkspaceLease.                                                         *)
(***************************************************************************)
EXTENDS WorkspaceQueue, LineLemmas, FiniteSetTheorems, WellFoundedInduction

\* The entries of a lane are the operations of its process that took a place
\* and have not left, each of them once.
LaneMembers ==
    \A p \in Proc : \A i \in DOMAIN lane[p] :
        Home[lane[p][i]] = p /\ pc[lane[p][i]] \in InLine

LaneDistinct ==
    \A p \in Proc : \A i, j \in DOMAIN lane[p] : lane[p][i] = lane[p][j] => i = j

LaneComplete ==
    \A o \in Op : pc[o] \in InLine => \E i \in DOMAIN lane[Home[o]] : lane[Home[o]][i] = o

LaneInv == LaneMembers /\ LaneDistinct /\ LaneComplete

Owning == {"publishing", "renaming", "renamed"} \cup Holding

\* Of the operations that share the kernel lock, one that got past try_acquire
\* owns it until its lease has left the lane.
LockOwned ==
    \A o \in Op :
        Ordered(o) /\ pc[o] \in Owning => flock = Opened("op", o)

IInv == TypeOK /\ LaneInv /\ LockOwned

-----------------------------------------------------------------------------
\* Every program counter the actions write is one of PCs.
LEMMA PCsAreStates ==
    /\ {"idle", "queued", "registered", "checked", "parked", "trying", "backoff", "publishing",
        "renaming", "renamed", "granted", "dropping", "withdrawn", "leaving",
        "left", "gone", "unlocking", "released"} \subseteq PCs
    /\ InLine = {"queued", "registered", "checked", "parked", "trying", "backoff", "publishing",
        "renaming", "renamed", "granted", "dropping", "withdrawn", "leaving"}
BY DEF PCs, InLine, Waiting, AtHead, Holding, HandedOn

\* An operation in line has a place, and it is in the domain of its lane.
LEMMA PlaceInLane ==
    ASSUME TypeOK, LaneInv, NEW o \in Op, pc[o] \in InLine
    PROVE  /\ Place(o) \in 1..Len(lane[Home[o]])
           /\ lane[Home[o]][Place(o)] = o
           /\ lane[Home[o]] \in Seq(Op)
           /\ Home[o] \in Proc
<1>1. Home[o] \in Proc /\ lane[Home[o]] \in Seq(Op)
  BY ConstantsAssumption DEF TypeOK
<1>2. DOMAIN lane[Home[o]] = 1..Len(lane[Home[o]])
  BY <1>1, LenProperties
<1>3. \E i \in DOMAIN lane[Home[o]] : lane[Home[o]][i] = o
  BY DEF LaneInv, LaneComplete
<1> QED
  BY <1>1, <1>2, <1>3 DEF Place

\* Leaving the lane keeps it a sequence of operations.
LEMMA WithoutType ==
    ASSUME TypeOK, LaneInv, NEW o \in Op, pc[o] \in InLine
    PROVE  Without(o) \in [Proc -> Seq(Op)]
<1>1. RemoveAt(lane[Home[o]], Place(o)) \in Seq(Op)
  BY PlaceInLane, RemoveAtElements
<1> QED
  BY <1>1 DEF Without, TypeOK

\* Init establishes the invariant: every lane is empty, nothing is owned.
LEMMA InitIInv == Init => IInv
<1> SUFFICES ASSUME Init PROVE IInv
  OBVIOUS
<1>1. TypeOK
  BY ConstantsAssumption, PCsAreStates
  DEF Init, TypeOK, Records, Looks, Unseen, Commands
<1>2. LaneInv
  BY ConstantsAssumption, PCsAreStates DEF Init, LaneInv, LaneMembers, LaneDistinct, LaneComplete
<1>3. LockOwned
  BY DEF Init, LockOwned, Owning, Holding
<1> QED
  BY <1>1, <1>2, <1>3 DEF IInv

\* A command's end kills some processes of its tree.
LEMMA EndCommandKills ==
    ASSUME NEW o \in Op, EndCommand(o)
    PROVE  \E P \in SUBSET Proc : Die(P)
<1>1. Below[o] \subseteq Proc
  BY ConstantsAssumption
<1>2. \E dead \in SUBSET Below[o] : Die(dead)
  BY DEF EndCommand
<1> QED
  BY <1>1, <1>2

\* Processes that end leave a state of the right type.
LEMMA DieType ==
    ASSUME TypeOK, NEW P \in SUBSET Proc, Die(P)
    PROVE  /\ pc' \in [Op -> PCs] /\ lane' \in [Proc -> Seq(Op)]
           /\ woken' \subseteq Op /\ flock' \in Owner \cup {None}
           /\ record' \in Records
           /\ strayTry' \subseteq Op /\ strayRename' \subseteq Op
           /\ look' \in [Prober -> Looks]
<1>1. pc' \in [Op -> PCs]
  BY PCsAreStates DEF Die, TypeOK
<1>2. lane' \in [Proc -> Seq(Op)]
  BY DEF Die, TypeOK
<1>3. record' \in Records
  BY DEF Die, TypeOK, Records
<1>4. look' \in [Prober -> Looks]
  BY DEF Die, TypeOK, Looks, Unseen
<1>5. /\ woken' \subseteq Op /\ flock' \in Owner \cup {None}
      /\ strayTry' \subseteq Op /\ strayRename' \subseteq Op
  BY DEF Die, TypeOK
<1> QED
  BY <1>1, <1>2, <1>3, <1>4, <1>5

\* Every step keeps the types.
LEMMA TypeStep == TypeOK /\ LaneInv /\ [Next]_vars => TypeOK'
<1> SUFFICES ASSUME TypeOK, LaneInv, [Next]_vars PROVE TypeOK'
  OBVIOUS
<1> USE PCsAreStates, ConstantsAssumption DEF TypeOK, Goto
<1>1. ASSUME NEW o \in Op, Enqueue(o) PROVE TypeOK'
  <2>1. lane' \in [Proc -> Seq(Op)]
    BY <1>1 DEF Enqueue
  <2> QED
    BY <1>1, <2>1 DEF Enqueue
<1>2. ASSUME NEW o \in Op, Acquire(o) PROVE TypeOK'
  <2>1. CASE TakeLock(o)
    BY <2>1 DEF TakeLock, Opened, Owner
  <2>2. CASE RenameLands(o)
    BY <2>2 DEF RenameLands, Records
  <2>3. CASE Register(o)
    BY <2>3 DEF Register
  <2>4. CASE CheckHead(o)
    BY <2>4 DEF CheckHead
  <2>0. CASE Await(o)
    BY <2>0 DEF Await
  <2>5. CASE Wake(o)
    BY <2>5 DEF Wake
  <2>6. CASE Reobserve(o)
    BY <2>6 DEF Reobserve
  <2>7. CASE FindBusy(o)
    BY <2>7 DEF FindBusy
  <2>8. CASE Degrade(o)
    BY <2>8 DEF Degrade
  <2>9. CASE Retry(o)
    BY <2>9 DEF Retry
  <2>10. CASE WriteTemp(o)
    BY <2>10 DEF WriteTemp
  <2>11. CASE Grant(o)
    BY <2>11 DEF Grant
  <2> QED
    BY <1>2, <2>0, <2>1, <2>2, <2>3, <2>4, <2>5, <2>6, <2>7, <2>8, <2>9, <2>10, <2>11
    DEF Acquire
<1>3. ASSUME NEW o \in Op, Cancel(o) PROVE TypeOK'
  BY <1>3 DEF Cancel
<1>4. ASSUME NEW o \in Op, DropFuture(o) PROVE TypeOK'
  BY <1>4 DEF DropFuture, Closed
<1>5. ASSUME NEW o \in Op, Stray(o) PROVE TypeOK'
  <2>1. CASE StrayTakes(o)
    BY <2>1 DEF StrayTakes, Opened, Owner
  <2>2. CASE StrayEnds(o)
    BY <2>2 DEF StrayEnds, Closed
  <2>3. CASE StrayRenames(o)
    BY <2>3 DEF StrayRenames, Records
  <2> QED
    BY <1>5, <2>1, <2>2, <2>3 DEF Stray
<1>6. ASSUME NEW o \in Op, StartCommand(o) \/ SoftRelease(o) \/ Abandon(o) PROVE TypeOK'
  <2>1. CASE StartCommand(o)
    BY <2>1 DEF StartCommand, Commands, Alive
  <2>3. CASE Abandon(o)
    BY <2>3 DEF Abandon, Commands, Alive
  <2>2. CASE SoftRelease(o)
    BY <2>2 DEF SoftRelease
  <2> QED
    BY <1>6, <2>1, <2>2, <2>3
<1>7. ASSUME NEW o \in Op, EndCommand(o) PROVE TypeOK'
  <2>1. PICK P \in SUBSET Proc : Die(P)
    BY <1>7, EndCommandKills
  <2>2. cmd' \in [Op -> Commands]
    BY <1>7 DEF EndCommand, Commands, TypeOK
  <2> QED
    BY <2>1, <2>2, DieType DEF TypeOK
<1>8. ASSUME NEW o \in Op, Release(o) PROVE TypeOK'
  <2>1. CASE LeaveLane(o)
    BY <2>1, WithoutType DEF LeaveLane
  <2>2. CASE DropLease(o)
    BY <2>2 DEF DropLease, Commands
  <2>6. CASE Forget(o)
    BY <2>6 DEF Forget, Commands
  <2>3. CASE Withdraw(o)
    BY <2>3 DEF Withdraw, Records
  <2>4. CASE NotifyWaiters(o)
    BY <2>4 DEF NotifyWaiters
  <2>5. CASE Unlock(o)
    BY <2>5 DEF Unlock, Closed
  <2> QED
    BY <1>8, <2>1, <2>2, <2>3, <2>4, <2>5, <2>6 DEF Release
<1>9. ASSUME NEW p \in Proc, Crash(p) PROVE TypeOK'
  <2>1. cmd' \in [Op -> Commands]
    BY <1>9 DEF Crash, Commands
  <2> QED
    BY <1>9, <2>1, DieType DEF Crash
<1>10. ASSUME NEW b \in Prober, Probe(b) PROVE TypeOK'
  <2>1. look' \in [Prober -> Looks]
    <3>1. ASSUME NEW at \in {"idle", "opening", "locked", "busy", "free"}, Told(b, at, None)
          PROVE  look' \in [Prober -> Looks]
      BY <3>1 DEF Told, Looks
    <3>2. ASSUME NEW by \in Op \cup {None}, Told(b, "held", by)
          PROVE  look' \in [Prober -> Looks]
      BY <3>2 DEF Told, Looks
    <3>3. CASE ProbeLane(b)
      BY <3>1, <3>2, <3>3 DEF ProbeLane, GrantedIn
    <3>4. CASE ProbeTry(b)
      BY <3>1, <3>4 DEF ProbeTry
    <3>5. CASE ProbeCannotOpen(b) \/ ProbeUnlock(b)
      BY <3>1, <3>5 DEF ProbeCannotOpen, ProbeUnlock
    <3>6. CASE ProbeRead(b)
      <4>1. (IF record = None THEN None ELSE record.op) \in Op \cup {None}
        BY DEF Records
      <4> QED
        BY <3>2, <3>6, <4>1 DEF ProbeRead
    <3> QED
      BY <1>10, <3>3, <3>4, <3>5, <3>6 DEF Probe
  <2> QED
    BY <1>10, <2>1 DEF Probe, ProbeLane, ProbeTry, ProbeCannotOpen, ProbeUnlock, ProbeRead,
                       Opened, Owner, Closed
<1>11. CASE UNCHANGED vars
  BY <1>11 DEF vars
<1> QED
  BY <1>1, <1>2, <1>3, <1>4, <1>5, <1>6, <1>7, <1>8, <1>9, <1>10, <1>11 DEF Next

-----------------------------------------------------------------------------
\* A step that leaves the lanes alone and moves no operation into or out of
\* line keeps the lane invariant.
LEMMA LaneKept ==
    ASSUME TypeOK, LaneInv, lane' = lane,
           \A q \in Op : pc[q] \in InLine <=> pc'[q] \in InLine
    PROVE  LaneInv'
<1>1. \A p \in Proc : \A i \in DOMAIN lane[p] : lane[p][i] \in Op
  BY LenProperties DEF TypeOK
<1>2. LaneMembers'
  BY <1>1 DEF LaneInv, LaneMembers
<1>3. LaneDistinct' /\ LaneComplete'
  BY DEF LaneInv, LaneDistinct, LaneComplete
<1> QED
  BY <1>2, <1>3 DEF LaneInv

\* The same for a step of one operation.
LEMMA MoveInLane ==
    ASSUME TypeOK, LaneInv, NEW o \in Op, NEW at \in PCs,
           pc' = [pc EXCEPT ![o] = at], lane' = lane,
           pc[o] \in InLine <=> at \in InLine
    PROVE  LaneInv'
<1>1. \A q \in Op : pc'[q] = IF q = o THEN at ELSE pc[q]
  BY DEF TypeOK
<1> QED
  BY <1>1, LaneKept

\* enqueue adds the operation behind every entry of its lane.
LEMMA EnqueueLane ==
    ASSUME TypeOK, LaneInv, NEW o \in Op, Enqueue(o)
    PROVE  LaneInv'
<1> DEFINE h == Home[o]  s == lane[h]
<1>1. h \in Proc /\ s \in Seq(Op) /\ Len(s) \in Nat /\ DOMAIN s = 1..Len(s)
  BY ConstantsAssumption, LenProperties DEF TypeOK
<1>2. /\ lane'[h] = Append(s, o)
      /\ \A p \in Proc : p # h => lane'[p] = lane[p]
  BY <1>1 DEF Enqueue, TypeOK
<1>3. /\ DOMAIN Append(s, o) = 1..(Len(s) + 1)
      /\ \A i \in 1..Len(s) : Append(s, o)[i] = s[i]
      /\ Append(s, o)[Len(s) + 1] = o
  BY <1>1
<1>4. /\ \A q \in Op : pc'[q] = IF q = o THEN "queued" ELSE pc[q]
      /\ pc[o] = "idle"
  BY DEF Enqueue, Goto, TypeOK
<1>5. \A p \in Proc : \A i \in DOMAIN lane[p] : lane[p][i] \in Op /\ lane[p][i] # o
  <2>1. \A p \in Proc : \A i \in DOMAIN lane[p] : lane[p][i] \in Op
    BY LenProperties DEF TypeOK
  <2> QED
    BY <2>1, <1>4, PCsAreStates DEF LaneInv, LaneMembers
<1> HIDE DEF s
<1>6. LaneMembers'
  <2> SUFFICES ASSUME NEW p \in Proc, NEW i \in DOMAIN lane'[p]
               PROVE  Home[lane'[p][i]] = p /\ pc'[lane'[p][i]] \in InLine
    BY DEF LaneMembers
  <2>1. CASE p # h
    BY <2>1, <1>2, <1>4, <1>5 DEF LaneInv, LaneMembers
  <2>2. CASE p = h /\ i \in 1..Len(s)
    <3>1. lane'[p][i] = lane[p][i] /\ i \in DOMAIN lane[p]
      BY <2>2, <1>1, <1>2, <1>3 DEF s
    <3> QED
      BY <3>1, <1>4, <1>5 DEF LaneInv, LaneMembers
  <2>3. CASE p = h /\ i = Len(s) + 1
    BY <2>3, <1>2, <1>3, <1>4, PCsAreStates
  <2> QED
    BY <1>1, <1>2, <1>3, <2>1, <2>2, <2>3
<1>7. LaneDistinct'
  <2> SUFFICES ASSUME NEW p \in Proc, NEW i \in DOMAIN lane'[p], NEW j \in DOMAIN lane'[p],
                      lane'[p][i] = lane'[p][j]
               PROVE  i = j
    BY DEF LaneDistinct
  <2>1. CASE p # h
    BY <2>1, <1>2 DEF LaneInv, LaneDistinct
  <2>2. CASE p = h
    <3>1. \A k \in 1..Len(s) : s[k] # o /\ k \in DOMAIN lane[h] /\ lane[h][k] = s[k]
      BY <1>1, <1>5 DEF s
    <3> QED
      BY <2>2, <3>1, <1>1, <1>2, <1>3 DEF LaneInv, LaneDistinct
  <2> QED
    BY <2>1, <2>2
<1>8. LaneComplete'
  <2> SUFFICES ASSUME NEW q \in Op, pc'[q] \in InLine
               PROVE  \E i \in DOMAIN lane'[Home[q]] : lane'[Home[q]][i] = q
    BY DEF LaneComplete
  <2>0. Home[q] \in Proc
    BY ConstantsAssumption
  <2>1. CASE q = o
    BY <2>1, <1>1, <1>2, <1>3
  <2>2. CASE q # o
    <3>1. PICK i \in DOMAIN lane[Home[q]] : lane[Home[q]][i] = q
      BY <2>2, <1>4 DEF LaneInv, LaneComplete
    <3>2. CASE Home[q] # h
      BY <2>0, <3>1, <3>2, <1>2
    <3>3. CASE Home[q] = h
      BY <3>1, <3>3, <1>1, <1>2, <1>3 DEF s
    <3> QED
      BY <3>2, <3>3
  <2> QED
    BY <2>1, <2>2
<1> QED
  BY <1>6, <1>7, <1>8 DEF LaneInv

\* LaneQueue::remove takes out one entry and no other.
LEMMA LeaveLaneLane ==
    ASSUME TypeOK, LaneInv, NEW o \in Op, LeaveLane(o)
    PROVE  LaneInv'
<1> DEFINE h == Home[o]  s == lane[h]  k == Place(o)  r == RemoveAt(s, k)
<1>1. /\ h \in Proc /\ s \in Seq(Op) /\ k \in 1..Len(s) /\ s[k] = o
      /\ Len(s) \in Nat /\ DOMAIN s = 1..Len(s)
  <2>1. pc[o] \in InLine
    BY PCsAreStates DEF LeaveLane
  <2> QED
    BY <2>1, PlaceInLane, LenProperties
<1> HIDE DEF k
<1>2. /\ DOMAIN r = 1..(Len(s) - 1)
      /\ \A j \in 1..(Len(s) - 1) : r[j] = IF j < k THEN s[j] ELSE s[j + 1]
  <2>1. r \in Seq(Op) /\ Len(r) = Len(s) - 1
    BY <1>1, RemoveAtElements
  <2>2. DOMAIN r = 1..Len(r)
    <3> HIDE DEF r
    <3> QED BY <2>1, LenProperties
  <2> QED
    BY <1>1, <2>1, <2>2, RemoveAtElements
<1>3. /\ lane'[h] = r
      /\ \A p \in Proc : p # h => lane'[p] = lane[p]
  BY <1>1 DEF LeaveLane, Without, TypeOK, k
<1>4. \A q \in Op : /\ q # o => pc'[q] = pc[q]
                    /\ q = o => pc'[q] \notin InLine
  BY PCsAreStates DEF LeaveLane, Goto, TypeOK
<1>5. \A p \in Proc : \A i \in DOMAIN lane[p] : lane[p][i] \in Op
  BY LenProperties DEF TypeOK
<1>6. \A i, j \in 1..Len(s) : s[i] = s[j] => i = j
  BY <1>1 DEF LaneInv, LaneDistinct
<1>7. \A i \in 1..Len(s) : Home[s[i]] = h /\ pc[s[i]] \in InLine /\ s[i] \in Op
  BY <1>1, <1>5 DEF LaneInv, LaneMembers
<1> HIDE DEF s, r
<1>8. \A p \in Proc : p # h => \A i \in DOMAIN lane[p] : lane[p][i] # o
  BY DEF LaneInv, LaneMembers
<1>9. LaneMembers'
  <2> SUFFICES ASSUME NEW p \in Proc, NEW i \in DOMAIN lane'[p]
               PROVE  Home[lane'[p][i]] = p /\ pc'[lane'[p][i]] \in InLine
    BY DEF LaneMembers
  <2>1. CASE p # h
    BY <2>1, <1>3, <1>4, <1>5, <1>8 DEF LaneInv, LaneMembers
  <2>2. CASE p = h
    <3>1. PICK j \in 1..Len(s) : j # k /\ lane'[p][i] = s[j]
      BY <2>2, <1>1, <1>2, <1>3
    <3>2. s[j] # o
      BY <3>1, <1>1, <1>6
    <3> QED
      BY <2>2, <3>1, <3>2, <1>4, <1>7
  <2> QED
    BY <2>1, <2>2
<1>10. LaneDistinct'
  <2> SUFFICES ASSUME NEW p \in Proc, NEW i \in DOMAIN lane'[p], NEW j \in DOMAIN lane'[p],
                      lane'[p][i] = lane'[p][j]
               PROVE  i = j
    BY DEF LaneDistinct
  <2>1. CASE p # h
    BY <2>1, <1>3 DEF LaneInv, LaneDistinct
  <2>2. CASE p = h
    BY <2>2, <1>1, <1>2, <1>3, <1>6
  <2> QED
    BY <2>1, <2>2
<1>11. LaneComplete'
  <2> SUFFICES ASSUME NEW q \in Op, pc'[q] \in InLine
               PROVE  \E i \in DOMAIN lane'[Home[q]] : lane'[Home[q]][i] = q
    BY DEF LaneComplete
  <2>0. Home[q] \in Proc /\ q # o /\ pc[q] \in InLine
    BY <1>4, ConstantsAssumption
  <2>1. PICK i \in DOMAIN lane[Home[q]] : lane[Home[q]][i] = q
    BY <2>0 DEF LaneInv, LaneComplete
  <2>2. CASE Home[q] # h
    BY <2>0, <2>1, <2>2, <1>3
  <2>3. CASE Home[q] = h
    <3>1. i \in 1..Len(s) /\ s[i] = q /\ i # k
      BY <2>0, <2>1, <2>3, <1>1 DEF s
    <3>2. CASE i < k
      BY <3>1, <3>2, <2>3, <1>1, <1>2, <1>3
    <3>3. CASE i > k
      <4>1. i - 1 \in 1..(Len(s) - 1) /\ ~(i - 1 < k) /\ (i - 1) + 1 = i
        BY <3>1, <3>3, <1>1
      <4> QED
        BY <4>1, <3>1, <2>3, <1>2, <1>3
    <3> QED
      BY <3>1, <3>2, <3>3, <1>1
  <2> QED
    BY <2>2, <2>3
<1> QED
  BY <1>9, <1>10, <1>11 DEF LaneInv

\* Processes that end take their lanes with them.
LEMMA DieLane ==
    ASSUME TypeOK, LaneInv, NEW P \in SUBSET Proc, Die(P)
    PROVE  LaneInv'
<1>1. /\ \A p \in Proc : lane'[p] = IF p \in P THEN <<>> ELSE lane[p]
      /\ \A q \in Op : pc'[q] = IF Home[q] \in P THEN "idle" ELSE pc[q]
  BY DEF Die
<1>2. \A p \in Proc : \A i \in DOMAIN lane[p] : lane[p][i] \in Op
  BY LenProperties DEF TypeOK
<1>3. LaneMembers'
  BY <1>1, <1>2 DEF LaneInv, LaneMembers
<1>4. LaneDistinct'
  BY <1>1 DEF LaneInv, LaneDistinct
<1>5. LaneComplete'
  BY <1>1, PCsAreStates, ConstantsAssumption DEF LaneInv, LaneComplete
<1> QED
  BY <1>3, <1>4, <1>5 DEF LaneInv

\* Every step keeps the lanes.
LEMMA LaneStep == TypeOK /\ LaneInv /\ [Next]_vars => LaneInv'
<1> SUFFICES ASSUME TypeOK, LaneInv, [Next]_vars PROVE LaneInv'
  OBVIOUS
<1> USE PCsAreStates DEF Goto
<1>1. ASSUME NEW o \in Op, Enqueue(o) PROVE LaneInv'
  BY <1>1, EnqueueLane
<1>2. ASSUME NEW o \in Op, Acquire(o) PROVE LaneInv'
  <2>1. CASE Register(o)
    BY <2>1, MoveInLane DEF Register
  <2>2. CASE CheckHead(o)
    BY <2>2, MoveInLane DEF CheckHead
  <2>0. CASE Await(o)
    BY <2>0, MoveInLane DEF Await
  <2>3. CASE Wake(o)
    BY <2>3, MoveInLane DEF Wake
  <2>4. CASE Reobserve(o)
    BY <2>4, MoveInLane DEF Reobserve
  <2>5. CASE TakeLock(o)
    BY <2>5, MoveInLane DEF TakeLock
  <2>6. CASE FindBusy(o)
    BY <2>6, MoveInLane DEF FindBusy
  <2>7. CASE Degrade(o)
    BY <2>7, MoveInLane DEF Degrade
  <2>8. CASE Retry(o)
    BY <2>8, MoveInLane DEF Retry
  <2>9. CASE WriteTemp(o)
    BY <2>9, MoveInLane DEF WriteTemp
  <2>10. CASE RenameLands(o)
    BY <2>10, MoveInLane DEF RenameLands
  <2>11. CASE Grant(o)
    BY <2>11, MoveInLane DEF Grant
  <2> QED
    BY <1>2, <2>0, <2>1, <2>2, <2>3, <2>4, <2>5, <2>6, <2>7, <2>8, <2>9, <2>10, <2>11
    DEF Acquire
<1>3. ASSUME NEW o \in Op, Cancel(o) PROVE LaneInv'
  BY <1>3, MoveInLane DEF Cancel
<1>4. ASSUME NEW o \in Op, DropFuture(o) PROVE LaneInv'
  BY <1>4, MoveInLane DEF DropFuture, AtHead
<1>5. ASSUME NEW o \in Op, Stray(o) PROVE LaneInv'
  BY <1>5, LaneKept DEF Stray, StrayTakes, StrayEnds, StrayRenames
<1>6. ASSUME NEW o \in Op, StartCommand(o) \/ Abandon(o) PROVE LaneInv'
  BY <1>6, LaneKept DEF StartCommand, Abandon
<1>7. ASSUME NEW o \in Op, SoftRelease(o) PROVE LaneInv'
  BY <1>7, MoveInLane DEF SoftRelease
<1>8. ASSUME NEW o \in Op, EndCommand(o) PROVE LaneInv'
  BY <1>8, EndCommandKills, DieLane
<1>9. ASSUME NEW o \in Op, Release(o) PROVE LaneInv'
  <2>1. CASE DropLease(o)
    BY <2>1, MoveInLane DEF DropLease
  <2>2. CASE Withdraw(o)
    BY <2>2, MoveInLane DEF Withdraw
  <2>3. CASE LeaveLane(o)
    BY <2>3, LeaveLaneLane
  <2>4. CASE NotifyWaiters(o)
    BY <2>4, MoveInLane DEF NotifyWaiters
  <2>5. CASE Unlock(o)
    BY <2>5, MoveInLane DEF Unlock
  <2>6. CASE Forget(o)
    BY <2>6, MoveInLane DEF Forget
  <2> QED
    BY <1>9, <2>1, <2>2, <2>3, <2>4, <2>5, <2>6 DEF Release
<1>10. ASSUME NEW p \in Proc, Crash(p) PROVE LaneInv'
  BY <1>10, DieLane DEF Crash
<1>11. ASSUME NEW b \in Prober, Probe(b) PROVE LaneInv'
  BY <1>11, LaneKept
  DEF Probe, ProbeLane, ProbeTry, ProbeCannotOpen, ProbeUnlock, ProbeRead
<1>12. CASE UNCHANGED vars
  BY <1>12, LaneKept DEF vars
<1> QED
  BY <1>1, <1>2, <1>3, <1>4, <1>5, <1>6, <1>7, <1>8, <1>9, <1>10, <1>11, <1>12 DEF Next

-----------------------------------------------------------------------------
\* Descriptions of owners are equal only for one owner.
LEMMA OwnersDiffer ==
    /\ \A k1, k2, x, y : Opened(k1, x) = Opened(k2, y) => k1 = k2 /\ x = y
    /\ \A o \in Op : Opened("op", o) # None /\ Opened("op", o).id = o
BY NoneAssumption DEF Opened, Owner

\* While the lock is free no ordered operation is past try_acquire.
LEMMA FreeLock ==
    ASSUME LockOwned, flock = None, NEW q \in Op, Ordered(q)
    PROVE  pc[q] \notin Owning
BY OwnersDiffer DEF LockOwned

\* A step that moves one operation, gets no ordered one past try_acquire, and
\* closes at most that operation's own file or one that is no operation's.
LEMMA MoveUnderLock ==
    ASSUME TypeOK, LockOwned, NEW o \in Op, NEW at \in PCs,
           pc' = [pc EXCEPT ![o] = at],
           Ordered(o) /\ at \in Owning => pc[o] \in Owning /\ flock' = flock,
           \/ flock' = flock
           \/ flock' = Closed(Opened("op", o))
    PROVE  LockOwned'
<1> SUFFICES ASSUME NEW q \in Op, Ordered(q), pc'[q] \in Owning
             PROVE  flock' = Opened("op", q)
  BY DEF LockOwned, Ordered, Inherits
<1>1. CASE q = o
  <2>1. pc'[o] = at
    BY DEF TypeOK
  <2> QED
    BY <1>1, <2>1 DEF LockOwned
<1>2. CASE q # o
  <2>1. pc'[q] = pc[q] /\ flock = Opened("op", q)
    BY <1>2 DEF TypeOK, LockOwned
  <2> QED
    BY <1>2, <2>1, OwnersDiffer DEF Closed
<1> QED
  BY <1>1, <1>2

\* The kernel closes only the files of the processes that end.
LEMMA DieLock ==
    ASSUME TypeOK, LockOwned, NEW P \in SUBSET Proc, Die(P)
    PROVE  LockOwned'
<1> SUFFICES ASSUME NEW q \in Op, Ordered(q), pc'[q] \in Owning
             PROVE  flock' = Opened("op", q)
  BY DEF LockOwned, Ordered, Inherits
<1>1. pc'[q] = (IF Home[q] \in P THEN "idle" ELSE pc[q]) /\ "idle" \notin Owning
  BY DEF Die, Owning, Holding
<1>2. Home[q] \notin P /\ flock = Opened("op", q)
  BY <1>1 DEF LockOwned
<1> QED
  BY <1>2, OwnersDiffer DEF Die

\* Every step keeps the lock with its owner.
LEMMA LockStep == TypeOK /\ LockOwned /\ [Next]_vars => LockOwned'
<1> SUFFICES ASSUME TypeOK, LockOwned, [Next]_vars PROVE LockOwned'
  OBVIOUS
<1> USE PCsAreStates DEF Goto
<1>0. Owning = {"publishing", "renaming", "renamed", "granted", "dropping", "withdrawn"}
  BY DEF Owning, Holding
<1>1. ASSUME NEW o \in Op, Enqueue(o) PROVE LockOwned'
  BY <1>0, <1>1, MoveUnderLock DEF Enqueue
<1>2. ASSUME NEW o \in Op, Acquire(o) PROVE LockOwned'
  <2>1. CASE Register(o)
    BY <1>0, <2>1, MoveUnderLock DEF Register
  <2>2. CASE CheckHead(o)
    BY <1>0, <2>2, MoveUnderLock DEF CheckHead, Ordered
  <2>0. CASE Await(o)
    BY <1>0, <2>0, MoveUnderLock DEF Await
  <2>3. CASE Wake(o)
    BY <1>0, <2>3, MoveUnderLock DEF Wake
  <2>4. CASE Reobserve(o)
    BY <1>0, <2>4, MoveUnderLock DEF Reobserve
  <2>5. CASE TakeLock(o)
    <3> SUFFICES ASSUME NEW q \in Op, Ordered(q), pc'[q] \in Owning
                 PROVE  flock' = Opened("op", q)
      BY DEF LockOwned, Ordered, Inherits
    <3>1. flock = None /\ flock' = Opened("op", o)
      BY <2>5 DEF TakeLock
    <3>2. q # o => pc'[q] = pc[q]
      BY <2>5 DEF TakeLock, TypeOK
    <3> QED
      BY <3>1, <3>2, FreeLock
  <2>6. CASE FindBusy(o)
    BY <1>0, <2>6, MoveUnderLock DEF FindBusy
  <2>7. CASE Degrade(o)
    BY <1>0, <2>7, MoveUnderLock DEF Degrade, Ordered
  <2>8. CASE Retry(o)
    BY <1>0, <2>8, MoveUnderLock DEF Retry
  <2>9. CASE WriteTemp(o)
    BY <1>0, <2>9, MoveUnderLock DEF WriteTemp
  <2>10. CASE RenameLands(o)
    BY <1>0, <2>10, MoveUnderLock DEF RenameLands
  <2>11. CASE Grant(o)
    BY <1>0, <2>11, MoveUnderLock DEF Grant
  <2> QED
    BY <1>2, <2>0, <2>1, <2>2, <2>3, <2>4, <2>5, <2>6, <2>7, <2>8, <2>9, <2>10, <2>11
    DEF Acquire
<1>3. ASSUME NEW o \in Op, Cancel(o) PROVE LockOwned'
  BY <1>0, <1>3, MoveUnderLock DEF Cancel
<1>4. ASSUME NEW o \in Op, DropFuture(o) PROVE LockOwned'
  BY <1>0, <1>4, MoveUnderLock DEF DropFuture
<1>5. ASSUME NEW o \in Op, Stray(o) PROVE LockOwned'
  <2>1. CASE StrayTakes(o)
    BY <2>1, FreeLock DEF StrayTakes, LockOwned, Ordered, Inherits
  <2>2. CASE StrayEnds(o)
    BY <2>2, OwnersDiffer DEF StrayEnds, Closed, LockOwned, Ordered, Inherits
  <2>3. CASE StrayRenames(o)
    BY <2>3 DEF StrayRenames, LockOwned, Ordered, Inherits
  <2> QED
    BY <1>5, <2>1, <2>2, <2>3 DEF Stray
<1>6. ASSUME NEW o \in Op, StartCommand(o) \/ Abandon(o) PROVE LockOwned'
  BY <1>6 DEF StartCommand, Abandon, LockOwned, Ordered, Inherits
<1>7. ASSUME NEW o \in Op, SoftRelease(o) PROVE LockOwned'
  BY <1>0, <1>7, MoveUnderLock DEF SoftRelease
<1>8. ASSUME NEW o \in Op, EndCommand(o) PROVE LockOwned'
  BY <1>8, EndCommandKills, DieLock
<1>9. ASSUME NEW o \in Op, Release(o) PROVE LockOwned'
  <2>1. CASE DropLease(o)
    BY <1>0, <2>1, MoveUnderLock DEF DropLease
  <2>2. CASE Withdraw(o)
    BY <1>0, <2>2, MoveUnderLock DEF Withdraw
  <2>3. CASE LeaveLane(o)
    BY <1>0, <2>3, MoveUnderLock DEF LeaveLane
  <2>4. CASE NotifyWaiters(o)
    BY <1>0, <2>4, MoveUnderLock DEF NotifyWaiters
  <2>5. CASE Unlock(o)
    BY <1>0, <2>5, MoveUnderLock DEF Unlock
  <2>6. CASE Forget(o)
    BY <1>0, <2>6, MoveUnderLock DEF Forget
  <2> QED
    BY <1>9, <2>1, <2>2, <2>3, <2>4, <2>5, <2>6 DEF Release
<1>10. ASSUME NEW p \in Proc, Crash(p) PROVE LockOwned'
  BY <1>10, DieLock DEF Crash
<1>11. ASSUME NEW b \in Prober, Probe(b) PROVE LockOwned'
  <2>1. CASE ProbeTry(b)
    BY <2>1, FreeLock DEF ProbeTry, LockOwned, Ordered, Inherits
  <2>2. CASE ProbeUnlock(b)
    BY <2>2, OwnersDiffer DEF ProbeUnlock, Closed, LockOwned, Ordered, Inherits
  <2>3. CASE ProbeLane(b) \/ ProbeCannotOpen(b) \/ ProbeRead(b)
    BY <2>3 DEF ProbeLane, ProbeCannotOpen, ProbeRead, LockOwned, Ordered, Inherits
  <2> QED
    BY <1>11, <2>1, <2>2, <2>3 DEF Probe
<1>12. CASE UNCHANGED vars
  BY <1>12 DEF vars, LockOwned, Ordered, Inherits
<1> QED
  BY <1>1, <1>2, <1>3, <1>4, <1>5, <1>6, <1>7, <1>8, <1>9, <1>10, <1>11, <1>12 DEF Next

-----------------------------------------------------------------------------
\* The invariant of every reachable state, by which the theorems below hold:
\* types need the lanes (an entry to remove exists), the rest needs types.
THEOREM Invariant == Spec => []IInv
<1>1. IInv /\ [Next]_vars => IInv'
  BY TypeStep, LaneStep, LockStep DEF IInv
<1> QED
  BY <1>1, InitIInv, PTL DEF Spec

\* Every variable of the queue keeps its type: among them, a lane is always a
\* sequence of operations, so remove() always finds the entry it takes out.
THEOREM TypeCorrect == Spec => []TypeOK
<1>1. IInv => TypeOK
  BY DEF IInv
<1> QED
  BY <1>1, Invariant, PTL

\* SPEC R2.7.7, "across processes the kernel lock guarantees mutual exclusion":
\* for any number of processes, and whatever is killed, cancelled or dropped.
THEOREM LeaseIsExclusive == Spec => []MutualExclusion
<1>1. IInv => MutualExclusion
  <2> SUFFICES ASSUME IInv, NEW a \in Op, NEW b \in Op, Ordered(a), Ordered(b),
                      pc[a] \in Holding, pc[b] \in Holding
               PROVE  a = b
    BY DEF MutualExclusion
  <2>1. flock = Opened("op", a) /\ flock = Opened("op", b)
    BY DEF IInv, LockOwned, Owning
  <2> QED
    BY <2>1, OwnersDiffer
<1> QED
  BY <1>1, Invariant, PTL

\* LeaseProbe::Free is never told while an ordered operation holds the lease.
THEOREM ProbeIsRight == Spec => FreeProbeIsRight
<1>1. IInv /\ [Next]_vars =>
        [\A b \in Prober : look[b].at = "opening" /\ look'[b].at = "locked"
           => \A o \in Op : Ordered(o) => pc[o] \notin Holding]_vars
  <2> SUFFICES ASSUME IInv, Next, NEW b \in Prober,
                      look[b].at = "opening", look'[b].at = "locked",
                      NEW o \in Op, Ordered(o)
               PROVE  pc[o] \notin Holding
    OBVIOUS
  <2>1. flock = None
    <3>1. look' # look /\ look'[b] # look[b]
      OBVIOUS
    <3>2. ASSUME NEW c \in Prober, NEW at, NEW by, at # "locked", Told(c, at, by)
          PROVE  FALSE
      BY <3>2 DEF Told, IInv, TypeOK
    <3>3. ASSUME NEW P \in SUBSET Proc, Die(P) PROVE FALSE
      BY <3>3 DEF Die, Unseen
    <3>4. ASSUME NEW c \in Prober, Probe(c) PROVE flock = None
      BY <3>2, <3>4
      DEF Probe, ProbeLane, ProbeTry, ProbeCannotOpen, ProbeUnlock, ProbeRead
    <3>6. ASSUME NEW x \in Op, EndCommand(x) PROVE FALSE
      BY <3>3, <3>6, EndCommandKills
    <3>7. ASSUME NEW p \in Proc, Crash(p) PROVE FALSE
      BY <3>3, <3>7 DEF Crash
    <3>8. ASSUME NEW x \in Op,
                 \/ Enqueue(x) \/ Acquire(x) \/ Cancel(x) \/ DropFuture(x) \/ Stray(x)
                 \/ StartCommand(x) \/ SoftRelease(x) \/ Abandon(x) \/ Release(x)
          PROVE  FALSE
      <4>1. look' = look
        BY <3>8
        DEF Enqueue, Acquire, Cancel, DropFuture, Stray, StartCommand, SoftRelease, Abandon, Release,
            Register, CheckHead, Await, Wake, Reobserve, TakeLock, FindBusy, Degrade, Retry,
            WriteTemp, RenameLands, Grant, StrayTakes, StrayEnds, StrayRenames,
            DropLease, Withdraw, LeaveLane, NotifyWaiters, Unlock, Forget
      <4> QED
        BY <3>1, <4>1
    <3> QED
      BY <3>4, <3>6, <3>7, <3>8 DEF Next
  <2> QED
    BY <2>1, FreeLock DEF IInv, Owning
<1> QED
  BY <1>1, Invariant, PTL DEF Spec, FreeProbeIsRight

-----------------------------------------------------------------------------
\* Arrival order.  An operation past layer 1 is the first entry of its lane, and
\* stays it: entries come behind it, and of the others none is before it.
Proceeding == AtHead \cup Holding

First(o) == 1 \in DOMAIN lane[Home[o]] /\ lane[Home[o]][1] = o

FirstInv == \A o \in Op : pc[o] \in Proceeding => First(o)

LEMMA HeadIsFirst == ASSUME TypeOK, NEW o \in Op PROVE IsHead(o) <=> First(o)
<1> DEFINE s == lane[Home[o]]
<1>1. s \in Seq(Op)
  BY ConstantsAssumption DEF TypeOK
<1> HIDE DEF s
<1>2. (s # <<>> /\ Head(s) = o) <=> (1 \in DOMAIN s /\ s[1] = o)
  BY <1>1
<1> QED
  BY <1>2 DEF IsHead, First, s

LEMMA ProceedingStates ==
    Proceeding = {"trying", "backoff", "publishing", "renaming", "renamed",
                  "granted", "dropping", "withdrawn"}
BY DEF Proceeding, AtHead, Holding

\* A step that leaves the lanes alone, and takes no operation past the check of
\* its head.
LEMMA FirstKept ==
    ASSUME FirstInv, lane' = lane,
           \A q \in Op : pc'[q] \in Proceeding => pc[q] \in Proceeding
    PROVE  FirstInv'
BY DEF FirstInv, First

LEMMA MoveKeepsFirst ==
    ASSUME TypeOK, FirstInv, NEW o \in Op, NEW at,
           pc' = [pc EXCEPT ![o] = at], lane' = lane,
           at \in Proceeding => pc[o] \in Proceeding
    PROVE  FirstInv'
<1>1. \A q \in Op : pc'[q] = IF q = o THEN at ELSE pc[q]
  BY DEF TypeOK
<1> QED
  BY <1>1, FirstKept

LEMMA EnqueueKeepsFirst ==
    ASSUME TypeOK, FirstInv, NEW o \in Op, Enqueue(o)
    PROVE  FirstInv'
<1> SUFFICES ASSUME NEW q \in Op, pc'[q] \in Proceeding PROVE First(q)'
  BY DEF FirstInv
<1>1. q # o /\ pc'[q] = pc[q]
  BY ProceedingStates DEF Enqueue, Goto, TypeOK
<1>2. First(q)
  BY <1>1 DEF FirstInv
<1> DEFINE s == lane[Home[q]]
<1>3. s \in Seq(Op) /\ Home[q] \in Proc
  BY ConstantsAssumption DEF TypeOK
<1>4. lane'[Home[q]] = s \/ lane'[Home[q]] = Append(s, o)
  BY <1>3 DEF Enqueue, TypeOK
<1> HIDE DEF s
<1>5. 1 \in DOMAIN s /\ s[1] = q
  BY <1>2 DEF First, s
<1>6. 1 \in DOMAIN Append(s, o) /\ Append(s, o)[1] = q
  BY <1>3, <1>5
<1> QED
  BY <1>4, <1>5, <1>6 DEF First

LEMMA LeaveKeepsFirst ==
    ASSUME TypeOK, LaneInv, FirstInv, NEW o \in Op, LeaveLane(o)
    PROVE  FirstInv'
<1> SUFFICES ASSUME NEW q \in Op, pc'[q] \in Proceeding PROVE First(q)'
  BY DEF FirstInv
<1>1. q # o /\ pc'[q] = pc[q]
  BY ProceedingStates DEF LeaveLane, Goto, TypeOK
<1>2. First(q)
  BY <1>1 DEF FirstInv
<1> DEFINE h == Home[o]  s == lane[h]  k == Place(o)  r == RemoveAt(s, k)
<1>3. /\ h \in Proc /\ s \in Seq(Op) /\ k \in 1..Len(s) /\ s[k] = o
      /\ Len(s) \in Nat /\ DOMAIN s = 1..Len(s)
  <2>1. pc[o] \in InLine
    BY PCsAreStates DEF LeaveLane
  <2> QED
    BY <2>1, PlaceInLane, LenProperties
<1>4. /\ lane'[h] = r
      /\ Home[q] # h => lane'[Home[q]] = lane[Home[q]]
  BY <1>3, ConstantsAssumption DEF LeaveLane, Without, TypeOK
<1> HIDE DEF k
<1>5. /\ DOMAIN r = 1..(Len(s) - 1)
      /\ \A j \in 1..(Len(s) - 1) : r[j] = IF j < k THEN s[j] ELSE s[j + 1]
  <2>1. r \in Seq(Op) /\ Len(r) = Len(s) - 1
    BY <1>3, RemoveAtElements
  <2>2. DOMAIN r = 1..Len(r)
    <3> HIDE DEF r
    <3> QED BY <2>1, LenProperties
  <2> QED
    BY <1>3, <2>1, <2>2, RemoveAtElements
<1>6. CASE Home[q] = h
  <2>1. s[1] = q
    BY <1>2, <1>6 DEF First
  <2> HIDE DEF s, r
  <2>2. 1 < k
    BY <1>1, <1>3, <2>1
  <2>3. 1 \in DOMAIN r /\ r[1] = q
    BY <1>3, <1>5, <2>1, <2>2
  <2> QED
    BY <1>4, <1>6, <2>3 DEF First
<1>7. CASE Home[q] # h
  BY <1>2, <1>4, <1>7 DEF First
<1> QED
  BY <1>6, <1>7

LEMMA DieKeepsFirst ==
    ASSUME TypeOK, FirstInv, NEW P \in SUBSET Proc, Die(P)
    PROVE  FirstInv'
BY ProceedingStates, ConstantsAssumption DEF Die, FirstInv, First

LEMMA FirstStep == TypeOK /\ LaneInv /\ FirstInv /\ [Next]_vars => FirstInv'
<1> SUFFICES ASSUME TypeOK, LaneInv, FirstInv, [Next]_vars PROVE FirstInv'
  OBVIOUS
<1> USE ProceedingStates DEF Goto
<1>1. ASSUME NEW o \in Op, Acquire(o) PROVE FirstInv'
  <2>1. CASE Register(o) \/ Await(o) \/ Wake(o) \/ Reobserve(o)
    BY <2>1, MoveKeepsFirst DEF Register, Await, Wake, Reobserve
  <2>2. CASE CheckHead(o)
    <3>1. CASE IsHead(o)
      <4>1. lane' = lane /\ First(o) /\ \A q \in Op : q # o => pc'[q] = pc[q]
        BY <2>2, <3>1, HeadIsFirst DEF CheckHead, TypeOK
      <4> QED
        BY <4>1 DEF FirstInv, First
    <3>2. CASE ~IsHead(o)
      BY <2>2, <3>2, MoveKeepsFirst DEF CheckHead
    <3> QED
      BY <3>1, <3>2
  <2>3. CASE TakeLock(o) \/ FindBusy(o) \/ Degrade(o) \/ Retry(o)
    BY <2>3, MoveKeepsFirst DEF TakeLock, FindBusy, Degrade, Retry
  <2>4. CASE WriteTemp(o)
    BY <2>4, MoveKeepsFirst DEF WriteTemp
  <2>5. CASE RenameLands(o) \/ Grant(o)
    BY <2>5, MoveKeepsFirst DEF RenameLands, Grant
  <2> QED
    BY <1>1, <2>1, <2>2, <2>3, <2>4, <2>5 DEF Acquire
<1>2. ASSUME NEW o \in Op, Cancel(o) \/ DropFuture(o) \/ SoftRelease(o) PROVE FirstInv'
  BY <1>2, MoveKeepsFirst DEF Cancel, DropFuture, SoftRelease
<1>3. ASSUME NEW o \in Op, Stray(o) \/ StartCommand(o) \/ Abandon(o) PROVE FirstInv'
  BY <1>3, FirstKept DEF Stray, StrayTakes, StrayEnds, StrayRenames, StartCommand, Abandon
<1>4. ASSUME NEW o \in Op, Release(o) PROVE FirstInv'
  <2>1. CASE DropLease(o) \/ Withdraw(o)
    BY <2>1, MoveKeepsFirst DEF DropLease, Withdraw
  <2>2. CASE NotifyWaiters(o)
    BY <2>2, MoveKeepsFirst DEF NotifyWaiters
  <2>3. CASE Unlock(o) \/ Forget(o)
    BY <2>3, MoveKeepsFirst DEF Unlock, Forget
  <2> QED
    BY <1>4, <2>1, <2>2, <2>3, LeaveKeepsFirst DEF Release
<1>5. ASSUME NEW b \in Prober, Probe(b) PROVE FirstInv'
  BY <1>5, FirstKept
  DEF Probe, ProbeLane, ProbeTry, ProbeCannotOpen, ProbeUnlock, ProbeRead
<1>6. ASSUME NEW o \in Op, EndCommand(o) PROVE FirstInv'
  BY <1>6, EndCommandKills, DieKeepsFirst
<1>7. ASSUME NEW p \in Proc, Crash(p) PROVE FirstInv'
  BY <1>7, DieKeepsFirst DEF Crash
<1>8. CASE UNCHANGED vars
  BY <1>8, FirstKept DEF vars
<1> QED
  BY <1>1, <1>2, <1>3, <1>4, <1>5, <1>6, <1>7, <1>8, EnqueueKeepsFirst DEF Next

\* SPEC R2.7.7, "within one process the order is strict FIFO": who is past layer 1
\* is the head, whatever became of the lock file, for any number of operations.
THEOREM ArrivalOrder == Spec => []OnlyHeadProceeds
<1>1. Init => FirstInv
  BY ProceedingStates DEF Init, FirstInv
<1>2. IInv /\ FirstInv /\ [Next]_vars => FirstInv'
  BY FirstStep DEF IInv
<1>3. IInv /\ FirstInv => OnlyHeadProceeds
  BY HeadIsFirst DEF IInv, FirstInv, OnlyHeadProceeds, Proceeding
<1> QED
  BY <1>1, <1>2, <1>3, Invariant, PTL DEF Spec

-----------------------------------------------------------------------------
\* No stale locks.
LEMMA OpenedFields ==
    /\ \A k, x : Opened(k, x).kind = k /\ Opened(k, x).id = x
    /\ \A o \in Op : Opened("op", o) # None /\ Opened("stray", o) # None
    /\ \A b \in Prober : Opened("probe", b) # None
BY NoneAssumption DEF Opened, Owner

LEMMA ClosedIsLess ==
    ASSUME NEW own, NEW x, x # None, flock' = Closed(own), flock' = x
    PROVE  flock = x /\ x # own
BY DEF Closed

\* The operations that may own the lock.
OpenStates ==
    {"publishing", "renaming", "renamed", "granted", "dropping", "withdrawn", "left", "unlocking"}

StaleInv ==
    /\ \A o \in Op : flock = Opened("op", o) => pc[o] \in OpenStates
    /\ \A o \in Op : flock = Opened("stray", o) => o \in strayTry
    /\ \A b \in Prober : flock = Opened("probe", b) => look[b].at = "locked"

\* A step of one operation that closes at most its own file, and does close it
\* when it leaves the states in which it may own the lock.
LEMMA MoveLeavesNoLock ==
    ASSUME TypeOK, StaleInv, NEW o \in Op, NEW at,
           pc' = [pc EXCEPT ![o] = at], look' = look, strayTry \subseteq strayTry',
           \/ flock' = flock /\ (pc[o] \in OpenStates => at \in OpenStates)
           \/ flock' = Closed(Opened("op", o))
    PROVE  StaleInv'
<1>1. \A q \in Op : flock' = Opened("op", q) => pc'[q] \in OpenStates
  <2> SUFFICES ASSUME NEW q \in Op, flock' = Opened("op", q) PROVE pc'[q] \in OpenStates
    OBVIOUS
  <2>1. pc'[q] = IF q = o THEN at ELSE pc[q]
    BY DEF TypeOK
  <2>2. flock = Opened("op", q) /\ (q = o => flock' = flock)
    BY OpenedFields DEF Closed
  <2>3. pc[q] \in OpenStates
    BY <2>2 DEF StaleInv
  <2>4. q = o => (pc[o] \in OpenStates => at \in OpenStates)
    BY <2>2, OpenedFields DEF Closed
  <2> QED
    BY <2>1, <2>3, <2>4
<1>2. \A q \in Op : flock' = Opened("stray", q) => q \in strayTry'
  BY OpenedFields DEF Closed, StaleInv
<1>3. \A b \in Prober : flock' = Opened("probe", b) => look'[b].at = "locked"
  BY OpenedFields DEF Closed, StaleInv
<1> QED
  BY <1>1, <1>2, <1>3 DEF StaleInv

LEMMA DieLeavesNoLock ==
    ASSUME TypeOK, StaleInv, NEW P \in SUBSET Proc, Die(P)
    PROVE  StaleInv'
<1>1. ASSUME NEW k, NEW x \in Op \cup Prober, flock' = Opened(k, x), Opened(k, x) # None
      PROVE  flock = Opened(k, x) /\ Home[x] \notin P
  BY <1>1, OpenedFields DEF Die
<1>2. \A o \in Op : flock' = Opened("op", o) => pc'[o] \in OpenStates
  BY <1>1, OpenedFields DEF Die, StaleInv
<1>3. \A o \in Op : flock' = Opened("stray", o) => o \in strayTry'
  BY <1>1, OpenedFields DEF Die, OfProcs, StaleInv
<1>4. \A b \in Prober : flock' = Opened("probe", b) => look'[b].at = "locked"
  BY <1>1, OpenedFields DEF Die, StaleInv
<1> QED
  BY <1>2, <1>3, <1>4 DEF StaleInv

LEMMA StrayLeavesNoLock ==
    ASSUME TypeOK, StaleInv, NEW o \in Op, Stray(o)
    PROVE  StaleInv'
<1>1. CASE StrayTakes(o)
  <2>1. flock' = Opened("stray", o) /\ UNCHANGED <<pc, strayTry, look>> /\ o \in strayTry
    BY <1>1 DEF StrayTakes
  <2>2. \A q \in Op : flock' # Opened("op", q) /\ (flock' = Opened("stray", q) => q = o)
    BY <2>1, OpenedFields
  <2>3. \A b \in Prober : flock' # Opened("probe", b)
    BY <2>1, OpenedFields
  <2> QED
    BY <2>1, <2>2, <2>3 DEF StaleInv
<1>2. CASE StrayEnds(o)
  <2>1. /\ flock' = Closed(Opened("stray", o)) /\ strayTry' = strayTry \ {o}
        /\ UNCHANGED <<pc, look>>
    BY <1>2 DEF StrayEnds
  <2>2. \A q \in Op : flock' = Opened("op", q) => flock = Opened("op", q)
    BY <2>1, ClosedIsLess, OpenedFields
  <2>3. \A q \in Op : flock' = Opened("stray", q) => flock = Opened("stray", q) /\ q # o
    BY <2>1, ClosedIsLess, OpenedFields
  <2>4. \A b \in Prober : flock' = Opened("probe", b) => flock = Opened("probe", b)
    BY <2>1, ClosedIsLess, OpenedFields
  <2> QED
    BY <2>1, <2>2, <2>3, <2>4 DEF StaleInv
<1>3. CASE StrayRenames(o)
  BY <1>3 DEF StrayRenames, StaleInv
<1> QED
  BY <1>1, <1>2, <1>3 DEF Stray

LEMMA ProbeLeavesNoLock ==
    ASSUME TypeOK, StaleInv, NEW b \in Prober, Probe(b)
    PROVE  StaleInv'
<1>1. UNCHANGED <<pc, strayTry>>
  BY DEF Probe, ProbeLane, ProbeTry, ProbeCannotOpen, ProbeUnlock, ProbeRead
<1>2. ASSUME NEW at, NEW by, Told(b, at, by), look[b].at # "locked", flock' = flock
      PROVE  StaleInv'
  <2>1. \A c \in Prober : c # b => look'[c] = look[c]
    BY <1>2 DEF Told, TypeOK
  <2>2. flock # Opened("probe", b)
    BY <1>2 DEF StaleInv
  <2> QED
    BY <1>1, <1>2, <2>1, <2>2 DEF StaleInv
<1>3. CASE ProbeTry(b)
  <2>1. CASE flock = None
    <3>1. flock' = Opened("probe", b) /\ Told(b, "locked", None)
      BY <1>3, <2>1 DEF ProbeTry
    <3>2. look'[b].at = "locked"
      BY <3>1 DEF Told, TypeOK
    <3>3. /\ \A q \in Op : flock' # Opened("op", q) /\ flock' # Opened("stray", q)
          /\ \A c \in Prober : flock' = Opened("probe", c) => c = b
      BY <3>1, OpenedFields
    <3> QED
      BY <3>2, <3>3 DEF StaleInv
  <2>2. CASE flock # None
    BY <1>2, <1>3, <2>2 DEF ProbeTry
  <2> QED
    BY <2>1, <2>2
<1>4. CASE ProbeUnlock(b)
  <2>1. flock' = Closed(Opened("probe", b)) /\ Told(b, "free", None)
    BY <1>4 DEF ProbeUnlock
  <2>2. \A c \in Prober : c # b => look'[c] = look[c]
    BY <2>1 DEF Told, TypeOK
  <2>3. \A q \in Op : /\ flock' = Opened("op", q) => flock = Opened("op", q)
                      /\ flock' = Opened("stray", q) => flock = Opened("stray", q)
    BY <2>1, ClosedIsLess, OpenedFields
  <2>4. \A c \in Prober : flock' = Opened("probe", c) => flock = Opened("probe", c) /\ c # b
    BY <2>1, ClosedIsLess, OpenedFields
  <2> QED
    BY <1>1, <2>2, <2>3, <2>4 DEF StaleInv
<1>5. CASE ProbeLane(b)
  BY <1>2, <1>5 DEF ProbeLane, Answered
<1>6. CASE ProbeCannotOpen(b) \/ ProbeRead(b)
  BY <1>2, <1>6 DEF ProbeCannotOpen, ProbeRead
<1> QED
  BY <1>3, <1>4, <1>5, <1>6 DEF Probe

LEMMA StaleStep == TypeOK /\ StaleInv /\ [Next]_vars => StaleInv'
<1> SUFFICES ASSUME TypeOK, StaleInv, [Next]_vars PROVE StaleInv'
  OBVIOUS
<1> USE DEF Goto, OpenStates
<1>1. ASSUME NEW o \in Op, Enqueue(o) PROVE StaleInv'
  BY <1>1, MoveLeavesNoLock DEF Enqueue
<1>2. ASSUME NEW o \in Op, Acquire(o) PROVE StaleInv'
  <2>1. CASE Register(o) \/ Await(o) \/ Wake(o) \/ Reobserve(o)
    BY <2>1, MoveLeavesNoLock DEF Register, Await, Wake, Reobserve
  <2>2. CASE CheckHead(o)
    BY <2>2, MoveLeavesNoLock DEF CheckHead
  <2>3. CASE TakeLock(o)
    <3>1. flock' = Opened("op", o) /\ UNCHANGED <<strayTry, look>> /\ pc'[o] = "publishing"
      BY <2>3 DEF TakeLock, TypeOK
    <3>2. /\ \A q \in Op : /\ flock' # Opened("stray", q)
                           /\ flock' = Opened("op", q) => q = o
          /\ \A b \in Prober : flock' # Opened("probe", b)
      BY <3>1, OpenedFields
    <3> QED
      BY <3>1, <3>2 DEF StaleInv
  <2>4. CASE FindBusy(o) \/ Degrade(o) \/ Retry(o)
    BY <2>4, MoveLeavesNoLock DEF FindBusy, Degrade, Retry
  <2>5. CASE WriteTemp(o)
    BY <2>5, MoveLeavesNoLock DEF WriteTemp
  <2>6. CASE RenameLands(o) \/ Grant(o)
    BY <2>6, MoveLeavesNoLock DEF RenameLands, Grant
  <2> QED
    BY <1>2, <2>1, <2>2, <2>3, <2>4, <2>5, <2>6 DEF Acquire
<1>3. ASSUME NEW o \in Op, Cancel(o) \/ SoftRelease(o) PROVE StaleInv'
  BY <1>3, MoveLeavesNoLock DEF Cancel, SoftRelease
<1>4. ASSUME NEW o \in Op, DropFuture(o) PROVE StaleInv'
  BY <1>4, MoveLeavesNoLock DEF DropFuture
<1>5. ASSUME NEW o \in Op, StartCommand(o) \/ Abandon(o) PROVE StaleInv'
  BY <1>5 DEF StartCommand, Abandon, StaleInv
<1>6. ASSUME NEW o \in Op, Release(o) PROVE StaleInv'
  <2>1. CASE DropLease(o) \/ Withdraw(o)
    BY <2>1, MoveLeavesNoLock DEF DropLease, Withdraw
  <2>2. CASE LeaveLane(o)
    BY <2>2, MoveLeavesNoLock DEF LeaveLane
  <2>3. CASE NotifyWaiters(o)
    BY <2>3, MoveLeavesNoLock DEF NotifyWaiters
  <2>4. CASE Unlock(o) \/ Forget(o)
    BY <2>4, MoveLeavesNoLock DEF Unlock, Forget
  <2> QED
    BY <1>6, <2>1, <2>2, <2>3, <2>4 DEF Release
<1>7. ASSUME NEW o \in Op, EndCommand(o) PROVE StaleInv'
  BY <1>7, EndCommandKills, DieLeavesNoLock
<1>8. ASSUME NEW p \in Proc, Crash(p) PROVE StaleInv'
  BY <1>8, DieLeavesNoLock DEF Crash
<1>9. CASE UNCHANGED vars
  BY <1>9 DEF vars, StaleInv
<1> QED
  BY <1>1, <1>2, <1>3, <1>4, <1>5, <1>6, <1>7, <1>8, <1>9,
     StrayLeavesNoLock, ProbeLeavesNoLock DEF Next

\* SPEC R2.7.7, "no stale locks, by construction": whoever owns the kernel lock is
\* about to give it back, through any cancellations, dropped futures and kills.
THEOREM LockIsNeverStale == Spec => []NoStaleLock
<1>1. Init => StaleInv
  BY OpenedFields DEF Init, StaleInv
<1>2. IInv /\ StaleInv /\ [Next]_vars => StaleInv'
  BY StaleStep DEF IInv
<1>3. StaleInv => NoStaleLock
  BY DEF StaleInv, NoStaleLock, OpenStates, Holding
<1> QED
  BY <1>1, <1>2, <1>3, Invariant, PTL DEF Spec

-----------------------------------------------------------------------------
\* No lost wake-up.  Who sleeps, or is about to, was not the head when it
\* looked: a later head has a leaver in its process that has yet to notify.
Asleep == {"checked", "parked"}
Notifying == {"left", "gone"}

\* A step that leaves the lanes alone, puts nobody to sleep and takes back no
\* wake-up, given or owed.
LEMMA WakeKept ==
    ASSUME NoLostWakeup, lane' = lane,
           \A q \in Op : pc'[q] \in Asleep =>
               pc[q] \in Asleep /\ (q \in woken => q \in woken'),
           \A r \in Op : pc[r] \in Notifying => pc'[r] \in Notifying
    PROVE  NoLostWakeup'
BY DEF NoLostWakeup, IsHead, Asleep, Notifying

LEMMA MoveKeepsWake ==
    ASSUME TypeOK, NoLostWakeup, NEW o \in Op, NEW at,
           pc' = [pc EXCEPT ![o] = at], lane' = lane, woken' = woken,
           at \in Asleep => pc[o] \in Asleep,
           pc[o] \in Notifying => at \in Notifying
    PROVE  NoLostWakeup'
<1>1. \A q \in Op : pc'[q] = IF q = o THEN at ELSE pc[q]
  BY DEF TypeOK
<1> QED
  BY <1>1, WakeKept

\* An entry behind the others makes nobody else the head.
LEMMA EnqueueKeepsWake ==
    ASSUME TypeOK, LaneInv, NoLostWakeup, NEW o \in Op, Enqueue(o)
    PROVE  NoLostWakeup'
<1> SUFFICES ASSUME NEW q \in Op, pc'[q] \in Asleep, IsHead(q)'
             PROVE  \/ q \in woken'
                    \/ \E r \in Op : Home[r] = Home[q] /\ pc'[r] \in Notifying
  BY DEF NoLostWakeup, Asleep, Notifying
<1>1. /\ woken' = woken /\ pc[o] = "idle" /\ q # o
      /\ \A r \in Op : r # o => pc'[r] = pc[r]
  BY DEF Enqueue, Goto, TypeOK, Asleep
<1> DEFINE s == lane[Home[q]]
<1>2. s \in Seq(Op) /\ Home[q] \in Proc
  BY ConstantsAssumption DEF TypeOK
<1>3. \E i \in DOMAIN s : s[i] = q
  BY <1>1, PCsAreStates DEF LaneInv, LaneComplete, Asleep
<1>4. lane'[Home[q]] = s \/ lane'[Home[q]] = Append(s, o)
  BY <1>2 DEF Enqueue, TypeOK
<1>5. lane'[Home[q]] # <<>> /\ Head(lane'[Home[q]]) = q
  BY DEF IsHead
<1> HIDE DEF s
<1>6. s # <<>> /\ Head(s) = q
  BY <1>2, <1>3, <1>4, <1>5
<1>7. q \in woken \/ \E r \in Op : Home[r] = Home[q] /\ pc[r] \in Notifying
  BY <1>1, <1>6 DEF NoLostWakeup, IsHead, s, Asleep, Notifying
<1> QED
  BY <1>1, <1>7 DEF Notifying

\* Whoever becomes the head does so by the removal of an entry of its lane.
LEMMA LeaveKeepsWake ==
    ASSUME TypeOK, NoLostWakeup, NEW o \in Op, LeaveLane(o)
    PROVE  NoLostWakeup'
<1> SUFFICES ASSUME NEW q \in Op, pc'[q] \in Asleep, IsHead(q)'
             PROVE  \/ q \in woken'
                    \/ \E r \in Op : Home[r] = Home[q] /\ pc'[r] \in Notifying
  BY DEF NoLostWakeup, Asleep, Notifying
<1>1. /\ woken' = woken /\ pc'[o] \in Notifying
      /\ \A r \in Op : r # o => pc'[r] = pc[r]
  BY DEF LeaveLane, Goto, TypeOK, Notifying
<1>2. CASE Home[q] # Home[o]
  <2>1. lane'[Home[q]] = lane[Home[q]]
    BY <1>2, ConstantsAssumption DEF LeaveLane, Without, TypeOK
  <2> QED
    BY <1>1, <1>2, <2>1 DEF NoLostWakeup, IsHead, Asleep, Notifying
<1>3. CASE Home[q] = Home[o]
  BY <1>1, <1>3
<1> QED
  BY <1>2, <1>3

\* notify_waiters reaches everyone of the process that is asleep.
LEMMA NotifyKeepsWake ==
    ASSUME TypeOK, NoLostWakeup, NEW o \in Op, NotifyWaiters(o)
    PROVE  NoLostWakeup'
<1> SUFFICES ASSUME NEW q \in Op, pc'[q] \in Asleep, IsHead(q)'
             PROVE  \/ q \in woken'
                    \/ \E r \in Op : Home[r] = Home[q] /\ pc'[r] \in Notifying
  BY DEF NoLostWakeup, Asleep, Notifying
<1>1. /\ lane' = lane /\ woken \subseteq woken'
      /\ q # o /\ \A r \in Op : r # o => pc'[r] = pc[r]
      /\ Home[q] = Home[o] => q \in woken'
  BY DEF NotifyWaiters, Goto, TypeOK, Asleep
<1> QED
  BY <1>1 DEF NoLostWakeup, IsHead, Asleep, Notifying

LEMMA DieKeepsWake ==
    ASSUME TypeOK, NoLostWakeup, NEW P \in SUBSET Proc, Die(P)
    PROVE  NoLostWakeup'
<1> SUFFICES ASSUME NEW q \in Op, pc'[q] \in Asleep, IsHead(q)'
             PROVE  \/ q \in woken'
                    \/ \E r \in Op : Home[r] = Home[q] /\ pc'[r] \in Notifying
  BY DEF NoLostWakeup, Asleep, Notifying
<1>1. Home[q] \notin P /\ Home[q] \in Proc
  BY ConstantsAssumption DEF Die, Asleep
<1>2. lane'[Home[q]] = lane[Home[q]] /\ (q \in woken => q \in woken')
  BY <1>1 DEF Die, OfProcs
<1>3. \A r \in Op : Home[r] = Home[q] => pc'[r] = pc[r]
  BY <1>1 DEF Die
<1> QED
  BY <1>2, <1>3 DEF NoLostWakeup, IsHead, Asleep, Notifying

LEMMA WakeStep == TypeOK /\ LaneInv /\ NoLostWakeup /\ [Next]_vars => NoLostWakeup'
<1> SUFFICES ASSUME TypeOK, LaneInv, NoLostWakeup, [Next]_vars PROVE NoLostWakeup'
  OBVIOUS
<1> USE DEF Goto, Asleep, Notifying
<1>1. ASSUME NEW o \in Op, Acquire(o) PROVE NoLostWakeup'
  <2>1. CASE Register(o)
    BY <2>1, WakeKept DEF Register, TypeOK
  <2>2. CASE CheckHead(o)
    <3>1. CASE IsHead(o)
      BY <2>2, <3>1, MoveKeepsWake DEF CheckHead
    <3>2. CASE ~IsHead(o)
      BY <2>2, <3>2 DEF CheckHead, TypeOK, NoLostWakeup, IsHead
    <3> QED
      BY <3>1, <3>2
  <2>3. CASE Await(o) \/ Wake(o) \/ Reobserve(o)
    BY <2>3, MoveKeepsWake DEF Await, Wake, Reobserve
  <2>4. CASE TakeLock(o) \/ FindBusy(o) \/ Degrade(o) \/ Retry(o)
    BY <2>4, MoveKeepsWake DEF TakeLock, FindBusy, Degrade, Retry
  <2>5. CASE WriteTemp(o)
    BY <2>5, MoveKeepsWake DEF WriteTemp
  <2>6. CASE RenameLands(o) \/ Grant(o)
    BY <2>6, MoveKeepsWake DEF RenameLands, Grant
  <2> QED
    BY <1>1, <2>1, <2>2, <2>3, <2>4, <2>5, <2>6 DEF Acquire
<1>2. ASSUME NEW o \in Op, Cancel(o) \/ SoftRelease(o) PROVE NoLostWakeup'
  BY <1>2, MoveKeepsWake DEF Cancel, SoftRelease
<1>3. ASSUME NEW o \in Op, DropFuture(o) PROVE NoLostWakeup'
  BY <1>3, MoveKeepsWake DEF DropFuture, AtHead
<1>4. ASSUME NEW o \in Op, Stray(o) \/ StartCommand(o) \/ Abandon(o) PROVE NoLostWakeup'
  BY <1>4, WakeKept DEF Stray, StrayTakes, StrayEnds, StrayRenames, StartCommand, Abandon
<1>5. ASSUME NEW o \in Op, Release(o) PROVE NoLostWakeup'
  <2>1. CASE DropLease(o) \/ Withdraw(o)
    BY <2>1, MoveKeepsWake DEF DropLease, Withdraw
  <2>2. CASE Unlock(o) \/ Forget(o)
    BY <2>2, MoveKeepsWake DEF Unlock, Forget
  <2> QED
    BY <1>5, <2>1, <2>2, LeaveKeepsWake, NotifyKeepsWake DEF Release
<1>6. ASSUME NEW b \in Prober, Probe(b) PROVE NoLostWakeup'
  BY <1>6, WakeKept
  DEF Probe, ProbeLane, ProbeTry, ProbeCannotOpen, ProbeUnlock, ProbeRead
<1>7. ASSUME NEW o \in Op, EndCommand(o) PROVE NoLostWakeup'
  BY <1>7, EndCommandKills, DieKeepsWake
<1>8. ASSUME NEW p \in Proc, Crash(p) PROVE NoLostWakeup'
  BY <1>8, DieKeepsWake DEF Crash
<1>9. CASE UNCHANGED vars
  BY <1>9, WakeKept DEF vars
<1> QED
  BY <1>1, <1>2, <1>3, <1>4, <1>5, <1>6, <1>7, <1>8, <1>9, EnqueueKeepsWake DEF Next

\* Ticket::acquire's "register before checking": no head sleeps with nobody to
\* wake it, for any number of waiters, drops and kills.
THEOREM WakeUpsAreKept == Spec => []NoLostWakeup
<1>1. Init => NoLostWakeup
  BY DEF Init, NoLostWakeup
<1>2. IInv /\ NoLostWakeup /\ [Next]_vars => NoLostWakeup'
  BY WakeStep DEF IInv
<1> QED
  BY <1>1, <1>2, Invariant, PTL DEF Spec

-----------------------------------------------------------------------------
\* The command and its lease: while its ahma watches a command, nothing but the
\* soft hold's timer and a kill of that ahma separates it from the lease.
CommandUnderLease ==
    \A o \in Op : cmd[o] = "running" =>
        \/ pc[o] = "granted"
        \/ o \in SoftHold /\ pc[o] \in Holding \cup HandedOn
        \/ (Home[o] \in Mortal \/ Inherits(Home[o])) /\ pc[o] = "idle"

\* A step of one operation that neither starts nor ends a command, and keeps
\* the lease of one that runs.
LEMMA MoveKeepsCommand ==
    ASSUME TypeOK, CommandUnderLease, NEW o \in Op, NEW at,
           pc' = [pc EXCEPT ![o] = at], cmd' = cmd,
           \/ cmd[o] # "running"
           \/ at = pc[o]
           \/ o \in SoftHold /\ at \in Holding \cup HandedOn
           \/ pc[o] \notin {"idle"} \cup Holding \cup HandedOn
    PROVE  CommandUnderLease'
<1>1. \A q \in Op : pc'[q] = IF q = o THEN at ELSE pc[q]
  BY DEF TypeOK
<1> QED
  BY <1>1 DEF CommandUnderLease, Inherits, Holding

\* Soft holds aside, a command that runs has not had its lease released.
LEMMA RunningIsGranted ==
    ASSUME CommandUnderLease, NEW o \in Op, cmd[o] = "running", o \notin SoftHold
    PROVE  pc[o] \in {"granted", "idle"}
BY DEF CommandUnderLease

\* The ahmas in a command's tree are nested ones.
LEMMA BelowInherits ==
    ASSUME NEW o \in Op, NEW p \in Below[o]
    PROVE  p \in Proc /\ Inherits(p)
BY ConstantsAssumption, TreeAssumption, NoneAssumption DEF Inherits

LEMMA EndKeepsCommand ==
    ASSUME TypeOK, CommandUnderLease, NEW o \in Op, EndCommand(o)
    PROVE  CommandUnderLease'
<1> SUFFICES ASSUME NEW c \in Op, cmd'[c] = "running"
             PROVE  \/ pc'[c] = "granted"
                    \/ c \in SoftHold /\ pc'[c] \in Holding \cup HandedOn
                    \/ (Home[c] \in Mortal \/ Inherits(Home[c])) /\ pc'[c] = "idle"
  BY DEF CommandUnderLease, Inherits
<1>1. PICK dead \in SUBSET Below[o], orphans \in SUBSET Op :
        /\ Die(dead)
        /\ cmd' = [x \in Op |->
                     IF x = o THEN (IF pc[o] = "idle" THEN "none" ELSE "ended")
                     ELSE IF Home[x] \in dead /\ x \notin orphans THEN "none" ELSE cmd[x]]
  BY DEF EndCommand
<1>2. cmd[c] = "running"
  BY <1>1
<1>3. CASE Home[c] \in dead
  BY <1>1, <1>3, BelowInherits DEF Die
<1>4. CASE Home[c] \notin dead
  BY <1>1, <1>2, <1>4 DEF Die, CommandUnderLease
<1> QED
  BY <1>3, <1>4

LEMMA CommandStep == TypeOK /\ CommandUnderLease /\ [Next]_vars => CommandUnderLease'
<1> SUFFICES ASSUME TypeOK, CommandUnderLease, [Next]_vars PROVE CommandUnderLease'
  OBVIOUS
<1> USE DEF Goto, Holding, HandedOn
<1>1. ASSUME NEW o \in Op, Enqueue(o) PROVE CommandUnderLease'
  BY <1>1 DEF Enqueue, CommandUnderLease, Inherits, TypeOK
<1>2. ASSUME NEW o \in Op, Acquire(o) PROVE CommandUnderLease'
  <2>1. CASE Register(o) \/ CheckHead(o)
    BY <2>1, MoveKeepsCommand DEF Register, CheckHead
  <2>2. CASE Await(o) \/ Wake(o) \/ Reobserve(o)
    BY <2>2, MoveKeepsCommand DEF Await, Wake, Reobserve
  <2>3. CASE TakeLock(o) \/ FindBusy(o) \/ Degrade(o) \/ Retry(o)
    BY <2>3, MoveKeepsCommand DEF TakeLock, FindBusy, Degrade, Retry
  <2>4. CASE WriteTemp(o)
    BY <2>4, MoveKeepsCommand DEF WriteTemp
  <2>5. CASE RenameLands(o) \/ Grant(o)
    BY <2>5, MoveKeepsCommand DEF RenameLands, Grant
  <2> QED
    BY <1>2, <2>1, <2>2, <2>3, <2>4, <2>5 DEF Acquire
<1>3. ASSUME NEW o \in Op, Cancel(o) \/ SoftRelease(o) PROVE CommandUnderLease'
  BY <1>3, MoveKeepsCommand DEF Cancel, SoftRelease
<1>4. ASSUME NEW o \in Op, DropFuture(o) PROVE CommandUnderLease'
  BY <1>4, MoveKeepsCommand DEF DropFuture, AtHead
<1>5. ASSUME NEW o \in Op, StartCommand(o) \/ Abandon(o) PROVE CommandUnderLease'
  BY <1>5 DEF StartCommand, Abandon, CommandUnderLease, Inherits, TypeOK
<1>6. ASSUME NEW o \in Op, Stray(o) PROVE CommandUnderLease'
  BY <1>6 DEF Stray, StrayTakes, StrayEnds, StrayRenames, CommandUnderLease, Inherits
<1>7. ASSUME NEW o \in Op, Release(o) PROVE CommandUnderLease'
  <2>1. CASE DropLease(o) \/ Forget(o)
    BY <2>1 DEF DropLease, Forget, CommandUnderLease, Inherits, TypeOK
  <2>2. CASE Withdraw(o) \/ Unlock(o)
    BY <2>2, MoveKeepsCommand, RunningIsGranted DEF Withdraw, Unlock
  <2>3. CASE LeaveLane(o)
    BY <2>3, MoveKeepsCommand, RunningIsGranted DEF LeaveLane
  <2>4. CASE NotifyWaiters(o)
    BY <2>4, MoveKeepsCommand, RunningIsGranted DEF NotifyWaiters
  <2> QED
    BY <1>7, <2>1, <2>2, <2>3, <2>4 DEF Release
<1>8. ASSUME NEW b \in Prober, Probe(b) PROVE CommandUnderLease'
  BY <1>8
  DEF Probe, ProbeLane, ProbeTry, ProbeCannotOpen, ProbeUnlock, ProbeRead,
      CommandUnderLease, Inherits
<1>9. ASSUME NEW p \in Proc, Crash(p) PROVE CommandUnderLease'
  BY <1>9 DEF Crash, Die, CommandUnderLease, Inherits, TypeOK
<1>10. CASE UNCHANGED vars
  BY <1>10 DEF vars, CommandUnderLease, Inherits
<1> QED
  BY <1>1, <1>2, <1>3, <1>4, <1>5, <1>6, <1>7, <1>8, <1>9, <1>10, EndKeepsCommand DEF Next

LEMMA CommandsWatched == Spec => []CommandUnderLease
<1>1. Init => CommandUnderLease
  BY DEF Init, CommandUnderLease
<1>2. IInv /\ CommandUnderLease /\ [Next]_vars => CommandUnderLease'
  BY CommandStep DEF IInv
<1> QED
  BY <1>1, <1>2, Invariant, PTL DEF Spec

-----------------------------------------------------------------------------
\* A nested ahma is gone with the last of the command that started it: what it
\* queues, it queues while processes of that command run, watched or left behind.
NestedInv ==
    \A o \in Op : Inherits(Home[o]) /\ pc[o] # "idle" => cmd[Parent[Home[o]]] \in Alive

LEMMA NestedKept ==
    ASSUME NestedInv, \A q \in Op : pc'[q] = "idle" \/ pc[q] # "idle",
           \A c \in Op : cmd[c] \in Alive => cmd'[c] \in Alive
    PROVE  NestedInv'
BY ConstantsAssumption DEF NestedInv, Inherits

LEMMA EndKeepsNested ==
    ASSUME TypeOK, NestedInv, NEW o \in Op, EndCommand(o)
    PROVE  NestedInv'
<1> SUFFICES ASSUME NEW q \in Op, Inherits(Home[q]), pc'[q] # "idle"
             PROVE  cmd'[Parent[Home[q]]] \in Alive
  BY DEF NestedInv, Inherits
<1>1. PICK dead \in SUBSET Below[o], orphans \in SUBSET Op :
        /\ \A p \in Below[o] :
               p \in dead <=> \/ Parent[p] = o
                              \/ Home[Parent[p]] \in dead /\ Parent[p] \notin orphans
        /\ Die(dead)
        /\ cmd' = [x \in Op |->
                     IF x = o THEN (IF pc[o] = "idle" THEN "none" ELSE "ended")
                     ELSE IF Home[x] \in dead /\ x \notin orphans THEN "none" ELSE cmd[x]]
  BY DEF EndCommand
<1> DEFINE h == Home[q]  a == Parent[h]
<1>2. h \in Proc /\ a \in Op /\ a # None
  BY ConstantsAssumption DEF Inherits
<1>3. h \notin dead /\ pc[q] # "idle"
  BY <1>1 DEF Die
<1>4. cmd[a] \in Alive
  BY <1>3 DEF NestedInv
<1>5. a # o
  BY <1>1, <1>2, <1>3, TreeAssumption
<1>6. ~(Home[a] \in dead /\ a \notin orphans)
  BY <1>1, <1>2, <1>3, TreeAssumption
<1> QED
  BY <1>1, <1>2, <1>4, <1>5, <1>6

LEMMA NestedStep == TypeOK /\ NestedInv /\ [Next]_vars => NestedInv'
<1> SUFFICES ASSUME TypeOK, NestedInv, [Next]_vars PROVE NestedInv'
  OBVIOUS
<1> USE DEF Goto
<1>1. ASSUME NEW o \in Op, Enqueue(o) PROVE NestedInv'
  BY <1>1 DEF Enqueue, Exists, NestedInv, Inherits, TypeOK
<1>2. ASSUME NEW o \in Op, Acquire(o) PROVE NestedInv'
  <2>1. cmd' = cmd /\ pc[o] # "idle" /\ \A q \in Op : q # o => pc'[q] = pc[q]
    BY <1>2
    DEF Acquire, Register, CheckHead, Await, Wake, Reobserve, TakeLock, FindBusy, Degrade,
        Retry, WriteTemp, RenameLands, Grant, TypeOK
  <2> QED
    BY <2>1, NestedKept
<1>3. ASSUME NEW o \in Op, Cancel(o) \/ SoftRelease(o) \/ DropFuture(o) PROVE NestedInv'
  <2>1. cmd' = cmd /\ pc[o] # "idle" /\ \A q \in Op : q # o => pc'[q] = pc[q]
    BY <1>3 DEF Cancel, SoftRelease, DropFuture, AtHead, TypeOK
  <2> QED
    BY <2>1, NestedKept
<1>4. ASSUME NEW o \in Op, StartCommand(o) \/ Abandon(o) \/ Stray(o) PROVE NestedInv'
  <2>1. pc' = pc /\ \A c \in Op : cmd[c] \in Alive => cmd'[c] \in Alive
    BY <1>4
    DEF StartCommand, Abandon, Alive, Stray, StrayTakes, StrayEnds, StrayRenames, TypeOK
  <2> QED
    BY <2>1, NestedKept
<1>5. ASSUME NEW o \in Op, Release(o) PROVE NestedInv'
  <2>1. /\ pc[o] # "idle" /\ \A q \in Op : q # o => pc'[q] = pc[q]
        /\ \A c \in Op : cmd[c] \in Alive => cmd'[c] \in Alive
    BY <1>5
    DEF Release, DropLease, Withdraw, LeaveLane, NotifyWaiters, Unlock, Forget, Alive, TypeOK
  <2> QED
    BY <2>1, NestedKept
<1>6. ASSUME NEW b \in Prober, Probe(b) PROVE NestedInv'
  <2>1. pc' = pc /\ cmd' = cmd
    BY <1>6 DEF Probe, ProbeLane, ProbeTry, ProbeCannotOpen, ProbeUnlock, ProbeRead
  <2> QED
    BY <2>1, NestedKept
<1>7. ASSUME NEW p \in Proc, Crash(p) PROVE NestedInv'
  <2>1. /\ \A q \in Op : pc'[q] = "idle" \/ pc'[q] = pc[q]
        /\ \A c \in Op : cmd[c] \in Alive => cmd'[c] \in Alive
    BY <1>7 DEF Crash, Die, Alive, TypeOK
  <2> QED
    BY <2>1, NestedKept
<1>8. CASE UNCHANGED vars
  BY <1>8, NestedKept DEF vars
<1> QED
  BY <1>1, <1>2, <1>3, <1>4, <1>5, <1>6, <1>7, <1>8, EndKeepsNested DEF Next

\* HELD_LEASE_ENV, at any depth and for any number of processes: an ahma that
\* skips the lock on an ancestor's word does so while that ancestor holds it, or
\* in one of the three cases the word does not cover: the ancestor's command was
\* left behind, its soft hold was handed on, or its ahma was killed.
THEOREM InheritedIsHeld == Spec => []InheritedUnlessHandedOn
<1>1. Init => NestedInv
  BY DEF Init, NestedInv
<1>2. IInv /\ NestedInv /\ [Next]_vars => NestedInv'
  BY NestedStep DEF IInv
<1>3. CommandUnderLease /\ NestedInv => InheritedUnlessHandedOn
  BY ConstantsAssumption
  DEF CommandUnderLease, NestedInv, InheritedUnlessHandedOn, Inherits, Holding, Alive
<1> QED
  BY <1>1, <1>2, <1>3, Invariant, CommandsWatched, PTL DEF Spec

-----------------------------------------------------------------------------
\* The record.  From the lock to the grant the operation owns the lock, and
\* only a process that may write the directory gets as far as the rename; what
\* is in the blocking pool without a future belongs to a dropped caller.
PublishInv ==
    /\ \A o \in Op : pc[o] \in {"publishing", "renaming", "renamed"} =>
           flock = Opened("op", o)
    /\ \A o \in Op : pc[o] \in {"renaming", "renamed"} => Home[o] \notin Confined
    /\ strayRename \subseteq Dropped

\* A live record names an operation that publishes it, and the other way round.
Shown == {"renamed", "granted", "dropping"}

Names(o) == record = [op |-> o, live |-> TRUE]

Stale == record # None /\ record.op \in Dropped

RecordInv ==
    /\ \A o \in Op : Names(o) /\ o \notin Dropped => pc[o] \in Shown /\ Published(o)
    /\ \A o \in Op : pc[o] \in Shown /\ Published(o) => Names(o) \/ Stale

LEMMA RecordFields ==
    /\ \A o \in Op, l \in BOOLEAN :
          LET r == [op |-> o, live |-> l] IN r.op = o /\ r.live = l /\ r # None
    /\ \A o, q \in Op, l \in BOOLEAN :
          [op |-> o, live |-> l] = [op |-> q, live |-> TRUE] => o = q
<1>1. \A o \in Op, l \in BOOLEAN :
        LET r == [op |-> o, live |-> l]
        IN  r.op = o /\ r.live = l /\ r \in [op : Op, live : BOOLEAN]
  OBVIOUS
<1> QED
  BY <1>1, NoneAssumption

\* A step of one operation that leaves lock and record alone, or closes its own.
LEMMA MoveKeepsPublish ==
    ASSUME TypeOK, PublishInv, NEW o \in Op, NEW at,
           pc' = [pc EXCEPT ![o] = at], strayRename' = strayRename,
           at \in {"publishing", "renaming", "renamed"} =>
               pc[o] \in {"publishing", "renaming", "renamed"} /\ flock' = flock,
           at \in {"renaming", "renamed"} => Home[o] \notin Confined,
           flock' = flock \/ flock' = Closed(Opened("op", o))
    PROVE  PublishInv'
<1>1. \A q \in Op : pc'[q] = IF q = o THEN at ELSE pc[q]
  BY DEF TypeOK
<1>2. \A q \in Op : q # o /\ flock = Opened("op", q) => flock' = flock
  BY OpenedFields DEF Closed
<1> QED
  BY <1>1, <1>2 DEF PublishInv

LEMMA DieKeepsPublish ==
    ASSUME TypeOK, PublishInv, NEW P \in SUBSET Proc, Die(P)
    PROVE  PublishInv'
<1> SUFFICES ASSUME NEW q \in Op, pc'[q] \in {"publishing", "renaming", "renamed"}
             PROVE  /\ flock' = Opened("op", q)
                    /\ pc'[q] \in {"renaming", "renamed"} => Home[q] \notin Confined
  BY DEF Die, PublishInv
<1>1. Home[q] \notin P /\ pc'[q] = pc[q]
  BY DEF Die
<1>2. flock = Opened("op", q)
  BY <1>1 DEF PublishInv
<1> QED
  BY <1>1, <1>2, OpenedFields DEF Die, PublishInv

LEMMA PublishStep == TypeOK /\ PublishInv /\ [Next]_vars => PublishInv'
<1> SUFFICES ASSUME TypeOK, PublishInv, [Next]_vars PROVE PublishInv'
  OBVIOUS
<1> USE DEF Goto
<1>1. ASSUME NEW o \in Op, Enqueue(o) PROVE PublishInv'
  BY <1>1, MoveKeepsPublish DEF Enqueue
<1>2. ASSUME NEW o \in Op, Acquire(o) PROVE PublishInv'
  <2>1. CASE Register(o) \/ Await(o) \/ Wake(o) \/ Reobserve(o)
    BY <2>1, MoveKeepsPublish DEF Register, Await, Wake, Reobserve
  <2>2. CASE CheckHead(o)
    BY <2>2, MoveKeepsPublish DEF CheckHead
  <2>3. CASE TakeLock(o)
    <3>1. \A q \in Op : flock # Opened("op", q)
      BY <2>3, OpenedFields DEF TakeLock
    <3>2. /\ flock' = Opened("op", o) /\ strayRename' = strayRename
          /\ \A q \in Op : pc'[q] = IF q = o THEN "publishing" ELSE pc[q]
      BY <2>3 DEF TakeLock, TypeOK
    <3> QED
      BY <3>1, <3>2 DEF PublishInv
  <2>4. CASE FindBusy(o) \/ Degrade(o) \/ Retry(o)
    BY <2>4, MoveKeepsPublish DEF FindBusy, Degrade, Retry
  <2>5. CASE WriteTemp(o)
    BY <2>5, MoveKeepsPublish DEF WriteTemp
  <2>6. CASE RenameLands(o)
    <3>1. Home[o] \notin Confined
      BY <2>6 DEF RenameLands, PublishInv
    <3> QED
      BY <2>6, <3>1, MoveKeepsPublish DEF RenameLands
  <2>7. CASE Grant(o)
    BY <2>7, MoveKeepsPublish DEF Grant
  <2> QED
    BY <1>2, <2>1, <2>2, <2>3, <2>4, <2>5, <2>6, <2>7 DEF Acquire
<1>3. ASSUME NEW o \in Op, Cancel(o) \/ SoftRelease(o) PROVE PublishInv'
  BY <1>3, MoveKeepsPublish DEF Cancel, SoftRelease
<1>4. ASSUME NEW o \in Op, DropFuture(o) PROVE PublishInv'
  <2>1. /\ \A q \in Op : pc'[q] = IF q = o THEN "leaving" ELSE pc[q]
        /\ strayRename' \subseteq strayRename \cup {o} /\ o \in Dropped
        /\ flock' = Closed(Opened("op", o))
    BY <1>4 DEF DropFuture, TypeOK
  <2>2. \A q \in Op : q # o /\ flock = Opened("op", q) => flock' = flock
    BY <2>1, OpenedFields DEF Closed
  <2> QED
    BY <2>1, <2>2 DEF PublishInv
<1>5. ASSUME NEW o \in Op, Stray(o) PROVE PublishInv'
  <2>1. pc' = pc /\ strayRename' \subseteq strayRename
    BY <1>5 DEF Stray, StrayTakes, StrayEnds, StrayRenames
  <2>2. \A q \in Op : flock = Opened("op", q) => flock' = flock
    BY <1>5, OpenedFields DEF Stray, StrayTakes, StrayEnds, StrayRenames, Closed
  <2> QED
    BY <2>1, <2>2 DEF PublishInv
<1>6. ASSUME NEW o \in Op, StartCommand(o) \/ Abandon(o) PROVE PublishInv'
  BY <1>6 DEF StartCommand, Abandon, PublishInv
<1>7. ASSUME NEW o \in Op, Release(o) PROVE PublishInv'
  <2>1. CASE DropLease(o) \/ Withdraw(o) \/ Forget(o)
    BY <2>1, MoveKeepsPublish DEF DropLease, Withdraw, Forget
  <2>2. CASE LeaveLane(o)
    BY <2>2, MoveKeepsPublish DEF LeaveLane
  <2>3. CASE NotifyWaiters(o)
    BY <2>3, MoveKeepsPublish DEF NotifyWaiters
  <2>4. CASE Unlock(o)
    BY <2>4, MoveKeepsPublish DEF Unlock
  <2> QED
    BY <1>7, <2>1, <2>2, <2>3, <2>4 DEF Release
<1>8. ASSUME NEW b \in Prober, Probe(b) PROVE PublishInv'
  <2>1. pc' = pc /\ strayRename' = strayRename
    BY <1>8 DEF Probe, ProbeLane, ProbeTry, ProbeCannotOpen, ProbeUnlock, ProbeRead
  <2>2. \A q \in Op : flock = Opened("op", q) => flock' = flock
    BY <1>8, OpenedFields
    DEF Probe, ProbeLane, ProbeTry, ProbeCannotOpen, ProbeUnlock, ProbeRead, Closed
  <2> QED
    BY <2>1, <2>2 DEF PublishInv
<1>9. ASSUME NEW o \in Op, EndCommand(o) PROVE PublishInv'
  BY <1>9, EndCommandKills, DieKeepsPublish
<1>10. ASSUME NEW p \in Proc, Crash(p) PROVE PublishInv'
  BY <1>10, DieKeepsPublish DEF Crash
<1>11. CASE UNCHANGED vars
  BY <1>11 DEF vars, PublishInv
<1> QED
  BY <1>1, <1>2, <1>3, <1>4, <1>5, <1>6, <1>7, <1>8, <1>9, <1>10, <1>11 DEF Next

\* A step that leaves the record alone, takes the lock from nobody whose record
\* is shown but a dropped caller, and begins to show none.
LEMMA RecordKept ==
    ASSUME RecordInv, record' = record,
           \A q \in Op : q \notin Dropped /\ pc[q] \in Shown /\ Published(q) =>
               pc'[q] \in Shown /\ flock' = flock,
           \A q \in Op : pc'[q] \in Shown /\ flock' = Opened("op", q) /\ Home[q] \notin Confined =>
               pc[q] \in Shown /\ flock = Opened("op", q)
    PROVE  RecordInv'
BY DEF RecordInv, Names, Stale, Published

\* The same for a step of one operation that does not touch the lock.
LEMMA MoveKeepsRecord ==
    ASSUME TypeOK, StaleInv, RecordInv, NEW o \in Op, NEW at,
           pc' = [pc EXCEPT ![o] = at], flock' = flock, record' = record,
           pc[o] \in Shown => at \in Shown,
           at \in Shown => pc[o] \in Shown \/ pc[o] \notin OpenStates \/ Home[o] \in Confined
    PROVE  RecordInv'
<1>1. \A q \in Op : pc'[q] = IF q = o THEN at ELSE pc[q]
  BY DEF TypeOK
<1>2. \A q \in Op : flock = Opened("op", q) => pc[q] \in OpenStates
  BY DEF StaleInv
<1> QED
  BY <1>1, <1>2, RecordKept

\* Somebody takes the free lock: nobody's record was shown.
LEMMA TakingKeepsRecord ==
    ASSUME RecordInv, flock = None, record' = record,
           \A q \in Op : flock' = Opened("op", q) => pc'[q] \notin Shown
    PROVE  RecordInv'
BY RecordKept, OpenedFields DEF Published

LEMMA DieKeepsRecord ==
    ASSUME TypeOK, RecordInv, NEW P \in SUBSET Proc, Die(P)
    PROVE  RecordInv'
<1>1. ASSUME NEW q \in Op, Home[q] \notin P
      PROVE  /\ pc'[q] = pc[q]
             /\ flock = Opened("op", q) <=> flock' = Opened("op", q)
  BY <1>1, OpenedFields DEF Die
<1>2. CASE record # None /\ Home[record.op] \in P
  <2>1. PICK x \in Op, l \in BOOLEAN : record = [op |-> x, live |-> l]
    BY <1>2 DEF TypeOK, Records
  <2>2. record' = [op |-> x, live |-> FALSE]
    <3>1. record' = [record EXCEPT !.live = FALSE]
      BY <1>2 DEF Die
    <3> QED
      BY <2>1, <3>1
  <2>3. record.op = x /\ record'.op = x /\ record' # None /\ record'.live = FALSE
    BY <2>1, <2>2, RecordFields
  <2>4. \A q \in Op : ~Names(q)'
    BY <2>3 DEF Names
  <2>5. \A q \in Op : pc'[q] \in Shown => Home[q] \notin P
    BY DEF Die, Shown
  <2>6. \A q \in Op : Home[q] \notin P => ~Names(q)
    BY <1>2 DEF Names
  <2>7. Stale => Stale'
    BY <2>3 DEF Stale
  <2> QED
    BY <1>1, <2>4, <2>5, <2>6, <2>7 DEF RecordInv, Published
<1>3. CASE ~(record # None /\ Home[record.op] \in P)
  <2>1. record' = record
    BY <1>3 DEF Die
  <2>2. \A q \in Op : Names(q) => Home[q] \notin P
    BY <1>3, RecordFields DEF Names
  <2>3. \A q \in Op : pc'[q] \in Shown => Home[q] \notin P
    BY DEF Die, Shown
  <2> QED
    BY <1>1, <2>1, <2>2, <2>3 DEF RecordInv, Names, Stale, Published
<1> QED
  BY <1>2, <1>3

LEMMA RecordStep ==
    TypeOK /\ StaleInv /\ PublishInv /\ RecordInv /\ [Next]_vars => RecordInv'
<1> SUFFICES ASSUME TypeOK, StaleInv, PublishInv, RecordInv, [Next]_vars PROVE RecordInv'
  OBVIOUS
<1> USE DEF Goto
<1>1. ASSUME NEW o \in Op, Enqueue(o) PROVE RecordInv'
  BY <1>1, MoveKeepsRecord DEF Enqueue, Shown
<1>2. ASSUME NEW o \in Op, Acquire(o) PROVE RecordInv'
  <2>1. CASE Register(o) \/ Await(o) \/ Wake(o) \/ Reobserve(o)
    BY <2>1, MoveKeepsRecord DEF Register, Await, Wake, Reobserve, Shown
  <2>2. CASE CheckHead(o)
    BY <2>2, MoveKeepsRecord DEF CheckHead, Shown, OpenStates
  <2>3. CASE TakeLock(o)
    <3>1. \A q \in Op : flock' = Opened("op", q) => q = o
      BY <2>3, OpenedFields DEF TakeLock
    <3>2. pc'[o] = "publishing" /\ flock = None /\ record' = record
      BY <2>3 DEF TakeLock, TypeOK
    <3> QED
      BY <3>1, <3>2, TakingKeepsRecord DEF Shown
  <2>4. CASE FindBusy(o) \/ Degrade(o) \/ Retry(o)
    BY <2>4, MoveKeepsRecord DEF FindBusy, Degrade, Retry, Shown, OpenStates
  <2>5. CASE WriteTemp(o)
    BY <2>5, MoveKeepsRecord DEF WriteTemp, Shown
  <2>6. CASE RenameLands(o)
    <3>1. /\ record' = [op |-> o, live |-> TRUE] /\ flock' = flock
          /\ \A q \in Op : pc'[q] = IF q = o THEN "renamed" ELSE pc[q]
      BY <2>6 DEF RenameLands, TypeOK
    <3>2. flock = Opened("op", o) /\ Home[o] \notin Confined
      BY <2>6 DEF RenameLands, PublishInv
    <3>3. \A q \in Op : (Published(q)' <=> Published(q)) /\ (Published(q) => q = o)
      BY <3>1, <3>2, OpenedFields DEF Published
    <3>4. Published(o)' /\ Names(o)' /\ \A q \in Op : Names(q)' => q = o
      BY <3>1, <3>2, RecordFields DEF Names, Published
    <3> QED
      BY <3>1, <3>3, <3>4 DEF RecordInv, Shown
  <2>7. CASE Grant(o)
    BY <2>7, MoveKeepsRecord DEF Grant, Shown
  <2> QED
    BY <1>2, <2>1, <2>2, <2>3, <2>4, <2>5, <2>6, <2>7 DEF Acquire
<1>3. ASSUME NEW o \in Op, Cancel(o) \/ SoftRelease(o) PROVE RecordInv'
  BY <1>3, MoveKeepsRecord DEF Cancel, SoftRelease, Shown
<1>4. ASSUME NEW o \in Op, DropFuture(o) PROVE RecordInv'
  <2>1. /\ \A q \in Op : pc'[q] = IF q = o THEN "leaving" ELSE pc[q]
        /\ record' = record /\ o \in Dropped /\ flock' = Closed(Opened("op", o))
    BY <1>4 DEF DropFuture, TypeOK
  <2>2. \A q \in Op : /\ q # o /\ flock = Opened("op", q) => flock' = flock
                      /\ flock' = Opened("op", q) => flock = Opened("op", q)
    BY <2>1, OpenedFields DEF Closed
  <2> QED
    BY <2>1, <2>2, RecordKept DEF Published, Shown
<1>5. ASSUME NEW o \in Op, Stray(o) PROVE RecordInv'
  <2>1. CASE StrayTakes(o)
    BY <2>1, TakingKeepsRecord, OpenedFields DEF StrayTakes
  <2>2. CASE StrayEnds(o)
    <3>1. \A q \in Op : flock = Opened("op", q) <=> flock' = Opened("op", q)
      BY <2>2, OpenedFields DEF StrayEnds, Closed
    <3>2. pc' = pc /\ record' = record
      BY <2>2 DEF StrayEnds
    <3> QED
      BY <3>1, <3>2, RecordKept DEF Published
  <2>3. CASE StrayRenames(o)
    <3>1. /\ record' = [op |-> o, live |-> TRUE] /\ pc' = pc /\ flock' = flock
          /\ o \in Dropped
      BY <2>3 DEF StrayRenames, PublishInv
    <3>2. Stale' /\ \A q \in Op : Names(q)' => q = o
      BY <3>1, RecordFields DEF Stale, Names
    <3> QED
      BY <3>1, <3>2 DEF RecordInv
  <2> QED
    BY <1>5, <2>1, <2>2, <2>3 DEF Stray
<1>6. ASSUME NEW o \in Op, StartCommand(o) \/ Abandon(o) PROVE RecordInv'
  BY <1>6, RecordKept DEF StartCommand, Abandon, Published
<1>7. ASSUME NEW o \in Op, Release(o) PROVE RecordInv'
  <2>1. CASE DropLease(o) \/ Forget(o)
    BY <2>1, MoveKeepsRecord DEF DropLease, Forget, Shown
  <2>2. CASE LeaveLane(o)
    BY <2>2, MoveKeepsRecord DEF LeaveLane, Shown
  <2>3. CASE NotifyWaiters(o)
    BY <2>3, MoveKeepsRecord DEF NotifyWaiters, Shown
  <2>4. CASE Withdraw(o)
    <3>1. /\ \A q \in Op : pc'[q] = IF q = o THEN "withdrawn" ELSE pc[q]
          /\ record' = (IF Published(o) THEN None ELSE record) /\ flock' = flock
      BY <2>4 DEF Withdraw, TypeOK
    <3>2. \A q \in Op : Published(q)' <=> Published(q)
      BY <3>1 DEF Published
    <3>3. CASE Published(o)
      <4>1. \A q \in Op : Published(q) => q = o
        BY <3>3, OpenedFields DEF Published
      <4>2. \A q \in Op : ~Names(q)'
        BY <3>1, <3>3, RecordFields DEF Names
      <4> QED
        BY <3>1, <3>2, <4>1, <4>2 DEF RecordInv, Shown
    <3>4. CASE ~Published(o)
      BY <3>1, <3>2, <3>4 DEF RecordInv, Names, Stale, Shown
    <3> QED
      BY <3>3, <3>4
  <2>5. CASE Unlock(o)
    <3>1. /\ \A q \in Op : pc'[q] = IF q = o THEN "released" ELSE pc[q]
          /\ pc[o] = "unlocking" /\ record' = record /\ flock' = Closed(Opened("op", o))
      BY <2>5 DEF Unlock, TypeOK
    <3>2. \A q \in Op : /\ q # o /\ flock = Opened("op", q) => flock' = flock
                        /\ flock' = Opened("op", q) => flock = Opened("op", q)
      BY <3>1, OpenedFields DEF Closed
    <3> QED
      BY <3>1, <3>2, RecordKept DEF Published, Shown
  <2> QED
    BY <1>7, <2>1, <2>2, <2>3, <2>4, <2>5 DEF Release
<1>8. ASSUME NEW b \in Prober, Probe(b) PROVE RecordInv'
  <2>1. pc' = pc /\ record' = record
    BY <1>8 DEF Probe, ProbeLane, ProbeTry, ProbeCannotOpen, ProbeUnlock, ProbeRead
  <2>2. \A q \in Op : flock = Opened("op", q) <=> flock' = Opened("op", q)
    BY <1>8, OpenedFields
    DEF Probe, ProbeLane, ProbeTry, ProbeCannotOpen, ProbeUnlock, ProbeRead, Closed
  <2> QED
    BY <2>1, <2>2, RecordKept DEF Published
<1>9. ASSUME NEW o \in Op, EndCommand(o) PROVE RecordInv'
  BY <1>9, EndCommandKills, DieKeepsRecord
<1>10. ASSUME NEW p \in Proc, Crash(p) PROVE RecordInv'
  BY <1>10, DieKeepsRecord DEF Crash
<1>11. CASE UNCHANGED vars
  BY <1>11, RecordKept DEF vars, Published
<1> QED
  BY <1>1, <1>2, <1>3, <1>4, <1>5, <1>6, <1>7, <1>8, <1>9, <1>10, <1>11 DEF Next

\* What the record shows is right as long as everything holds together: who has
\* the lock, who may publish and what is written.
THEOREM RecordInvariant == Spec => [](StaleInv /\ PublishInv /\ RecordInv)
<1>1. Init => StaleInv /\ PublishInv /\ RecordInv
  BY OpenedFields, RecordFields
  DEF Init, StaleInv, PublishInv, RecordInv, Names, Published, Shown
<1>2. IInv /\ StaleInv /\ PublishInv /\ RecordInv /\ [Next]_vars
        => (StaleInv /\ PublishInv /\ RecordInv)'
  BY StaleStep, PublishStep, RecordStep DEF IInv
<1> QED
  BY <1>1, <1>2, Invariant, PTL DEF Spec

\* SPEC R2.7.9: the record names the holder of the kernel lock and its process,
\* or a dropped caller whose rename came late, whatever died before.
THEOREM RecordIsTheHolders == Spec => []RecordNamesHolder
<1>1. RecordInv => RecordNamesHolder
  BY DEF RecordInv, RecordNamesHolder, Names, Stale, Shown
<1> QED
  BY <1>1, RecordInvariant, PTL

\* queue_report: a live record is that of an operation that has the workspace,
\* or of a dropped caller.
THEOREM LiveRecordIsTrue == Spec => []LiveRecordHolds
<1>1. TypeOK /\ RecordInv => LiveRecordHolds
  <2> SUFFICES ASSUME TypeOK, RecordInv, record # None, record.live, record.op \notin Dropped
               PROVE  pc[record.op] \in {"renamed"} \cup Holding
    BY DEF LiveRecordHolds
  <2>1. PICK x \in Op, l \in BOOLEAN : record = [op |-> x, live |-> l]
    BY DEF TypeOK, Records
  <2>2. record.op = x /\ record.live = l
    BY <2>1, RecordFields
  <2>3. Names(x)
    BY <2>1, <2>2 DEF Names
  <2> QED
    BY <2>2, <2>3 DEF RecordInv, Shown, Holding
<1> QED
  BY <1>1, TypeCorrect, RecordInvariant, PTL

-----------------------------------------------------------------------------
(***************************************************************************)
(* The queue implements WorkspaceLease: every step is one of its steps, or *)
(* a stutter, with the lanes as its lines and Holders as its holders.      *)
(***************************************************************************)
Holders == {o \in Op : pc[o] \in Holding}
Overlaps == {ab \in Op \X Op : ~(Ordered(ab[1]) /\ Ordered(ab[2]))}

\* Steps that neither touch a lane nor make or unmake a holder.
LEMMA HoldersKept ==
    ASSUME \A q \in Op : pc[q] \in Holding <=> pc'[q] \in Holding
    PROVE  Holders' = Holders
BY DEF Holders

LEMMA MoveKeepsHolders ==
    ASSUME TypeOK, NEW o \in Op, NEW at, pc' = [pc EXCEPT ![o] = at],
           pc[o] \in Holding <=> at \in Holding
    PROVE  Holders' = Holders
<1>1. \A q \in Op : pc'[q] = IF q = o THEN at ELSE pc[q]
  BY DEF TypeOK
<1> QED
  BY <1>1, HoldersKept

\* The first of its lane takes the lease, beside holders it need not respect.
LEMMA GrantTakes ==
    ASSUME TypeOK, NEW o \in Op, First(o), pc[o] \notin Holding,
           pc' = [pc EXCEPT ![o] = "granted"], lane' = lane,
           \A h \in Op : pc[h] \in Holding => ~(Ordered(o) /\ Ordered(h))
    PROVE  Lease!Take(o)
<1>1. lane[Home[o]] # <<>> /\ Head(lane[Home[o]]) = o
  BY HeadIsFirst DEF IsHead
<1>2. /\ o \notin Holders /\ Holders' = Holders \cup {o}
      /\ \A h \in Holders : <<o, h>> \in Overlaps
  <2>1. \A q \in Op : pc'[q] = IF q = o THEN "granted" ELSE pc[q]
    BY DEF TypeOK
  <2> QED
    BY <2>1 DEF Holders, Overlaps, Holding
<1> QED
  BY <1>1, <1>2 DEF Lease!Take, Holders, Overlaps

\* Two that share the kernel lock cannot both own it.
LEMMA OwnerIsAlone ==
    ASSUME LockOwned, NEW o \in Op, pc[o] \in {"publishing", "renamed"},
           NEW h \in Op, pc[h] \in Holding
    PROVE  ~(Ordered(o) /\ Ordered(h))
<1>1. o # h
  BY DEF Holding
<1> QED
  BY <1>1, OwnersDiffer DEF LockOwned, Owning

LEMMA EnqueueArrives ==
    ASSUME TypeOK, LaneInv, NEW o \in Op, Enqueue(o)
    PROVE  Lease!Arrive(o)
<1>1. ~Lease!InSomeLine(o)
  BY PCsAreStates, ConstantsAssumption DEF Lease!InSomeLine, Enqueue, LaneInv, LaneMembers
<1>2. Holders' = Holders
  BY MoveKeepsHolders DEF Enqueue, Goto, Holding
<1> QED
  BY <1>1, <1>2 DEF Lease!Arrive, Enqueue, Holders

LEMMA LeaveLaneLeaves ==
    ASSUME TypeOK, LaneInv, NEW o \in Op, LeaveLane(o)
    PROVE  Lease!Leave(o)
<1>1. pc[o] \in InLine
  BY PCsAreStates DEF LeaveLane
<1>2. Place(o) \in DOMAIN lane[Home[o]] /\ lane[Home[o]][Place(o)] = o
  BY <1>1, PlaceInLane, LenProperties
<1>3. lane' = [lane EXCEPT ![Home[o]] = Lease!RemoveAt(@, Place(o))]
  BY DEF LeaveLane, Without, RemoveAt, Lease!RemoveAt
<1>4. Holders' = Holders \ {o}
  BY DEF LeaveLane, Goto, TypeOK, Holders, Holding
<1> QED
  BY <1>2, <1>3, <1>4 DEF Lease!Leave, Holders

LEMMA DieVanishes ==
    ASSUME TypeOK, NEW P \in SUBSET Proc, Die(P)
    PROVE  Lease!Vanish(P)
<1>1. Holders' = {o \in Holders : Home[o] \notin P}
  BY DEF Die, Holders, Holding
<1> QED
  BY <1>1 DEF Lease!Vanish, Die, Holders

\* Every step of the queue is a step of the lease, or none.
LEMMA StepImplements ==
    IInv /\ FirstInv /\ [Next]_vars => [Lease!LeaseNext]_<<lane, Holders>>
<1> SUFFICES ASSUME IInv, FirstInv, [Next]_vars,
                    ~(lane' = lane /\ Holders' = Holders)
             PROVE  Lease!LeaseNext
  OBVIOUS
<1>0. TypeOK /\ LaneInv /\ LockOwned
  BY DEF IInv
<1> USE DEF Goto, Holding
<1>1. ASSUME NEW o \in Op, Acquire(o) PROVE Lease!Take(o)
  <2>1. CASE Register(o) \/ Await(o) \/ Wake(o) \/ Reobserve(o)
    BY <1>0, <2>1, MoveKeepsHolders DEF Register, Await, Wake, Reobserve
  <2>2. CASE CheckHead(o)
    <3>1. CASE IsHead(o) /\ Inherits(Home[o])
      BY <1>0, <2>2, <3>1, GrantTakes, HeadIsFirst DEF CheckHead, Ordered
    <3>2. CASE ~(IsHead(o) /\ Inherits(Home[o]))
      BY <1>0, <2>2, <3>2, MoveKeepsHolders DEF CheckHead
    <3> QED
      BY <3>1, <3>2
  <2>3. CASE TakeLock(o) \/ FindBusy(o) \/ Retry(o) \/ RenameLands(o)
    BY <1>0, <2>3, MoveKeepsHolders DEF TakeLock, FindBusy, Retry, RenameLands
  <2>4. CASE Degrade(o) \/ WriteTemp(o) \/ Grant(o)
    <3>1. First(o)
      BY <2>4, ProceedingStates DEF Degrade, WriteTemp, Grant, FirstInv
    <3>2. CASE Degrade(o)
      BY <1>0, <3>1, <3>2, GrantTakes DEF Degrade, Ordered
    <3>3. CASE WriteTemp(o) /\ Home[o] \in Confined
      BY <1>0, <3>1, <3>3, GrantTakes, OwnerIsAlone DEF WriteTemp
    <3>4. CASE WriteTemp(o) /\ Home[o] \notin Confined
      BY <1>0, <3>4, MoveKeepsHolders DEF WriteTemp
    <3>5. CASE Grant(o)
      BY <1>0, <3>1, <3>5, GrantTakes, OwnerIsAlone DEF Grant
    <3> QED
      BY <2>4, <3>2, <3>3, <3>4, <3>5
  <2> QED
    BY <1>1, <2>1, <2>2, <2>3, <2>4 DEF Acquire
<1>2. ASSUME NEW o \in Op, Release(o) PROVE Lease!Leave(o)
  <2>1. CASE DropLease(o) \/ Withdraw(o)
    BY <1>0, <2>1, MoveKeepsHolders DEF DropLease, Withdraw
  <2>2. CASE NotifyWaiters(o)
    BY <1>0, <2>2, MoveKeepsHolders DEF NotifyWaiters
  <2>3. CASE Unlock(o) \/ Forget(o)
    BY <1>0, <2>3, MoveKeepsHolders DEF Unlock, Forget
  <2> QED
    BY <1>0, <1>2, <2>1, <2>2, <2>3, LeaveLaneLeaves DEF Release
<1>3. ASSUME NEW o \in Op, Cancel(o) \/ SoftRelease(o) \/ DropFuture(o) PROVE FALSE
  <2>1. CASE Cancel(o) \/ SoftRelease(o)
    BY <1>0, <2>1, MoveKeepsHolders DEF Cancel, SoftRelease
  <2>2. CASE DropFuture(o)
    BY <1>0, <2>2, MoveKeepsHolders DEF DropFuture, AtHead
  <2> QED
    BY <1>3, <2>1, <2>2
<1>4. ASSUME NEW o \in Op, Stray(o) \/ StartCommand(o) \/ Abandon(o) PROVE FALSE
  BY <1>4, HoldersKept DEF Stray, StrayTakes, StrayEnds, StrayRenames, StartCommand, Abandon
<1>5. ASSUME NEW b \in Prober, Probe(b) PROVE FALSE
  BY <1>5, HoldersKept
  DEF Probe, ProbeLane, ProbeTry, ProbeCannotOpen, ProbeUnlock, ProbeRead
<1>6. ASSUME NEW o \in Op, EndCommand(o) PROVE \E P \in SUBSET Proc : Lease!Vanish(P)
  BY <1>0, <1>6, EndCommandKills, DieVanishes
<1>7. ASSUME NEW p \in Proc, Crash(p) PROVE \E P \in SUBSET Proc : Lease!Vanish(P)
  BY <1>0, <1>7, DieVanishes DEF Crash
<1>8. CASE UNCHANGED vars
  BY <1>8, HoldersKept DEF vars
<1> QED
  BY <1>0, <1>1, <1>2, <1>3, <1>4, <1>5, <1>6, <1>7, <1>8, EnqueueArrives
  DEF Next, Lease!LeaseNext

\* SPEC R2.7.1 and R2.7.7: places in order of arrival, the lease to the head of a
\* line, and one holder at a time among those that share the kernel lock, for
\* any number of operations and processes and whatever becomes of them.
THEOREM QueueImplementsLease == Spec => ImplementsLease
<1>1. Init => Lease!LeaseInit
  BY DEF Init, Lease!LeaseInit, Holding
<1>2. Init => FirstInv
  BY ProceedingStates DEF Init, FirstInv
<1>3. IInv /\ FirstInv /\ [Next]_vars => FirstInv'
  BY FirstStep DEF IInv
<1>4. IInv /\ FirstInv /\ [Next]_vars => [Lease!LeaseNext]_(Lease!leaseVars)
  BY StepImplements DEF Lease!leaseVars, Holders
<1> QED
  BY <1>1, <1>2, <1>3, <1>4, Invariant, PTL DEF Spec, ImplementsLease, Lease!LeaseSpec

-----------------------------------------------------------------------------
(***************************************************************************)
(* No deadlock: the lanes, the kernel lock, the commands, and the ahmas    *)
(* below the commands, which queue as well.                                *)
(***************************************************************************)
\* o waits for x: for the head of its line, for the owner of the kernel lock, or
\* for the command it has the lease for, which may in turn wait for an operation
\* of a nested ahma.
WaitsFor(o, x) ==
    \/ pc[o] = "parked" /\ Home[x] = Home[o] /\ x # o /\ IsHead(x)
    \/ pc[o] \in {"trying", "backoff"} /\ flock = Opened("op", x)
    \/ pc[o] = "granted" /\ cmd[o] = "running" /\ Home[x] \in Below[o] /\ pc[x] \in InLine

AwaitsCommand(o) ==
    \/ pc[o] = "granted" /\ cmd[o] = "running"
    \/ pc[o] = "released" /\ cmd[o] \in Alive

\* The guards of the operation's own steps, and of those that free its way: a
\* notification that is owed, and the end of an orphaned attempt or of a probe.
\* The second look every 5 s is not counted.
CanGo(o) ==
    /\ pc[o] # "idle"
    /\ pc[o] = "parked" => o \in woken \/ \E r \in Op : Home[r] = Home[o] /\ pc[r] \in Notifying
    /\ pc[o] \in {"trying", "backoff"} =>
          \/ flock = None
          \/ \E x \in strayTry : flock = Opened("stray", x)
          \/ \E b \in Prober : flock = Opened("probe", b) /\ look[b].at = "locked"
    /\ ~AwaitsCommand(o)

\* Who cannot go waits for the end of its command or for somebody it can name,
\* and of those who wait for one another one can do without.
NobodyIsStuck ==
    /\ \A o \in Op : pc[o] # "idle" =>
          CanGo(o) \/ AwaitsCommand(o) \/ \E x \in Op : WaitsFor(o, x)
    /\ \A S \in SUBSET Op : IsFiniteSet(S) /\ S # {} =>
          \E o \in S : \A x \in S : ~WaitsFor(o, x)

\* "Skips the cross-process lock": a nested ahma never polls it.  If it did, it
\* would wait for the command that waits for it.
NestedSkips == \A o \in Op : Inherits(Home[o]) => pc[o] \notin AtHead

LEMMA SkippingKept ==
    ASSUME NestedSkips, \A q \in Op : pc'[q] \in AtHead => pc[q] \in AtHead
    PROVE  NestedSkips'
BY DEF NestedSkips, Inherits

LEMMA SkipStep == TypeOK /\ NestedSkips /\ [Next]_vars => NestedSkips'
<1> SUFFICES ASSUME TypeOK, NestedSkips, [Next]_vars PROVE NestedSkips'
  OBVIOUS
<1> USE DEF Goto, AtHead
<1>1. ASSUME NEW o \in Op, CheckHead(o) PROVE NestedSkips'
  BY <1>1 DEF CheckHead, NestedSkips, Inherits, TypeOK
<1>2. ASSUME NEW o \in Op, Acquire(o), ~CheckHead(o) PROVE NestedSkips'
  <2>1. \A q \in Op : pc'[q] \in AtHead => pc[q] \in AtHead
    BY <1>2
    DEF Acquire, Register, Await, Wake, Reobserve, TakeLock, FindBusy, Degrade, Retry, WriteTemp,
        RenameLands, Grant, TypeOK
  <2> QED
    BY <2>1, SkippingKept
<1>3. ASSUME NEW o \in Op,
             \/ Enqueue(o) \/ Cancel(o) \/ DropFuture(o) \/ SoftRelease(o)
             \/ Stray(o) \/ StartCommand(o) \/ Abandon(o)
      PROVE  NestedSkips'
  <2>1. \A q \in Op : pc'[q] \in AtHead => pc[q] \in AtHead
    BY <1>3
    DEF Enqueue, Cancel, DropFuture, SoftRelease, Stray, StrayTakes, StrayEnds, StrayRenames,
        StartCommand, Abandon, TypeOK
  <2> QED
    BY <2>1, SkippingKept
<1>4. ASSUME NEW o \in Op, Release(o) PROVE NestedSkips'
  <2>1. \A q \in Op : pc'[q] \in AtHead => pc[q] \in AtHead
    BY <1>4 DEF Release, DropLease, Withdraw, LeaveLane, NotifyWaiters, Unlock, Forget, TypeOK
  <2> QED
    BY <2>1, SkippingKept
<1>5. ASSUME NEW P \in SUBSET Proc, Die(P) PROVE NestedSkips'
  <2>1. \A q \in Op : pc'[q] \in AtHead => pc[q] \in AtHead
    BY <1>5 DEF Die
  <2> QED
    BY <2>1, SkippingKept
<1>6. ASSUME NEW o \in Op, EndCommand(o) PROVE NestedSkips'
  BY <1>5, <1>6, EndCommandKills
<1>7. ASSUME NEW p \in Proc, Crash(p) PROVE NestedSkips'
  BY <1>5, <1>7 DEF Crash
<1>8. ASSUME NEW b \in Prober, Probe(b) PROVE NestedSkips'
  BY <1>8, SkippingKept
  DEF Probe, ProbeLane, ProbeTry, ProbeCannotOpen, ProbeUnlock, ProbeRead
<1>9. CASE UNCHANGED vars
  BY <1>9, SkippingKept DEF vars
<1> QED
  BY <1>1, <1>2, <1>3, <1>4, <1>6, <1>7, <1>8, <1>9 DEF Next

QuietInv == IInv /\ FirstInv /\ StaleInv /\ NoLostWakeup /\ NestedSkips

\* Whoever has a place in line has a head before it, or is the head.
LEMMA LineHasHead ==
    ASSUME TypeOK, LaneInv, NEW o \in Op, pc[o] \in InLine
    PROVE  \E h \in Op : Home[h] = Home[o] /\ IsHead(h)
<1> DEFINE s == lane[Home[o]]
<1>1. s \in Seq(Op) /\ Place(o) \in 1..Len(s) /\ Home[o] \in Proc
  BY PlaceInLane
<1>2. s # <<>> /\ Head(s) \in Op /\ Head(s) = s[1] /\ 1 \in DOMAIN s
  BY <1>1
<1>3. Home[Head(s)] = Home[o]
  BY <1>1, <1>2 DEF LaneInv, LaneMembers
<1> QED
  BY <1>2, <1>3 DEF IsHead

LEMMA SomebodyInTheWay ==
    ASSUME QuietInv, NEW o \in Op, pc[o] # "idle"
    PROVE  CanGo(o) \/ AwaitsCommand(o) \/ \E x \in Op : WaitsFor(o, x)
<1>0. TypeOK /\ LaneInv /\ NoLostWakeup /\ StaleInv
  BY DEF QuietInv, IInv
<1>1. CASE pc[o] = "parked"
  <2>1. PICK h \in Op : Home[h] = Home[o] /\ IsHead(h)
    BY <1>0, <1>1, PCsAreStates, LineHasHead
  <2>2. CASE h = o
    BY <1>0, <1>1, <2>1, <2>2 DEF NoLostWakeup, CanGo, AwaitsCommand, Notifying
  <2>3. CASE h # o
    BY <1>1, <2>1, <2>3 DEF WaitsFor
  <2> QED
    BY <2>2, <2>3
<1>2. CASE pc[o] \in {"trying", "backoff"}
  <2>1. CASE flock = None
    BY <1>2, <2>1 DEF CanGo, AwaitsCommand
  <2>2. CASE flock # None
    <3>1. PICK own \in Owner : flock = own
      BY <1>0, <2>2 DEF TypeOK
    <3>2. own = Opened(own.kind, own.id)
      BY DEF Owner, Opened
    <3>3. CASE own.kind = "op"
      BY <1>2, <3>1, <3>2, <3>3 DEF WaitsFor, Owner
    <3>4. CASE own.kind = "stray"
      <4>1. own.id \in Op /\ flock = Opened("stray", own.id)
        BY <3>1, <3>2, <3>4 DEF Owner
      <4> QED
        BY <1>0, <1>2, <4>1 DEF StaleInv, CanGo, AwaitsCommand
    <3>5. CASE own.kind = "probe"
      <4>1. own.id \in Prober /\ flock = Opened("probe", own.id)
        BY <3>1, <3>2, <3>5 DEF Owner
      <4> QED
        BY <1>0, <1>2, <4>1 DEF StaleInv, CanGo, AwaitsCommand
    <3> QED
      BY <3>3, <3>4, <3>5 DEF Owner
  <2> QED
    BY <2>1, <2>2
<1>3. CASE pc[o] \notin {"parked", "trying", "backoff"}
  BY <1>3 DEF CanGo
<1> QED
  BY <1>1, <1>2, <1>3

\* Among those who wait for one another, a command waits for one below it.
LEMMA CommandWaitsBelow ==
    ASSUME QuietInv, NEW S \in SUBSET Op, \A o \in S : \E x \in S : WaitsFor(o, x),
           NEW g \in S, pc[g] = "granted"
    PROVE  \E x \in S : pc[x] = "granted" /\ Home[x] \in Below[g]
<1>0. \A o \in S : pc[o] \in {"parked", "trying", "backoff", "granted"}
  BY DEF WaitsFor
<1>1. PICK z \in S : Home[z] \in Below[g]
  BY DEF WaitsFor
<1>2. ASSUME NEW x \in S, Home[x] \in Below[g], pc[x] # "parked" PROVE pc[x] = "granted"
  <2>1. Inherits(Home[x])
    BY <1>2, BelowInherits
  <2> QED
    BY <1>0, <1>2, <2>1 DEF QuietInv, NestedSkips, AtHead
<1>3. CASE pc[z] = "parked"
  <2>1. PICK h \in S : Home[h] = Home[z] /\ IsHead(h)
    BY <1>3 DEF WaitsFor
  <2>2. pc[h] # "parked"
    BY <2>1 DEF WaitsFor, IsHead
  <2> QED
    BY <1>1, <1>2, <2>1, <2>2
<1> QED
  BY <1>1, <1>2, <1>3

\* And they cannot wait for one another without a command among them.
LEMMA SomeCommandWaits ==
    ASSUME QuietInv, NEW S \in SUBSET Op, \A o \in S : \E x \in S : WaitsFor(o, x), S # {}
    PROVE  \E g \in S : pc[g] = "granted"
<1>0. \A o \in S : pc[o] \in {"parked", "trying", "backoff", "granted"}
  BY DEF WaitsFor
<1>1. ASSUME NEW o \in S, pc[o] \in {"trying", "backoff"} PROVE \E g \in S : pc[g] = "granted"
  <2>1. PICK x \in S : flock = Opened("op", x)
    BY <1>1 DEF WaitsFor
  <2>2. pc[x] \in OpenStates
    BY <2>1 DEF QuietInv, StaleInv
  <2> QED
    BY <1>0, <2>2 DEF OpenStates
<1>2. ASSUME NEW o \in S, pc[o] = "parked" PROVE \E g \in S : pc[g] # "parked"
  <2>1. PICK h \in S : IsHead(h)
    BY <1>2 DEF WaitsFor
  <2> QED
    BY <2>1 DEF WaitsFor, IsHead
<1> QED
  BY <1>0, <1>1, <1>2

\* A finite set of them would have a command with fewer below it than any other.
LEMMA NoCircle ==
    ASSUME QuietInv, NEW S \in SUBSET Op, IsFiniteSet(S),
           \A o \in S : \E x \in S : WaitsFor(o, x)
    PROVE  S = {}
<1> SUFFICES ASSUME S # {} PROVE FALSE
  OBVIOUS
<1> DEFINE D(g) == {q \in S : Home[q] \in Below[g]}
           T == {Cardinality(D(g)) : g \in {x \in S : pc[x] = "granted"}}
<1>1. \A g \in S : IsFiniteSet(D(g)) /\ Cardinality(D(g)) \in Nat
  BY FS_Subset, FS_CardinalityType
<1>2. T # {} /\ T \subseteq Nat
  BY <1>1, SomeCommandWaits
<1>3. PICK n \in T : \A m \in T : ~(<<m, n>> \in OpToRel(<, Nat))
  <2> HIDE DEF T
  <2> QED
    BY <1>2, NatLessThanWellFounded, WFMin, Zenon
<1>4. PICK g \in S : pc[g] = "granted" /\ n = Cardinality(D(g))
  BY <1>3
<1>5. PICK x \in S : pc[x] = "granted" /\ Home[x] \in Below[g]
  BY <1>4, CommandWaitsBelow
<1>6. D(x) \subseteq D(g) /\ x \in D(g) /\ x \notin D(x)
  BY <1>5, TreesNest, TreeAssumption
<1>7. Cardinality(D(x)) \in T
  BY <1>5
<1> HIDE DEF D, T
<1>8. Cardinality(D(x)) < n
  <2>1. Cardinality(D(x)) <= Cardinality(D(g)) /\ Cardinality(D(x)) # Cardinality(D(g))
    BY <1>1, <1>6, FS_Subset
  <2> QED
    BY <1>1, <1>4, <2>1
<1>9. <<Cardinality(D(x)), n>> \in OpToRel(<, Nat)
  BY <1>1, <1>4, <1>8 DEF OpToRel
<1> QED
  BY <1>3, <1>7, <1>9

\* SPEC R2.7, "it never wedges", for any number of waiters and any nesting, after
\* any drops and kills: who cannot go waits for somebody it can name, the lanes,
\* the lock and the trees of commands are no circle, and the ends of orphaned
\* attempts and of probes are their own.  What EveryTicketServed needs of the
\* steps; that each is taken is the fairness.
THEOREM NoDeadlock == Spec => []NobodyIsStuck
<1>1. Init => FirstInv /\ NestedSkips
  BY ProceedingStates DEF Init, FirstInv, NestedSkips, AtHead
<1>2. Init => StaleInv
  BY OpenedFields DEF Init, StaleInv
<1>3. IInv /\ FirstInv /\ StaleInv /\ NestedSkips /\ [Next]_vars
         => FirstInv' /\ StaleInv' /\ NestedSkips'
  BY FirstStep, StaleStep, SkipStep DEF IInv
<1>4. IInv /\ FirstInv /\ StaleInv /\ NestedSkips /\ NoLostWakeup => NobodyIsStuck
  BY SomebodyInTheWay, NoCircle DEF NobodyIsStuck, QuietInv
<1> QED
  BY <1>1, <1>2, <1>3, <1>4, Invariant, WakeUpsAreKept, PTL DEF Spec
=============================================================================
