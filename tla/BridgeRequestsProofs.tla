------------------------ MODULE BridgeRequestsProofs ------------------------
(***************************************************************************)
(* Theorems about BridgeRequests, for any number of requests and any use   *)
(* of ids.                                                                 *)
(***************************************************************************)
EXTENDS BridgeRequests, TLAPS

\* The end of a session is marked before anything follows from it.
EndIsMarked ==
    /\ io \in {"marked", "asksCause", "leaving", "gone"} => terminated
    /\ ending \in {"marked", "failed", "cleared", "abandoned"} => terminated
    /\ mapped <=> ending = "no"

\* One request is registered under an id.
OneRegistered == \A q, r \in pending : Id[q] = Id[r] => q = r

\* Where a request is on its way to the worker, or in its hands: in one copy.
InBox(q) == \E i \in 1..Len(outbox) : outbox[i] = q
Sent(q)  == q \in asked \/ frame = q \/ InBox(q)
OneCopy(q) ==
    /\ \A i, j \in 1..Len(outbox) : outbox[i] = q /\ outbox[j] = q => i = j
    /\ InBox(q) => frame # q
    /\ q \in asked => frame # q /\ ~InBox(q)

\* What has to do with a request before it is sent, and after.
Order(q) ==
    /\ Sent(q) => task[q] \notin {"idle", "looked", "sending"}
    /\ channel[q] # None => q \notin pending /\ task[q] \notin {"idle", "looked"}

\* A request that the worker may still answer is registered, or its id is
\* blurred: so may be one that lost its registration as it was written.
Kept(q) == Sent(q) \/ task[q] = "sending" => q \in pending \/ Blurred(q)

\* What excuses a closed channel.
Excused(r) == \/ ending = "cleared"
              \/ \E q \in SameId(r) \ {r} : task[q] \in {"timedOut", "unsent"}

\* A registration goes with an answer or with an excuse.
Told(r) ==
    task[r] \in {"sending", "waiting"} /\ r \notin pending /\ channel[r] = None => Excused(r)

Safe ==
    /\ BridgeTypeOK /\ EndIsMarked /\ IdsAreReleased /\ OneRegistered
    /\ \A q \in Request : OneCopy(q) /\ Order(q) /\ Kept(q)

IInv == Safe /\ HealthyNotClosed /\ \A r \in Request : Told(r)

-----------------------------------------------------------------------------
LEMMA SameIds ==
    \A q \in Request : q \in SameId(q) /\ SameId(q) \subseteq Request
                       /\ \A s \in SameId(q) : SameId(s) = SameId(q) /\ q \in SameId(s)
BY DEF SameId

\* What Append, Head and Tail do to the channel.
LEMMA Channel ==
    ASSUME BridgeTypeOK
    PROVE  /\ Len(outbox) \in Nat
           /\ \A e \in Request \cup {Note} :
                 /\ Append(outbox, e) \in Seq(Request \cup {Note})
                 /\ Len(Append(outbox, e)) = Len(outbox) + 1
                 /\ \A i \in 1..Len(outbox) : Append(outbox, e)[i] = outbox[i]
                 /\ Append(outbox, e)[Len(outbox) + 1] = e
           /\ outbox # <<>> =>
                 /\ Head(outbox) = outbox[1] /\ outbox[1] \in Request \cup {Note}
                 /\ Len(outbox) > 0
                 /\ Tail(outbox) \in Seq(Request \cup {Note})
                 /\ Len(Tail(outbox)) = Len(outbox) - 1
                 /\ \A i \in 1..(Len(outbox) - 1) : Tail(outbox)[i] = outbox[i + 1]
<1>1. outbox \in Seq(Request \cup {Note})
  BY DEF BridgeTypeOK
<1> QED
  BY <1>1, SMT

\* Terminated, and given up, are for good.
LEMMA BlurredForGood ==
    ASSUME Safe, [Next]_vars, NEW q \in Request, Blurred(q)
    PROVE  Blurred(q)'
<1>0. BridgeTypeOK
  BY DEF Safe
<1>1. terminated => terminated'
  BY DEF Next, Look, Register, Send, Receive, SeesClosed, TimesOut, GivesUp, Disconnect,
         Dispatch, WorkerDies, SendNote, TakeFrame, WriteFrame, StopIo, MarkDead, LookPending,
         FailRest, DropReceiver, ClientTerminates, BridgeTerminates, Sweep, Remove,
         SetTerminated, AnswerAll, ShutDownPeer, Abandon, requests, session, pipe, vars
<1>2. ASSUME NEW s \in Request, GaveUp(s) PROVE GaveUp(s)'
  <2>1. ASSUME NEW r \in Request, Look(r) \/ Register(r) \/ Send(r) \/ Receive(r) \/ SeesClosed(r)
                                  \/ TimesOut(r) \/ GivesUp(r) \/ Disconnect(r)
        PROVE  GaveUp(s)'
    BY <1>0, <1>2, <2>1
    DEF GaveUp, Look, Register, Send, Receive, SeesClosed, TimesOut, GivesUp, Disconnect, Goto,
        BridgeTypeOK
  <2>2. CASE UNCHANGED task
    BY <1>2, <2>2 DEF GaveUp
  <2> QED
    BY <2>1, <2>2
    DEF Next, Dispatch, WorkerDies, SendNote, TakeFrame, WriteFrame, StopIo, MarkDead,
        LookPending, FailRest, DropReceiver, ClientTerminates, BridgeTerminates, Sweep, Remove,
        SetTerminated, AnswerAll, ShutDownPeer, Abandon, requests, session, vars
<1> QED
  BY <1>1, <1>2 DEF Blurred, SameId

\* Everything safe but that a request the worker may answer is kept.
Shape == /\ BridgeTypeOK /\ EndIsMarked /\ IdsAreReleased /\ OneRegistered
         /\ \A q \in Request : OneCopy(q) /\ Order(q)

\* The steps that only move what is in the channel.
Traffic == SendNote \/ TakeFrame \/ WriteFrame \/ StopIo \/ DropReceiver

\* Who is on its way was so before, or is sent in this step; still in one copy.
LEMMA CopyStep ==
    ASSUME BridgeTypeOK, [Next]_vars, NEW q \in Request, OneCopy(q),
           Sent(q) => task[q] # "sending"
    PROVE  /\ OneCopy(q)'
           /\ Sent(q)' => Sent(q) \/ (task[q] = "sending" /\ task'[q] = "waiting")
<1> DEFINE Goal == /\ OneCopy(q)'
                   /\ Sent(q)' => Sent(q) \/ (task[q] = "sending" /\ task'[q] = "waiting")
<1> SUFFICES Goal
  OBVIOUS
<1>0. q # Note /\ q # None /\ Note # None
  BY BridgeAssumption
<1>1. CASE UNCHANGED pipe
  BY <1>1 DEF pipe, OneCopy, Sent, InBox
<1>2. ASSUME NEW r \in Request, Send(r) PROVE Goal
  <2>1. CASE UNCHANGED outbox
    BY <1>2, <2>1 DEF Send, OneCopy, Sent, InBox
  <2>2. CASE outbox' = Append(outbox, r)
    <3>1. task[r] = "sending" /\ UNCHANGED <<frame, asked>> /\ (r = q => ~Sent(q))
      BY <1>2 DEF Send
    <3>2. r = q => task'[q] = "waiting"
      BY <1>2, <2>2, Channel DEF Send, Goto, BridgeTypeOK
    <3>3. InBox(q)' => InBox(q) \/ r = q
      BY <2>2, Channel DEF InBox
    <3>4. \A i, j \in 1..Len(outbox') : outbox'[i] = q /\ outbox'[j] = q => i = j
      BY <2>2, <3>1, Channel DEF InBox, Sent, OneCopy
    <3> QED
      BY <3>1, <3>2, <3>3, <3>4 DEF Sent, OneCopy
  <2> QED
    BY <1>2, <2>1, <2>2 DEF Send
<1>3. CASE SendNote
  <2>1. outbox' = Append(outbox, Note) /\ UNCHANGED <<frame, asked>>
    BY <1>3 DEF SendNote
  <2>2. InBox(q)' => InBox(q)
    BY <1>0, <2>1, Channel DEF InBox
  <2>3. \A i, j \in 1..Len(outbox') : outbox'[i] = q /\ outbox'[j] = q => i = j
    BY <1>0, <2>1, Channel DEF OneCopy
  <2> QED
    BY <2>1, <2>2, <2>3 DEF Sent, OneCopy
<1>4. CASE TakeFrame
  <2>1. frame = None /\ frame' = outbox[1] /\ outbox' = Tail(outbox) /\ asked' = asked /\ outbox # <<>>
    BY <1>4, Channel DEF TakeFrame
  <2>2. InBox(q)' => InBox(q) /\ outbox[1] # q
    BY <2>1, Channel DEF InBox, OneCopy
  <2>3. \A i, j \in 1..Len(outbox') : outbox'[i] = q /\ outbox'[j] = q => i = j
    BY <2>1, Channel DEF OneCopy
  <2>4. outbox[1] = q => InBox(q)
    BY <2>1, Channel DEF InBox
  <2> QED
    BY <2>1, <2>2, <2>3, <2>4 DEF Sent, OneCopy
<1>5. CASE WriteFrame \/ StopIo \/ DropReceiver
  <2>1. \/ outbox' = outbox
        \/ outbox' = <<>>
    BY <1>5 DEF WriteFrame, StopIo, DropReceiver
  <2>2. frame' \in {None, frame} /\ (q \in asked' => q \in asked \/ (frame = q /\ frame' = None))
    BY <1>5 DEF WriteFrame, StopIo, DropReceiver
  <2>3. InBox(q)' => InBox(q) /\ outbox' = outbox
    BY <2>1 DEF InBox
  <2>4. \A i, j \in 1..Len(outbox') : outbox'[i] = q /\ outbox'[j] = q => i = j
    BY <2>1 DEF OneCopy
  <2> QED
    BY <1>0, <2>2, <2>3, <2>4 DEF Sent, OneCopy
<1>6. ASSUME NEW r \in Request, Dispatch(r) PROVE Goal
  BY <1>6 DEF Dispatch, OneCopy, Sent, InBox
<1> QED
  BY <1>1, <1>2, <1>3, <1>4, <1>5, <1>6
  DEF Next, Look, Register, Receive, SeesClosed, TimesOut, GivesUp, Disconnect, WorkerDies,
      MarkDead, LookPending, FailRest, ClientTerminates, BridgeTerminates, Sweep, Remove,
      SetTerminated, AnswerAll, ShutDownPeer, Abandon, requests, session, vars

LEMMA ShapeStep == Shape /\ [Next]_vars => Shape'
<1> SUFFICES ASSUME Shape, [Next]_vars PROVE Shape'
  OBVIOUS
<1> USE SameIds DEF Shape
<1>0. \A q \in Request : OneCopy(q)' /\ (Sent(q)' => Sent(q) \/ (task[q] = "sending" /\ task'[q] = "waiting"))
  BY CopyStep DEF Order
<1>1. ASSUME NEW r \in Request, Look(r) \/ TimesOut(r) PROVE Shape'
  <2>1. BridgeTypeOK' /\ EndIsMarked' /\ IdsAreReleased'
    BY <1>1
    DEF Look, TimesOut, Goto, session, pipe, BridgeTypeOK, EndIsMarked, IdsAreReleased,
        Underway, Ends
  <2>2. OneRegistered'
    BY <1>1 DEF Look, TimesOut, OneRegistered
  <2>3. \A q \in Request : OneCopy(q)' /\ Order(q)'
    BY <1>0, <1>1 DEF Look, TimesOut, Goto, Order, BridgeTypeOK
  <2> QED
    BY <2>1, <2>2, <2>3
<1>2. ASSUME NEW r \in Request, Register(r) PROVE Shape'
  <2>1. BridgeTypeOK' /\ EndIsMarked' /\ IdsAreReleased'
    BY <1>2
    DEF Register, Goto, session, pipe, BridgeTypeOK, EndIsMarked, IdsAreReleased, Underway, Ends
  <2>2. OneRegistered'
    BY <1>2 DEF Register, OneRegistered, SameId, BridgeTypeOK
  <2>3. \A q \in Request : OneCopy(q)' /\ Order(q)'
    BY <1>0, <1>2 DEF Register, Goto, Order, BridgeTypeOK
  <2> QED
    BY <2>1, <2>2, <2>3
<1>3. ASSUME NEW r \in Request, Send(r) PROVE Shape'
  <2>1. outbox' \in Seq(Request \cup {Note}) /\ Len(outbox') <= Room
    <3>1. BridgeTypeOK /\ Room \in Nat
      BY BridgeAssumption
    <3> QED
      BY <1>3, <3>1, Channel DEF Send, BridgeTypeOK
  <2>4. BridgeTypeOK' /\ EndIsMarked' /\ IdsAreReleased'
    BY <1>3, <2>1
    DEF Send, ClearById, Goto, session, BridgeTypeOK, EndIsMarked, IdsAreReleased, Underway,
        Ends
  <2>2. OneRegistered'
    BY <1>3 DEF Send, ClearById, OneRegistered
  <2>3. \A q \in Request : OneCopy(q)' /\ Order(q)'
    BY <1>0, <1>3 DEF Send, ClearById, Goto, Order, BridgeTypeOK
  <2> QED
    BY <2>2, <2>3, <2>4
<1>4. ASSUME NEW r \in Request, Receive(r) \/ SeesClosed(r) \/ GivesUp(r) \/ Disconnect(r) PROVE Shape'
  <2>0. pending' \subseteq pending
    BY <1>4 DEF Receive, SeesClosed, GivesUp, Disconnect, ReleaseId, ClearById
  <2>1. BridgeTypeOK' /\ EndIsMarked' /\ IdsAreReleased'
    BY <1>4
    DEF Receive, SeesClosed, GivesUp, Disconnect, ReleaseId, ClearById, Goto, session, pipe,
        BridgeTypeOK, EndIsMarked, IdsAreReleased, Ends
  <2>2. OneRegistered'
    BY <2>0 DEF OneRegistered
  <2>3. \A q \in Request : OneCopy(q)' /\ Order(q)'
    BY <1>0, <1>4, <2>0 DEF Receive, SeesClosed, GivesUp, Disconnect, Goto, Order, BridgeTypeOK
  <2> QED
    BY <2>1, <2>2, <2>3
<1>5. ASSUME NEW r \in Request, Dispatch(r) PROVE Shape'
  <2>1. BridgeTypeOK' /\ EndIsMarked' /\ IdsAreReleased'
    BY <1>5 DEF Dispatch, session, pipe, BridgeTypeOK, EndIsMarked, IdsAreReleased
  <2>2. OneRegistered'
    BY <1>5 DEF Dispatch, OneRegistered
  <2>3. \A q \in Request : OneCopy(q)' /\ Order(q)'
    BY <1>0, <1>5 DEF Dispatch, Order, IdsAreReleased, BridgeTypeOK
  <2> QED
    BY <2>1, <2>2, <2>3
<1>6. ASSUME FailRest \/ AnswerAll \/ ShutDownPeer PROVE Shape'
  <2>0. BridgeTypeOK' /\ IdsAreReleased'
    BY <1>6
    DEF FailRest, AnswerAll, ShutDownPeer, FailPending, pipe, BridgeTypeOK, IdsAreReleased
  <2>1. EndIsMarked'
    <3>1. terminated' = terminated /\ mapped' = mapped
      BY <1>6 DEF FailRest, AnswerAll, ShutDownPeer
    <3>2. terminated /\ (ending = "no" <=> ending' = "no")
      BY <1>6 DEF FailRest, AnswerAll, ShutDownPeer, EndIsMarked
    <3> QED
      BY <3>1, <3>2 DEF EndIsMarked
  <2>2. OneRegistered'
    BY <1>6 DEF FailRest, AnswerAll, ShutDownPeer, FailPending, OneRegistered
  <2>3. \A q \in Request : OneCopy(q)' /\ Order(q)'
    BY <1>0, <1>6
    DEF FailRest, AnswerAll, ShutDownPeer, FailPending, Order, IdsAreReleased, BridgeTypeOK
  <2> QED
    BY <2>0, <2>1, <2>2, <2>3
<1>7. ASSUME SendNote \/ TakeFrame \/ WriteFrame \/ StopIo \/ DropReceiver PROVE Shape'
  <2>0. UNCHANGED <<task, pending, channel>>
    BY <1>7 DEF SendNote, TakeFrame, WriteFrame, StopIo, DropReceiver
  <2>1. outbox' \in Seq(Request \cup {Note}) /\ Len(outbox') <= Room /\ frame' \in Request \cup {Note, None}
    <3>0. Room \in Nat
      BY BridgeAssumption
    <3>1. CASE SendNote
      BY <3>0, <3>1, Channel DEF SendNote, BridgeTypeOK
    <3>2. CASE TakeFrame
      BY <3>0, <3>2, Channel DEF TakeFrame, BridgeTypeOK
    <3>3. CASE WriteFrame \/ StopIo \/ DropReceiver
      <4>1. outbox' \in {outbox, <<>>} /\ frame' \in {frame, None}
        BY <3>3 DEF WriteFrame, StopIo, DropReceiver
      <4>2. <<>> \in Seq(Request \cup {Note}) /\ Len(<<>>) = 0 /\ 0 <= Room
        BY <3>0
      <4> QED
        BY <4>1, <4>2 DEF BridgeTypeOK
    <3> QED
      BY <1>7, <3>1, <3>2, <3>3
  <2>2. asked' \subseteq Request
    BY <1>7 DEF SendNote, TakeFrame, WriteFrame, StopIo, DropReceiver, BridgeTypeOK
  <2>3. BridgeTypeOK' /\ EndIsMarked'
    BY <1>7, <2>0, <2>1, <2>2
    DEF SendNote, TakeFrame, WriteFrame, StopIo, DropReceiver, session, BridgeTypeOK,
        EndIsMarked
  <2>4. IdsAreReleased' /\ OneRegistered' /\ \A q \in Request : OneCopy(q)' /\ Order(q)'
    BY <1>0, <2>0 DEF IdsAreReleased, OneRegistered, Order
  <2> QED
    BY <2>3, <2>4
<1>8. ASSUME \/ WorkerDies \/ MarkDead \/ LookPending \/ ClientTerminates
             \/ BridgeTerminates \/ Sweep \/ SetTerminated \/ Abandon \/ UNCHANGED vars
      PROVE  Shape'
  <2>0. UNCHANGED requests
    BY <1>8 DEF WorkerDies, MarkDead, LookPending, ClientTerminates,
       BridgeTerminates, Sweep, Remove, SetTerminated, Abandon, vars, requests
  <2>4. /\ worker' \in BOOLEAN /\ terminated' \in BOOLEAN /\ mapped' \in BOOLEAN /\ byClient' \in BOOLEAN
        /\ io' \in {"runs", "stopped", "marked", "asksCause", "leaving", "gone"}
        /\ ending' \in {"no", "removed", "marked", "failed", "cleared", "abandoned"}
    BY <1>8 DEF WorkerDies, MarkDead, LookPending, ClientTerminates, BridgeTerminates, Sweep,
       Remove, SetTerminated, Abandon, vars, session, BridgeTypeOK
  <2>5. /\ task' = task /\ pending' = pending /\ channel' = channel
        /\ outbox' = outbox /\ frame' = frame /\ asked' = asked
    BY <2>0 DEF requests, pipe
  <2>1. BridgeTypeOK'
    BY <2>4, <2>5 DEF BridgeTypeOK
  <2>3. EndIsMarked'
    BY <1>8 DEF WorkerDies, MarkDead, LookPending, ClientTerminates,
       BridgeTerminates, Sweep, Remove, SetTerminated, Abandon, vars, session, EndIsMarked
  <2>2. IdsAreReleased' /\ OneRegistered' /\ \A q \in Request : OneCopy(q)' /\ Order(q)'
    BY <1>0, <2>0 DEF requests, IdsAreReleased, OneRegistered, Order
  <2> QED
    BY <2>1, <2>2, <2>3
<1> QED
  BY <1>1, <1>2, <1>3, <1>4, <1>5, <1>6, <1>7, <1>8 DEF Next

LEMMA KeptStep == Safe /\ [Next]_vars => \A q \in Request : Kept(q)'
<1> SUFFICES ASSUME Safe, [Next]_vars, NEW q \in Request, Sent(q)' \/ task'[q] = "sending",
                    ~Blurred(q)'
             PROVE  q \in pending'
  BY DEF Kept
<1>0. /\ BridgeTypeOK /\ EndIsMarked /\ IdsAreReleased /\ OneRegistered /\ Kept(q) /\ Order(q)
      /\ ~Blurred(q) /\ ~terminated' /\ \A s \in SameId(q) : ~GaveUp(s)'
      /\ ~terminated /\ \A s \in Request : Kept(s)
  BY BlurredForGood DEF Safe, Blurred, SameId
<1>10. OneCopy(q) /\ (Sent(q)' => Sent(q) \/ task[q] = "sending")
  BY <1>0, CopyStep DEF Safe, Order
<1>1. ASSUME Sent(q) \/ task[q] = "sending", pending \subseteq pending' PROVE q \in pending'
  BY <1>0, <1>1 DEF Kept
<1>2. ASSUME NEW r \in Request, Look(r) \/ TimesOut(r) PROVE q \in pending'
  BY <1>0, <1>1, <1>10, <1>2 DEF Look, TimesOut, Goto, BridgeTypeOK
<1>3. ASSUME NEW r \in Request, Register(r) PROVE q \in pending'
  BY <1>0, <1>1, <1>10, <1>3 DEF Register, Goto, BridgeTypeOK
<1>4. ASSUME NEW r \in Request, Send(r) PROVE q \in pending'
  BY <1>0, <1>1, <1>10, <1>4 DEF Send, Goto, BridgeTypeOK, EndIsMarked
\* A request that goes takes its own registration, and closed ones.
<1>5. ASSUME NEW r \in Request, Receive(r) \/ SeesClosed(r) \/ GivesUp(r) \/ Disconnect(r)
      PROVE  q \in pending'
  <2>1. q \in pending
    BY <1>0, <1>5, <1>10 DEF Receive, SeesClosed, GivesUp, Disconnect, Goto, Kept, BridgeTypeOK
  <2>2. task'[q] \notin {"timedOut", "left", "cut"} /\ task[q] \in {"sending", "waiting", "expired", "cut"}
    BY <1>0, <2>1, SameIds DEF GaveUp, IdsAreReleased
  <2>3. CASE GivesUp(r) \/ Disconnect(r)
    <3>1. r \notin SameId(q) \/ pending' = pending
      BY <1>0, <2>3 DEF GivesUp, Disconnect, Goto, GaveUp, BridgeTypeOK
    <3> QED
      BY <2>1, <2>3, <3>1, SameIds DEF GivesUp, Disconnect, ClearById, ReleaseId, SameId
  <2>4. CASE Receive(r) \/ SeesClosed(r)
    <3>1. r # q
      BY <1>0, <2>1, <2>4 DEF Receive, SeesClosed, Order
    <3>2. task[q] = task'[q]
      BY <1>0, <2>4, <3>1 DEF Receive, SeesClosed, Goto, BridgeTypeOK
    <3>3. ~Closed(q)
      BY <2>2, <3>2 DEF Closed, Ends
    <3> QED
      BY <2>1, <2>4, <3>1, <3>3 DEF Receive, SeesClosed, ReleaseId
  <2> QED
    BY <1>5, <2>3, <2>4
<1>6. ASSUME NEW r \in Request, Dispatch(r) PROVE q \in pending'
  <2>1. q \in pending /\ (Sent(q)' => q # r)
    BY <1>0, <1>6, <1>10 DEF Dispatch, Kept, Sent, OneCopy, InBox
  <2>2. r \in pending \/ Blurred(r)
    BY <1>0, <1>6 DEF Dispatch, Kept, Sent
  <2>3. CASE r \in SameId(q)
    <3>1. Blurred(r) <=> Blurred(q)
      BY <2>3, SameIds DEF Blurred
    <3>2. r = q
      BY <1>0, <2>1, <2>2, <2>3, <3>1 DEF OneRegistered, SameId
    <3> QED
      BY <1>0, <1>6, <2>1, <3>2 DEF Dispatch, Order, Sent
  <2>4. CASE r \notin SameId(q)
    BY <1>6, <2>1, <2>4 DEF Dispatch, SameId
  <2> QED
    BY <2>3, <2>4
<1>7. ASSUME FailRest \/ AnswerAll \/ ShutDownPeer PROVE q \in pending'
  BY <1>0, <1>7 DEF FailRest, AnswerAll, ShutDownPeer, EndIsMarked
<1>8. CASE UNCHANGED <<task, pending, channel>>
  BY <1>0, <1>1, <1>8, <1>10
<1>9. \/ UNCHANGED <<task, pending, channel>> \/ FailRest \/ AnswerAll \/ ShutDownPeer
      \/ \E r \in Request : \/ Look(r) \/ Register(r) \/ Send(r) \/ Receive(r) \/ SeesClosed(r)
                            \/ TimesOut(r) \/ GivesUp(r) \/ Disconnect(r) \/ Dispatch(r)
  BY DEF Next, WorkerDies, SendNote, TakeFrame, WriteFrame, StopIo, MarkDead, LookPending,
         DropReceiver, ClientTerminates, BridgeTerminates, Sweep, Remove, SetTerminated,
         Abandon, vars, requests
<1> QED
  BY <1>2, <1>3, <1>4, <1>5, <1>6, <1>7, <1>8, <1>9

-----------------------------------------------------------------------------
(* Closed channels.                                                        *)

LEMMA ExcusedForGood ==
    ASSUME Safe, [Next]_vars, NEW r \in Request, Excused(r)
    PROVE  Excused(r)'
<1>0. BridgeTypeOK /\ EndIsMarked
  BY DEF Safe
<1>1. ASSUME ending = "cleared" PROVE ending' = "cleared"
  BY <1>0, <1>1
  DEF EndIsMarked, Next, Look, Register, Send, Receive, SeesClosed, TimesOut, GivesUp,
      Disconnect, Dispatch, WorkerDies, SendNote, TakeFrame, WriteFrame, StopIo, MarkDead,
      LookPending, FailRest, DropReceiver, ClientTerminates, BridgeTerminates, Sweep, Remove,
      SetTerminated, AnswerAll, ShutDownPeer, Abandon, requests, session, pipe, vars
<1>2. ASSUME NEW s \in Request, task[s] \in {"timedOut", "unsent"} PROVE task'[s] = task[s]
  <2>1. ASSUME NEW q \in Request, Look(q) \/ Register(q) \/ Send(q) \/ Receive(q) \/ SeesClosed(q)
                                  \/ TimesOut(q) \/ GivesUp(q) \/ Disconnect(q)
        PROVE  task'[s] = task[s]
    BY <1>0, <1>2, <2>1 DEF Look, Register, Send, Receive, SeesClosed, TimesOut, GivesUp,
                            Disconnect, Goto, BridgeTypeOK
  <2> QED
    BY <2>1
    DEF Next, Dispatch, WorkerDies, SendNote, TakeFrame, WriteFrame, StopIo, MarkDead,
        LookPending, FailRest, DropReceiver, ClientTerminates, BridgeTerminates, Sweep, Remove,
        SetTerminated, AnswerAll, ShutDownPeer, Abandon, requests, session, vars
<1> QED
  BY <1>1, <1>2 DEF Excused, SameId

LEMMA ToldStep == IInv /\ [Next]_vars => \A r \in Request : Told(r)'
<1> SUFFICES ASSUME IInv, [Next]_vars, NEW q \in Request, task'[q] \in {"sending", "waiting"},
                    q \notin pending', channel'[q] = None, ~Excused(q)'
             PROVE  FALSE
  BY DEF Told
<1>0. /\ Safe /\ BridgeTypeOK /\ EndIsMarked /\ Told(q) /\ ~Excused(q) /\ Order(q)
      /\ ending' # "cleared" /\ \A s \in SameId(q) \ {q} : task'[s] \notin {"timedOut", "unsent"}
  BY ExcusedForGood DEF IInv, Safe, Excused, SameId
<1>1. ASSUME task[q] \in {"sending", "waiting"}, pending \subseteq pending', channel[q] = None
      PROVE  FALSE
  BY <1>0, <1>1 DEF Told
<1>2. ASSUME NEW r \in Request, Look(r) \/ TimesOut(r) PROVE FALSE
  BY <1>0, <1>1, <1>2 DEF Look, TimesOut, Goto, BridgeTypeOK
<1>3. ASSUME NEW r \in Request, Register(r) PROVE FALSE
  BY <1>0, <1>1, <1>3 DEF Register, Goto, BridgeTypeOK
<1>4. ASSUME NEW r \in Request, Send(r) PROVE FALSE
  <2>1. CASE io # "gone"
    BY <1>0, <1>1, <1>4, <2>1 DEF Send, Goto, BridgeTypeOK
  <2>2. CASE io = "gone"
    <3>1. q \notin SameId(r) /\ task[q] = task'[q] /\ channel[q] = None
      BY <1>0, <1>4, <2>2, SameIds DEF Send, Goto, BridgeTypeOK
    <3>2. q \notin pending
      BY <1>4, <2>2, <3>1 DEF Send, ClearById
    <3> QED
      BY <1>0, <3>1, <3>2 DEF Told
  <2> QED
    BY <2>1, <2>2
<1>5. ASSUME NEW r \in Request, Receive(r) \/ SeesClosed(r) \/ GivesUp(r) \/ Disconnect(r)
      PROVE  FALSE
  <2>1. r # q /\ task[q] = task'[q] /\ channel[q] = None
    BY <1>0, <1>5 DEF Receive, SeesClosed, GivesUp, Disconnect, Goto, BridgeTypeOK
  <2>2. q \in pending
    BY <1>0, <2>1 DEF Told
  <2>3. ~Closed(q)
    BY <2>1 DEF Closed, Ends
  <2>4. GivesUp(r) => q \notin SameId(r)
    BY <1>0, <2>1, SameIds DEF GivesUp, Goto, BridgeTypeOK
  <2> QED
    BY <1>5, <2>1, <2>2, <2>3, <2>4
    DEF Receive, SeesClosed, GivesUp, Disconnect, ClearById, ReleaseId
<1>6. ASSUME NEW r \in Request, Dispatch(r) PROVE FALSE
  <2>1. task[q] = task'[q] /\ None # r
    BY <1>6, BridgeAssumption DEF Dispatch
  <2>2. channel[q] = None /\ q \notin pending \cap SameId(r)
    BY <1>0, <1>6, <2>1 DEF Dispatch
  <2>3. q \notin pending
    BY <1>6, <2>2 DEF Dispatch
  <2> QED
    BY <1>0, <2>1, <2>2, <2>3 DEF Told
<1>7. ASSUME FailRest \/ AnswerAll PROVE FALSE
  <2>1. task[q] = task'[q] /\ q \notin pending /\ channel[q] = None
    BY <1>7, BridgeAssumption DEF FailRest, AnswerAll, FailPending
  <2> QED
    BY <1>0, <2>1 DEF Told
<1>8. CASE ShutDownPeer
  BY <1>0, <1>8 DEF ShutDownPeer
<1>9. CASE UNCHANGED <<task, pending, channel>>
  BY <1>0, <1>1, <1>9
<1>10. \/ UNCHANGED <<task, pending, channel>> \/ FailRest \/ AnswerAll \/ ShutDownPeer
       \/ \E r \in Request : \/ Look(r) \/ Register(r) \/ Send(r) \/ Receive(r) \/ SeesClosed(r)
                             \/ TimesOut(r) \/ GivesUp(r) \/ Disconnect(r) \/ Dispatch(r)
  BY DEF Next, WorkerDies, SendNote, TakeFrame, WriteFrame, StopIo, MarkDead, LookPending,
         DropReceiver, ClientTerminates, BridgeTerminates, Sweep, Remove, SetTerminated,
         Abandon, vars, requests
<1> QED
  BY <1>2, <1>3, <1>4, <1>5, <1>6, <1>7, <1>8, <1>9, <1>10

LEMMA HealthyStep == IInv /\ [Next]_vars => HealthyNotClosed'
<1> SUFFICES ASSUME IInv, [Next]_vars, NEW q \in Request, task'[q] = "closed" PROVE Excused(q)'
  BY DEF HealthyNotClosed, Excused
<1>0. Safe /\ BridgeTypeOK /\ Told(q)
  BY DEF IInv, Safe
<1>1. CASE task[q] = "closed"
  BY <1>0, <1>1, ExcusedForGood DEF IInv, HealthyNotClosed, Excused
<1>2. CASE task[q] # "closed"
  <2>1. ASSUME NEW r \in Request, Look(r) \/ Register(r) \/ Send(r) \/ Receive(r) \/ TimesOut(r)
                                  \/ GivesUp(r) \/ Disconnect(r)
        PROVE  FALSE
    BY <1>0, <1>2, <2>1
    DEF Look, Register, Send, Receive, TimesOut, GivesUp, Disconnect, Goto, BridgeTypeOK
  <2>2. ASSUME NEW r \in Request, SeesClosed(r), r # q PROVE FALSE
    BY <1>0, <1>2, <2>2 DEF SeesClosed, Goto, BridgeTypeOK
  <2>3. task' # task
    BY <1>2
  <2>4. SeesClosed(q)
    BY <2>1, <2>2, <2>3
    DEF Next, Dispatch, WorkerDies, SendNote, TakeFrame, WriteFrame, StopIo, MarkDead,
        LookPending, FailRest, DropReceiver, ClientTerminates, BridgeTerminates, Sweep, Remove,
        SetTerminated, AnswerAll, ShutDownPeer, Abandon, requests, session, vars
  <2>5. Excused(q)
    BY <1>0, <2>4 DEF SeesClosed, Told
  <2> QED
    BY <1>0, <2>5, ExcusedForGood
<1> QED
  BY <1>1, <1>2

-----------------------------------------------------------------------------
(* The theorems.                                                           *)

LEMMA Invariant == Spec => []IInv
<1>1. Init => IInv
  <2> SUFFICES ASSUME Init PROVE IInv
    OBVIOUS
  <2>0. <<>> \in Seq(Request \cup {Note}) /\ Len(<<>>) <= Room
    BY BridgeAssumption
  <2>1. BridgeTypeOK /\ EndIsMarked
    BY <2>0 DEF Init, BridgeTypeOK, EndIsMarked, Underway
  <2>2. IdsAreReleased /\ OneRegistered /\ HealthyNotClosed
    BY DEF Init, IdsAreReleased, OneRegistered, HealthyNotClosed
  <2>3. \A q \in Request : OneCopy(q) /\ Order(q) /\ Kept(q) /\ Told(q)
    BY BridgeAssumption DEF Init, Order, Kept, Told, Sent, OneCopy, InBox
  <2> QED
    BY <2>1, <2>2, <2>3 DEF IInv, Safe
<1>2. IInv /\ [Next]_vars => IInv'
  BY ShapeStep, KeptStep, ToldStep, HealthyStep DEF IInv, Safe, Shape
<1> QED
  BY <1>1, <1>2, PTL DEF Spec

\* The handlers, the registrations, the channels and the end of the session keep
\* their types.
THEOREM TypeCorrect == Spec => []BridgeTypeOK
<1>1. IInv => BridgeTypeOK
  BY DEF IInv, Safe
<1> QED
  BY <1>1, Invariant, PTL

\* An id is registered only while its request is underway, or if its client left
\* during the send (InFlightRequest::drop).
THEOREM IdsReturn == Spec => []IdsAreReleased
<1>1. IInv => IdsAreReleased
  BY DEF IInv, Safe
<1> QED
  BY <1>1, Invariant, PTL

\* Who is told "Response channel closed" raced the end of the session or shared
\* its id with a request that was cleared by id.
THEOREM ClosedHasACause == Spec => []HealthyNotClosed
<1>1. IInv => HealthyNotClosed
  BY DEF IInv
<1> QED
  BY <1>1, Invariant, PTL

\* dispatch_subprocess_line: an answer reaches its own request, as long as no
\* request of that id gave up and the session is not at its end.
THEOREM AnswersAreRight == Spec => RightAnswer
<1>1. ASSUME IInv, [Next]_vars, NEW r \in Request, NEW q \in Request,
             channel'[r] = q, channel[r] # q, q # r
      PROVE  Blurred(q)
  <2>0. BridgeTypeOK /\ OneRegistered /\ Kept(q)
    BY <1>1 DEF IInv, Safe
  <2>1. q # None /\ q # "gone"
    BY BridgeAssumption
  <2>4. channel \in [Request -> Request \cup {None, "gone"}]
    BY <2>0 DEF BridgeTypeOK
  <2>5. ASSUME NEW s \in Request,
               Look(s) \/ Register(s) \/ Send(s) \/ Receive(s) \/ SeesClosed(s) \/ TimesOut(s)
                 \/ GivesUp(s) \/ Disconnect(s)
        PROVE  channel' = channel
    BY <2>5 DEF Look, Register, Send, Receive, SeesClosed, TimesOut, GivesUp, Disconnect
  <2>6. ~(FailRest \/ AnswerAll)
    BY <1>1, <2>1, <2>4, BridgeAssumption DEF FailRest, AnswerAll, FailPending
  <2>2. PICK s \in Request : Dispatch(s)
    BY <1>1, <2>5, <2>6
    DEF Next, WorkerDies, SendNote, TakeFrame, WriteFrame, StopIo, MarkDead, LookPending,
        DropReceiver, ClientTerminates, BridgeTerminates, Sweep, Remove, SetTerminated,
        ShutDownPeer, Abandon, requests, vars
  <2>3. s = q /\ q \in asked /\ r \in pending \cap SameId(q)
    BY <1>1, <2>0, <2>2 DEF Dispatch, BridgeTypeOK
  <2> QED
    BY <1>1, <2>0, <2>3 DEF Kept, Sent, OneRegistered, SameId
<1>2. IInv /\ [Next]_vars =>
        [\A r, q \in Request :
            channel'[r] = q /\ channel[r] # q => q = r \/ Blurred(q)]_vars
  BY <1>1
<1> QED
  BY <1>2, Invariant, PTL DEF Spec, RightAnswer

-----------------------------------------------------------------------------
(* The end of the session reaches whoever waits.                           *)

\* response() waits, and nothing has come.
Awaiting(r) == task[r] = "waiting" /\ r \in pending /\ channel[r] = None

\* Somebody will still look for requests to fail: the I/O task on its way out, or
\* terminate_session, which the sweep runs on what it finds in the map.
YetToLook ==
    \/ io \in {"runs", "stopped", "marked", "asksCause"}
    \/ mapped \/ ending \in {"removed", "marked"}

\* A request that finds the session in the map, or unmarked, is in reach of its
\* end (live_session, fail_pending_requests).
InReach == mapped \/ ~terminated => YetToLook

\* Nobody looks for the last time and leaves a request behind that waited: it is
\* in reach of the session's end until it is told, or gives up by itself.
NobodyLeftBehind ==
    [][\A r \in Request : Awaiting(r) /\ YetToLook => ~Awaiting(r)' \/ YetToLook']_vars

\* SPEC R8.3.7, "told when the session dies", for any number of requests: of the
\* two that look, the I/O task and terminate_session, the later one finds every
\* request that was in reach.  What ToldOfTheEnd needs of the steps.
THEOREM EndReachesWaiters == Spec => []InReach /\ NobodyLeftBehind
<1>1. IInv => InReach
  BY DEF IInv, Safe, BridgeTypeOK, EndIsMarked, InReach, YetToLook
<1>2. ASSUME IInv, [Next]_vars, NEW r \in Request, Awaiting(r), YetToLook,
             Awaiting(r)', ~YetToLook'
      PROVE  FALSE
  <2>0. BridgeTypeOK /\ (mapped <=> ending = "no")
    BY <1>2 DEF IInv, Safe, EndIsMarked
  <2>1. r \in pending'
    BY <1>2 DEF Awaiting
  <2>2. ~(FailRest \/ AnswerAll)
    BY <2>1 DEF FailRest, AnswerAll, FailPending
  <2>3. LookPending => io' = "asksCause"
    BY <1>2 DEF LookPending, Awaiting
  <2>4. CASE UNCHANGED session
    BY <1>2, <2>4 DEF session, YetToLook
  <2>5. CASE WorkerDies \/ StopIo \/ MarkDead \/ LookPending \/ DropReceiver
    BY <1>2, <2>3, <2>5
    DEF WorkerDies, SendNote, TakeFrame, WriteFrame, StopIo, MarkDead, LookPending,
        DropReceiver, YetToLook
  <2>6. CASE ClientTerminates \/ BridgeTerminates \/ Sweep
    BY <1>2, <2>6 DEF ClientTerminates, BridgeTerminates, Sweep, Remove, YetToLook
  <2>7. CASE SetTerminated \/ ShutDownPeer \/ Abandon
    BY <1>2, <2>0, <2>7 DEF SetTerminated, ShutDownPeer, Abandon, YetToLook
  <2>9. CASE SendNote \/ TakeFrame \/ WriteFrame
    BY <1>2, <2>4, <2>9 DEF SendNote, TakeFrame, WriteFrame
  <2>8. \A q \in Request :
          Look(q) \/ Register(q) \/ Send(q) \/ Receive(q) \/ SeesClosed(q) \/ TimesOut(q)
            \/ GivesUp(q) \/ Disconnect(q) \/ Dispatch(q) => UNCHANGED session
    BY DEF Look, Register, Send, Receive, SeesClosed, TimesOut, GivesUp, Disconnect, Dispatch
  <2> QED
    BY <1>2, <2>2, <2>4, <2>5, <2>6, <2>7, <2>8, <2>9 DEF Next, vars, session
<1>3. IInv /\ [Next]_vars =>
        [\A r \in Request : Awaiting(r) /\ YetToLook => ~Awaiting(r)' \/ YetToLook']_vars
  BY <1>2
<1> QED
  BY <1>1, <1>3, Invariant, PTL DEF Spec, NobodyLeftBehind
=============================================================================
