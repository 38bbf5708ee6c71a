----------------------- MODULE BridgeHandshakeProofs -----------------------
(***************************************************************************)
(* Theorems about BridgeHandshake, for any number of streams, roots and    *)
(* rounds and any of the ways to treat empty roots.                        *)
(***************************************************************************)
EXTENDS BridgeHandshake, SequenceTheorems, TLAPS

\* What is on its way to the worker, and from it.
Down == [m : {"initialized", "list_changed"}] \cup [m : {"answer"}, n : Round, a : Answers]
Up   == [m : {"roots/list"}, n : Round] \cup [m : {"configured"}, scope : Scope] \cup [m : {"failed"}]

Typed == HandshakeTypeOK /\ down \in Seq(Down) /\ up \in Seq(Up)

\* A worker that asks has committed nothing, and what it reports it committed.
Reported ==
    /\ asking # 0 => committed = None
    /\ \A i \in DOMAIN up : up[i].m = "configured" => up[i].scope = committed /\ committed # None

\* initialized is with the worker or on its way to it.
Announced == greeted \/ \E j \in DOMAIN down : down[j].m = "initialized"

\* Nobody speaks of roots before initialized was posted.
Posted ==
    /\ stage["initialized"] # "none" => Announced
    /\ Initialized => stage["initialized"] # "none"
    /\ \A h \in Handler : stage[h] = "sends" => Initialized
    /\ changes = "forwards" => Initialized

IInv == Typed /\ Reported /\ ActiveScopeIsCommitted /\ Posted /\ InitializedFirst

-----------------------------------------------------------------------------
LEMMA Appended ==
    ASSUME NEW S, NEW s \in Seq(S), NEW e \in S
    PROVE  /\ Append(s, e) \in Seq(S)
           /\ DOMAIN s = 1 .. Len(s) /\ Len(s) \in Nat
           /\ DOMAIN Append(s, e) = 1 .. Len(s) + 1
           /\ \A i \in 1 .. Len(s) : Append(s, e)[i] = s[i]
           /\ Append(s, e)[Len(s) + 1] = e
OBVIOUS

LEMMA Shortened ==
    ASSUME NEW S, NEW s \in Seq(S), s # <<>>
    PROVE  /\ Head(s) \in S /\ Head(s) = s[1] /\ 1 \in DOMAIN s
           /\ Tail(s) \in Seq(S)
           /\ DOMAIN s = 1 .. Len(s) /\ Len(s) \in Nat
           /\ DOMAIN Tail(s) = 1 .. Len(s) - 1
           /\ \A i \in 1 .. Len(s) - 1 : Tail(s)[i] = s[i + 1]
OBVIOUS

LEMMA Messages ==
    /\ [m |-> "initialized"] \in Down /\ [m |-> "list_changed"] \in Down
    /\ \A n \in Round, a \in Answers : [m |-> "answer", n |-> n, a |-> a] \in Down
    /\ \A n \in Round : [m |-> "roots/list", n |-> n] \in Up
    /\ \A s \in Scope : [m |-> "configured", scope |-> s] \in Up
    /\ [m |-> "failed"] \in Up
    /\ \A d \in Down : d.m = "answer" => d.n \in Round /\ d.a \in Answers
    /\ \A u \in Up : /\ u.m = "roots/list" => u.n \in Round
                     /\ u.m = "configured" => u.scope \in Scope
BY DEF Down, Up

LEMMA Scopes ==
    /\ Roots \subseteq Scope /\ "default" \in Scope /\ "container" \in Scope /\ None \notin Scope
    /\ Seed \in Scope \cup {None}
    /\ mode = "UseDefaultScope" => Seed = "default"
<1>1. Roots \subseteq Scope /\ "default" \in Scope /\ "container" \in Scope /\ None \notin Scope
  BY HandshakeAssumption DEF Scope
<1>2. CASE mode = "UseDefaultScope"
  <2>1. mode # "AwaitWorker"
    BY <1>2
  <2>2. Seed = "default"
    BY <1>2, <2>1 DEF Seed
  <2> QED
    BY <1>1, <2>2
<1>3. CASE mode = "AwaitWorker"
  <2>1. mode # "UseDefaultScope"
    BY <1>3
  <2>2. Seed = "container"
    BY <1>3, <2>1 DEF Seed
  <2> QED
    BY <1>1, <2>1, <2>2
<1>4. CASE mode # "UseDefaultScope" /\ mode # "AwaitWorker"
  <2>1. Seed = None
    BY <1>4 DEF Seed
  <2> QED
    BY <1>1, <1>4, <2>1
<1> QED
  BY <1>1, <1>2, <1>3, <1>4

-----------------------------------------------------------------------------
(* Types.                                                                  *)

LEMMA SandboxTyped ==
    ASSUME HandshakeTypeOK, NEW scope \in Scope, Lock(scope) \/ ToFailed \/ ToActive(scope)
    PROVE  sandbox' \in [st : {"AwaitingRoots", "Configuring"} \cup Settled, scope : Scope \cup {None}]
BY DEF HandshakeTypeOK, Lock, ToFailed, ToActive, Settled

\* What the worker does when a round is over, or starts.
LEMMA WorkerTyped ==
    ASSUME Typed, \/ Configure
                  \/ \E a \in Answers : Conclude(a)
    PROVE  /\ asking' \in 0 .. MaxRounds /\ rounds' \in 0 .. MaxRounds
           /\ committed' \in Scope \cup {None} /\ up' \in Seq(Up)
<1>0. /\ HandshakeTypeOK /\ up \in Seq(Up)
      /\ asking \in 0 .. MaxRounds /\ rounds \in 0 .. MaxRounds /\ committed \in Scope \cup {None}
      /\ MaxRounds \in Nat /\ Round = 1 .. MaxRounds
  BY HandshakeAssumption DEF Typed, HandshakeTypeOK, Round
<1>1. ASSUME NEW s \in Scope, Commit(s) PROVE committed' \in Scope /\ up' \in Seq(Up)
  <2>1. \A u \in Up : Append(up, u) \in Seq(Up)
    BY <1>0
  <2>2. [m |-> "configured", scope |-> s] \in Up /\ [m |-> "failed"] \in Up
    BY Messages
  <2> QED
    BY <1>1, <2>1, <2>2 DEF Commit
<1>2. ASSUME rounds < MaxRounds, rounds' = rounds + 1,
             up' = Append(up, [m |-> "roots/list", n |-> rounds + 1])
      PROVE  rounds' \in 0 .. MaxRounds /\ rounds + 1 \in 0 .. MaxRounds /\ up' \in Seq(Up)
  <2>1. rounds + 1 \in Round
    BY <1>0, <1>2
  <2> QED
    BY <1>0, <1>2, <2>1, Messages
<1>3. ASSUME up' = Append(up, [m |-> "failed"]) PROVE up' \in Seq(Up)
  BY <1>0, <1>3, Messages
<1>4. CASE Configure
  BY <1>0, <1>1, <1>2, <1>4, Scopes DEF Configure
<1>5. ASSUME NEW a \in Answers, Conclude(a)
      PROVE  /\ asking' \in 0 .. MaxRounds /\ rounds' \in 0 .. MaxRounds
             /\ committed' \in Scope \cup {None} /\ up' \in Seq(Up)
  <2>1. asking' = 0 /\ rounds' = rounds
    BY <1>5 DEF Conclude
  <2>2. \/ \E s \in Scope : Commit(s)
        \/ up' = Append(up, [m |-> "failed"]) /\ committed' = committed
        \/ up' = up /\ committed' = committed
    BY <1>5, Scopes DEF Conclude
  <2> QED
    BY <1>0, <1>1, <1>3, <2>1, <2>2
<1> QED
  BY <1>4, <1>5

\* The steps of the bridge's handlers and of the clock, which send nothing.
Quiet ==
    \/ \E g \in Stream : OpenStream(g) \/ CloseStream(g)
    \/ \E h \in Handler : Mark(h) \/ AutoLock(h)
    \/ \E n \in Round, a \in Answers : ClientAnswers(n, a)
    \/ ClientChangesRoots \/ LookInitialized \/ Park \/ WaitTimesOut
    \/ TimePasses \/ FindStale \/ Reap

LEMMA Steps ==
    [Next]_vars => \/ Quiet \/ PostInitialized \/ ForwardChange \/ Hear \/ WorkerHears \/ WorkerGivesUp
                   \/ \E h \in Handler : SendChanged(h)
                   \/ \E n \in Round : ForwardAnswer(n)
                   \/ UNCHANGED vars
BY DEF Next, Quiet

LEMMA QuietSends == Quiet => UNCHANGED <<down, up, worker>>
BY DEF Quiet, OpenStream, CloseStream, Mark, AutoLock, ClientAnswers, ClientChangesRoots,
       LookInitialized, Park, WaitTimesOut, TimePasses, FindStale, Reap

LEMMA TypedStep == Typed /\ [Next]_vars => Typed'
<1> SUFFICES ASSUME Typed, [Next]_vars PROVE Typed'
  OBVIOUS
<1>0. HandshakeTypeOK /\ down \in Seq(Down) /\ up \in Seq(Up) /\ 0 \in 0 .. MaxRounds
  BY HandshakeAssumption DEF Typed
<1>1. ASSUME NEW g \in Stream, OpenStream(g) \/ CloseStream(g) PROVE Typed'
  BY <1>0, <1>1 DEF Typed, OpenStream, CloseStream, At, HandshakeTypeOK, Handler, worker
<1>2. ASSUME NEW h \in Handler, Mark(h) PROVE Typed'
  BY <1>0, <1>2 DEF Typed, Mark, Partial, Wakes, At, HandshakeTypeOK, worker
<1>3. ASSUME NEW h \in Handler, AutoLock(h) PROVE Typed'
  <2>1. sandbox' \in [st : {"AwaitingRoots", "Configuring"} \cup Settled, scope : Scope \cup {None}]
    BY <1>0, <1>3, SandboxTyped, Scopes DEF AutoLock, HandshakeTypeOK
  <2> QED
    BY <1>0, <1>3, <2>1 DEF Typed, AutoLock, At, HandshakeTypeOK, worker
<1>4. ASSUME NEW n \in Round, NEW a \in Answers, ClientAnswers(n, a) PROVE Typed'
  <2>1. sandbox' \in [st : {"AwaitingRoots", "Configuring"} \cup Settled, scope : Scope \cup {None}]
    BY <1>0, <1>4, SandboxTyped, Scopes DEF ClientAnswers, LockFromRoots, HandshakeTypeOK
  <2> QED
    BY <1>0, <1>4, <2>1 DEF Typed, ClientAnswers, HandshakeTypeOK, worker
<1>5. CASE ClientChangesRoots \/ LookInitialized \/ Park \/ WaitTimesOut \/ TimePasses \/ FindStale
  BY <1>0, <1>5
  DEF Typed, ClientChangesRoots, LookInitialized, Park, WaitTimesOut, TimePasses, FindStale,
      HandshakeTypeOK, worker
<1>6. CASE Reap
  BY <1>0, <1>6 DEF Typed, Reap, HandshakeTypeOK, worker, Settled
<1>7. CASE PostInitialized
  BY <1>0, <1>7, Messages DEF Typed, PostInitialized, At, HandshakeTypeOK, Handler, worker
<1>8. ASSUME NEW h \in Handler, SendChanged(h) PROVE Typed'
  BY <1>0, <1>8, Messages DEF Typed, SendChanged, At, HandshakeTypeOK, worker
<1>9. CASE ForwardChange
  BY <1>0, <1>9, Messages DEF Typed, ForwardChange, HandshakeTypeOK, worker
<1>10. ASSUME NEW n \in Round, ForwardAnswer(n) PROVE Typed'
  <2>1. reply[n] \in Answers
    BY <1>0, <1>10 DEF ForwardAnswer, HandshakeTypeOK
  <2> QED
    BY <1>0, <1>10, <2>1, Messages DEF Typed, ForwardAnswer, HandshakeTypeOK, worker
<1>11. CASE Hear
  <2>1. Head(up) \in Up /\ up' \in Seq(Up)
    BY <1>0, <1>11, Shortened DEF Hear
  <2>2. /\ sandbox' \in [st : {"AwaitingRoots", "Configuring"} \cup Settled, scope : Scope \cup {None}]
        /\ asked' \subseteq Round /\ seen' \subseteq Round
    BY <1>0, <1>11, <2>1, SandboxTyped, Messages, Scopes DEF Hear, HandshakeTypeOK
  <2> QED
    BY <1>0, <1>11, <2>1, <2>2 DEF Typed, Hear, HandshakeTypeOK, worker
<1>12. CASE WorkerHears
  <2>1. Head(down) \in Down /\ down' \in Seq(Down)
    BY <1>0, <1>12, Shortened DEF WorkerHears
  <2>2. /\ asking' \in 0 .. MaxRounds /\ rounds' \in 0 .. MaxRounds
        /\ committed' \in Scope \cup {None} /\ up' \in Seq(Up) /\ greeted' \in BOOLEAN
    BY <1>0, <1>12, <2>1, WorkerTyped, Messages DEF WorkerHears, HandshakeTypeOK, worker
  <2> QED
    BY <1>0, <1>12, <2>1, <2>2 DEF Typed, WorkerHears, HandshakeTypeOK, bridge
<1>13. CASE WorkerGivesUp
  <2>1. /\ asking' \in 0 .. MaxRounds /\ rounds' \in 0 .. MaxRounds
        /\ committed' \in Scope \cup {None} /\ up' \in Seq(Up)
    BY <1>13, WorkerTyped DEF WorkerGivesUp, Answers
  <2> QED
    BY <1>0, <1>13, <2>1 DEF Typed, WorkerGivesUp, HandshakeTypeOK, bridge
<1>14. CASE UNCHANGED vars
  BY <1>0, <1>14 DEF Typed, vars, HandshakeTypeOK
<1> QED
  BY <1>1, <1>2, <1>3, <1>4, <1>5, <1>6, <1>7, <1>8, <1>9, <1>10, <1>11, <1>12, <1>13, <1>14, Steps
  DEF Quiet

-----------------------------------------------------------------------------
(* The scope: committed once, and what the bridge shows is what is committed. *)

LEMMA CommitStep == Typed /\ Reported /\ [Next]_vars => (committed # None => committed' = committed)
<1> SUFFICES ASSUME Typed, Reported, [Next]_vars, committed # None PROVE committed' = committed
  OBVIOUS
<1>1. asking = 0
  BY DEF Reported
<1>2. CASE WorkerHears
  <2>1. Head(down).m = "answer" => Head(down).n # 0
    <3>1. Head(down) \in Down
      BY <1>2, Shortened DEF WorkerHears, Typed
    <3> QED
      BY <3>1, Messages, HandshakeAssumption DEF Round
  <2>2. CASE Configure
    BY <2>2 DEF Configure
  <2>3. CASE UNCHANGED committed
    BY <2>3
  <2> QED
    BY <1>1, <1>2, <2>1, <2>2, <2>3 DEF WorkerHears, worker
<1> QED
  BY <1>1, <1>2, Steps, QuietSends
  DEF PostInitialized, ForwardChange, Hear, WorkerGivesUp, SendChanged, ForwardAnswer, vars, worker

\* What the worker does keeps its reports true.
LEMMA WorkerReports ==
    ASSUME Typed, Reported, Configure \/ (asking # 0 /\ \E a \in Answers : Conclude(a))
    PROVE  Reported'
<1>0. /\ up \in Seq(Up) /\ committed \in Scope \cup {None} /\ rounds \in Nat
      /\ \A s \in Scope : s # None
  BY HandshakeAssumption, Scopes DEF Typed, HandshakeTypeOK
<1>1. ASSUME NEW s \in Scope, Commit(s), committed = None, asking' = 0 PROVE Reported'
  <2>0. committed' = s /\ s # None
    BY <1>0, <1>1 DEF Commit
  <2>1. CASE up' = Append(up, [m |-> "configured", scope |-> s])
    <3> DEFINE e == [m |-> "configured", scope |-> s]
    <3>1. e \in Up /\ e.scope = s
      BY Messages
    <3>2. /\ DOMAIN up = 1 .. Len(up) /\ Len(up) \in Nat /\ DOMAIN up' = 1 .. Len(up) + 1
          /\ \A i \in 1 .. Len(up) : up'[i] = up[i]
          /\ up'[Len(up) + 1] = e
      BY <1>0, <2>1, <3>1, Appended
    <3>3. \A i \in DOMAIN up : up[i].m # "configured"
      BY <1>1 DEF Reported
    <3> HIDE DEF e
    <3>4. \A i \in DOMAIN up' : up'[i].m = "configured" => up'[i].scope = s
      BY <3>1, <3>2, <3>3
    <3> QED
      BY <1>1, <2>0, <3>4 DEF Reported
  <2>2. CASE up' = Append(up, [m |-> "failed"])
    <3> DEFINE e == [m |-> "failed"]
    <3>1. e \in Up /\ e.m # "configured"
      BY Messages
    <3>2. /\ DOMAIN up = 1 .. Len(up) /\ Len(up) \in Nat /\ DOMAIN up' = 1 .. Len(up) + 1
          /\ \A i \in 1 .. Len(up) : up'[i] = up[i]
          /\ up'[Len(up) + 1] = e
      BY <1>0, <2>2, <3>1, Appended
    <3>3. \A i \in DOMAIN up : up[i].m # "configured"
      BY <1>1 DEF Reported
    <3> HIDE DEF e
    <3>4. \A i \in DOMAIN up' : up'[i].m # "configured"
      BY <3>1, <3>2, <3>3
    <3> QED
      BY <1>1, <2>0, <3>4 DEF Reported
  <2> QED
    BY <1>1, <2>1, <2>2 DEF Commit
<1>2. ASSUME NEW e \in Up, e.m # "configured", up' = Append(up, e), committed' = committed,
             asking' # 0 => committed = None
      PROVE  Reported'
  <2>1. /\ DOMAIN up = 1 .. Len(up) /\ Len(up) \in Nat /\ DOMAIN up' = 1 .. Len(up) + 1
        /\ \A i \in 1 .. Len(up) : up'[i] = up[i]
        /\ up'[Len(up) + 1] = e
    BY <1>0, <1>2, Appended
  <2>2. \A i \in DOMAIN up' : up'[i].m = "configured" => i \in DOMAIN up /\ up'[i] = up[i]
    BY <1>2, <2>1
  <2> QED
    BY <1>2, <2>2 DEF Reported
<1>3. CASE Configure
  <2>1. CASE asking = 0 /\ committed = None /\ mode = "UseDefaultScope" /\ Commit(Seed) /\ UNCHANGED <<asking, rounds>>
    BY <1>1, <2>1, Scopes
  <2>2. CASE /\ asking = 0 /\ committed = None /\ rounds < MaxRounds
             /\ up' = Append(up, [m |-> "roots/list", n |-> rounds + 1]) /\ UNCHANGED committed
    <3>1. rounds + 1 \in Round
      BY <1>0, <2>2, HandshakeAssumption DEF Round
    <3>2. [m |-> "roots/list", n |-> rounds + 1] \in Up
      BY <3>1, Messages
    <3> QED
      BY <1>2, <2>2, <3>2
  <2>3. CASE UNCHANGED <<up, asking, rounds, committed>>
    BY <2>3 DEF Reported
  <2> QED
    BY <1>3, <2>1, <2>2, <2>3 DEF Configure
<1>4. ASSUME NEW a \in Answers, asking # 0, Conclude(a) PROVE Reported'
  <2>1. asking' = 0 /\ committed = None
    BY <1>4 DEF Conclude, Reported
  <2>2. CASE \E s \in Scope : Commit(s)
    BY <1>1, <2>1, <2>2
  <2>3. CASE up' = Append(up, [m |-> "failed"]) /\ committed' = committed
    BY <1>2, <2>1, <2>3, Messages
  <2>4. CASE up' = up /\ committed' = committed
    BY <2>1, <2>4 DEF Reported
  <2> QED
    BY <1>4, <2>2, <2>3, <2>4, Scopes DEF Conclude
<1> QED
  BY <1>3, <1>4

LEMMA ReportedStep == Typed /\ Reported /\ [Next]_vars => Reported'
<1> SUFFICES ASSUME Typed, Reported, [Next]_vars PROVE Reported'
  OBVIOUS
<1>0. up \in Seq(Up) /\ down \in Seq(Down)
  BY DEF Typed
<1>1. CASE UNCHANGED <<up, worker>>
  BY <1>1 DEF Reported, worker
<1>2. CASE Hear
  <2>1. /\ up' = Tail(up) /\ UNCHANGED worker
        /\ DOMAIN up = 1 .. Len(up) /\ Len(up) \in Nat /\ DOMAIN up' = 1 .. Len(up) - 1
        /\ \A i \in 1 .. Len(up) - 1 : up'[i] = up[i + 1]
    BY <1>0, <1>2, Shortened DEF Hear
  <2>2. \A i \in DOMAIN up' : i + 1 \in DOMAIN up /\ up'[i] = up[i + 1]
    BY <2>1
  <2> QED
    BY <2>1, <2>2 DEF Reported, worker
<1>3. CASE WorkerHears
  <2>1. Head(down) \in Down
    BY <1>0, <1>3, Shortened DEF WorkerHears
  <2>2. CASE Configure
    BY <2>2, WorkerReports
  <2>3. ASSUME Head(down).m = "answer", Head(down).n = asking, Conclude(Head(down).a) PROVE Reported'
    <3>1. asking # 0 /\ Head(down).a \in Answers
      BY <2>1, <2>3, Messages, HandshakeAssumption DEF Round
    <3> QED
      BY <2>3, <3>1, WorkerReports
  <2>4. CASE UNCHANGED <<up, asking, committed>>
    BY <2>4 DEF Reported
  <2> QED
    BY <1>3, <2>2, <2>3, <2>4 DEF WorkerHears, worker
<1>4. CASE WorkerGivesUp
  BY <1>4, WorkerReports DEF WorkerGivesUp, Answers
<1> QED
  BY <1>1, <1>2, <1>3, <1>4, Steps, QuietSends
  DEF PostInitialized, ForwardChange, SendChanged, ForwardAnswer, vars, worker

LEMMA ActiveStep == Typed /\ Reported /\ ActiveScopeIsCommitted /\ [Next]_vars => ActiveScopeIsCommitted'
<1> SUFFICES ASSUME Typed, Reported, ActiveScopeIsCommitted, [Next]_vars PROVE ActiveScopeIsCommitted'
  OBVIOUS
<1>0. /\ up \in Seq(Up)
      /\ sandbox \in [st : {"AwaitingRoots", "Configuring"} \cup Settled, scope : Scope \cup {None}]
  BY DEF Typed, HandshakeTypeOK
<1>1. committed # None => committed' = committed
  BY CommitStep
<1>2. CASE sandbox' = sandbox \/ sandbox'.st # "Active"
  BY <1>1, <1>2 DEF ActiveScopeIsCommitted
<1>3. ASSUME NEW s, Lock(s) PROVE sandbox' = sandbox \/ sandbox'.st # "Active"
  BY <1>3 DEF Lock
<1>4. CASE ToFailed
  BY <1>2, <1>4 DEF ToFailed
<1>5. ASSUME NEW h \in Handler, AutoLock(h) PROVE ActiveScopeIsCommitted'
  BY <1>2, <1>3, <1>5 DEF AutoLock
<1>6. ASSUME NEW n \in Round, NEW a \in Answers, ClientAnswers(n, a) PROVE ActiveScopeIsCommitted'
  BY <1>2, <1>3, <1>4, <1>6 DEF ClientAnswers, LockFromRoots
<1>7. CASE Reap
  BY <1>2, <1>7 DEF Reap
<1>8. CASE Hear
  <2>1. Head(up) = up[1] /\ 1 \in DOMAIN up
    BY <1>0, <1>8, Shortened DEF Hear
  <2>2. CASE up[1].m = "configured" /\ ToActive(up[1].scope)
    <3>1. up[1].scope = committed /\ committed # None
      BY <2>1, <2>2 DEF Reported
    <3>2. CASE sandbox' = sandbox
      BY <1>2, <3>2
    <3>3. CASE sandbox' = [st |-> "Active", scope |-> up[1].scope]
      BY <1>1, <3>1, <3>3 DEF ActiveScopeIsCommitted
    <3> QED
      BY <2>2, <3>2, <3>3 DEF ToActive
  <2> QED
    BY <1>2, <1>4, <1>8, <2>1, <2>2 DEF Hear
<1>9. CASE UNCHANGED sandbox
  BY <1>2, <1>9
<1> QED
  BY <1>5, <1>6, <1>7, <1>8, <1>9, Steps
  DEF Quiet, OpenStream, CloseStream, Mark, ClientChangesRoots, LookInitialized, Park, WaitTimesOut,
      TimePasses, FindStale, PostInitialized, ForwardChange, SendChanged, ForwardAnswer,
      WorkerHears, WorkerGivesUp, bridge, vars

-----------------------------------------------------------------------------
(* The order of initialized and list_changed.                              *)

\* What is appended disturbs nothing, and what was announced stays so.
LEMMA Sent ==
    ASSUME Typed, NEW e \in Down, down' = Append(down, e), UNCHANGED greeted
    PROVE  /\ Announced => Announced'
           /\ e.m = "initialized" => Announced'
           /\ InitializedFirst /\ (e.m = "list_changed" => Announced) => InitializedFirst'
<1>1. /\ DOMAIN down = 1 .. Len(down) /\ Len(down) \in Nat /\ DOMAIN down' = 1 .. Len(down) + 1
      /\ \A i \in 1 .. Len(down) : down'[i] = down[i]
      /\ down'[Len(down) + 1] = e
  BY Appended DEF Typed
<1>2. Announced => Announced'
  BY <1>1 DEF Announced
<1>3. e.m = "initialized" => Announced'
  BY <1>1 DEF Announced
<1>4. ASSUME InitializedFirst, e.m = "list_changed" => Announced, NEW i \in DOMAIN down',
             down'[i].m = "list_changed"
      PROVE  greeted \/ \E j \in 1 .. i - 1 : down'[j].m = "initialized"
  <2>1. CASE i \in DOMAIN down
    <3>1. greeted \/ \E j \in 1 .. i - 1 : down[j].m = "initialized"
      BY <1>1, <1>4, <2>1 DEF InitializedFirst
    <3> QED
      BY <1>1, <2>1, <3>1
  <2>2. CASE i = Len(down) + 1
    <3>1. Announced
      BY <1>1, <1>4, <2>2
    <3> QED
      BY <1>1, <2>2, <3>1 DEF Announced
  <2> QED
    BY <1>1, <2>1, <2>2
<1> QED
  BY <1>2, <1>3, <1>4 DEF InitializedFirst

\* The worker takes the head of its queue, and remembers initialized.
LEMMA Taken ==
    ASSUME Typed, WorkerHears
    PROVE  /\ Announced => Announced'
           /\ InitializedFirst => InitializedFirst'
<1>0. down \in Seq(Down) /\ down # <<>>
  BY DEF Typed, WorkerHears
<1>1. /\ DOMAIN down = 1 .. Len(down) /\ Len(down) \in Nat /\ DOMAIN down' = 1 .. Len(down) - 1
      /\ \A i \in 1 .. Len(down) - 1 : down'[i] = down[i + 1]
      /\ Head(down) = down[1]
  BY <1>0, Shortened DEF WorkerHears
<1>2. greeted' = greeted \/ greeted' = TRUE
  BY DEF WorkerHears, worker
<1>3. down[1].m = "initialized" => greeted' = TRUE
  BY <1>1 DEF WorkerHears
<1>4. Announced => Announced'
  <2> SUFFICES ASSUME Announced, ~greeted' PROVE \E j \in DOMAIN down' : down'[j].m = "initialized"
    BY DEF Announced
  <2>1. PICK j \in DOMAIN down : down[j].m = "initialized"
    BY <1>2 DEF Announced
  <2>2. j # 1
    BY <1>3, <2>1
  <2>3. j - 1 \in DOMAIN down' /\ down'[j - 1] = down[j]
    BY <1>1, <2>2
  <2> QED
    BY <2>1, <2>3
<1>5. ASSUME InitializedFirst, NEW i \in DOMAIN down', down'[i].m = "list_changed", ~greeted'
      PROVE  \E j \in 1 .. i - 1 : down'[j].m = "initialized"
  <2>1. i + 1 \in DOMAIN down /\ down[i + 1].m = "list_changed" /\ i \in Nat /\ i <= Len(down) - 1
    BY <1>1, <1>5
  <2>2. PICK j \in 1 .. (i + 1) - 1 : down[j].m = "initialized"
    BY <1>2, <1>5, <2>1 DEF InitializedFirst
  <2>3. j # 1
    BY <1>3, <1>5, <2>2
  <2>4. j - 1 \in 1 .. i - 1 /\ j - 1 \in 1 .. Len(down) - 1 /\ (j - 1) + 1 = j
    BY <1>1, <2>1, <2>2, <2>3
  <2>5. down'[j - 1] = down[j]
    BY <1>1, <2>4
  <2> QED
    BY <2>2, <2>4, <2>5
<1> QED
  BY <1>4, <1>5 DEF InitializedFirst

\* Only the bridge's handlers write of initialized; nothing takes it back.
LEMMA PostedStep == Typed /\ Posted /\ InitializedFirst /\ [Next]_vars => Posted' /\ InitializedFirst'
<1> SUFFICES ASSUME Typed, Posted, InitializedFirst, [Next]_vars PROVE Posted' /\ InitializedFirst'
  OBVIOUS
<1>0. /\ stage \in [Handler -> {"none", "entered", "sends", "locks", "done"}]
      /\ "initialized" \in Handler /\ "initialized" \notin Stream /\ Stream \subseteq Handler
      /\ hs \in {"AwaitingBoth", "AwaitingSseOnly", "AwaitingMcpOnly", "RootsRequested"}
  BY HandshakeAssumption DEF Typed, HandshakeTypeOK, Handler
<1>1. CASE PostInitialized
  <2>1. Announced' /\ InitializedFirst'
    BY <1>1, Sent, Messages DEF PostInitialized, worker
  <2>2. \A h \in Handler : stage'[h] = "sends" => stage[h] = "sends"
    BY <1>0, <1>1 DEF PostInitialized, At
  <2>3. stage'["initialized"] # "none" /\ Initialized' = Initialized /\ changes' = changes
    BY <1>0, <1>1 DEF PostInitialized, At, Initialized
  <2> QED
    BY <2>1, <2>2, <2>3 DEF Posted
<1>2. ASSUME NEW h \in Handler, Mark(h) PROVE Posted' /\ InitializedFirst'
  <2>1. UNCHANGED <<down, greeted, changes>> /\ stage[h] = "entered"
    BY <1>2 DEF Mark, worker
  <2>2. Announced' = Announced /\ InitializedFirst'
    BY <2>1 DEF Announced, InitializedFirst
  <2>3. Initialized => Initialized'
    BY <1>0, <1>2 DEF Mark, Partial, Completing, Initialized
  <2>4. Initialized' => Initialized \/ h = "initialized" \/ hs = "AwaitingMcpOnly"
    BY <1>0, <1>2 DEF Mark, Partial, Completing, Initialized
  <2>5. \A g \in Handler : stage'[g] = "sends" => stage[g] = "sends" \/ Initialized'
    BY <1>0, <1>2 DEF Mark, At, Initialized
  <2>6. (stage'["initialized"] = "none") = (stage["initialized"] = "none")
    BY <1>0, <1>2 DEF Mark, At
  <2>7. Initialized' => stage["initialized"] # "none"
    BY <2>1, <2>4 DEF Posted, Initialized
  <2> QED
    BY <2>1, <2>2, <2>3, <2>5, <2>6, <2>7 DEF Posted
<1>3. ASSUME NEW h \in Handler, SendChanged(h) PROVE Posted' /\ InitializedFirst'
  <2>1. Announced
    BY <1>3 DEF SendChanged, Posted
  <2>2. Announced' /\ InitializedFirst'
    BY <1>3, <2>1, Sent, Messages DEF SendChanged, worker
  <2>3. /\ \A g \in Handler : stage'[g] = "sends" => stage[g] = "sends"
        /\ (stage'["initialized"] = "none") = (stage["initialized"] = "none")
        /\ Initialized' = Initialized /\ changes' = changes
    BY <1>0, <1>3 DEF SendChanged, At, Initialized
  <2> QED
    BY <2>2, <2>3 DEF Posted
<1>4. CASE ForwardChange
  <2>1. Announced
    BY <1>4 DEF ForwardChange, Posted
  <2>2. Announced' /\ InitializedFirst'
    BY <1>4, <2>1, Sent, Messages DEF ForwardChange, worker
  <2> QED
    BY <1>4, <2>2 DEF ForwardChange, Posted, Initialized
<1>5. ASSUME NEW n \in Round, ForwardAnswer(n) PROVE Posted' /\ InitializedFirst'
  <2>1. CASE UNCHANGED <<down, greeted>>
    BY <1>5, <2>1 DEF ForwardAnswer, Posted, Announced, InitializedFirst, Initialized
  <2>2. CASE down' = Append(down, [m |-> "answer", n |-> n, a |-> reply[n]]) /\ UNCHANGED greeted
    <3>1. reply[n] \in Answers
      BY <1>5 DEF ForwardAnswer, Typed, HandshakeTypeOK
    <3> DEFINE e == [m |-> "answer", n |-> n, a |-> reply[n]]
    <3>2. e \in Down /\ e.m # "list_changed"
      BY <3>1, Messages
    <3> HIDE DEF e
    <3>3. (Announced => Announced') /\ InitializedFirst'
      BY <2>2, <3>2, Sent DEF e
    <3> QED
      BY <1>5, <3>3 DEF ForwardAnswer, Posted, Initialized
  <2> QED
    BY <1>5, <2>1, <2>2 DEF ForwardAnswer, worker
<1>6. CASE WorkerHears
  BY <1>6, Taken DEF WorkerHears, bridge, Posted, Initialized
<1>7. ASSUME UNCHANGED <<down, greeted, hs, changes>>,
             \A h \in Handler : stage'[h] = "sends" => stage[h] = "sends",
             (stage'["initialized"] = "none") = (stage["initialized"] = "none")
      PROVE  Posted' /\ InitializedFirst'
  BY <1>7 DEF Posted, Announced, InitializedFirst, Initialized
<1>8. ASSUME NEW g \in Stream, OpenStream(g) \/ CloseStream(g) PROVE Posted' /\ InitializedFirst'
  BY <1>0, <1>7, <1>8 DEF OpenStream, CloseStream, At, worker
<1>9. ASSUME NEW h \in Handler, AutoLock(h) PROVE Posted' /\ InitializedFirst'
  BY <1>0, <1>7, <1>9 DEF AutoLock, At, worker
<1>10. CASE ClientChangesRoots
  BY <1>10 DEF ClientChangesRoots, worker, Posted, Announced, InitializedFirst, Initialized
<1>11. ASSUME UNCHANGED <<down, greeted, hs, changes, stage>> PROVE Posted' /\ InitializedFirst'
  BY <1>7, <1>11
<1>12. ASSUME NEW n \in Round, NEW a \in Answers, ClientAnswers(n, a) PROVE Posted' /\ InitializedFirst'
  BY <1>11, <1>12 DEF ClientAnswers, worker
<1>13. CASE LookInitialized \/ Park \/ WaitTimesOut \/ TimePasses \/ FindStale \/ Reap
  BY <1>11, <1>13 DEF LookInitialized, Park, WaitTimesOut, TimePasses, FindStale, Reap, worker
<1>14. CASE Hear \/ WorkerGivesUp \/ UNCHANGED vars
  BY <1>11, <1>14 DEF Hear, WorkerGivesUp, vars, worker, bridge
<1> QED
  BY <1>1, <1>2, <1>3, <1>4, <1>5, <1>6, <1>8, <1>9, <1>10, <1>12, <1>13, <1>14, Steps DEF Quiet

-----------------------------------------------------------------------------
(* The theorems.                                                           *)

LEMMA InitInv == Init => IInv
<1> SUFFICES ASSUME Init PROVE IInv
  OBVIOUS
<1>1. HandshakeTypeOK
  <2>1. asking \in 0 .. MaxRounds /\ rounds \in 0 .. MaxRounds
    <3>1. asking = 0 /\ rounds = 0
      BY DEF Init
    <3>2. 0 \in 0 .. MaxRounds
      BY HandshakeAssumption
    <3> QED
      BY <3>1, <3>2
  <2>2. stage \in [Handler -> {"none", "entered", "sends", "locks", "done"}]
    BY DEF Init
  <2>3. reply \in [Round -> Answers \cup {None}]
    BY DEF Init
  <2>4. sandbox \in [st : {"AwaitingRoots", "Configuring"} \cup Settled, scope : Scope \cup {None}]
    BY DEF Init, Settled
  <2> QED
    BY <2>1, <2>2, <2>3, <2>4 DEF Init, HandshakeTypeOK
<1>2. down = <<>> /\ up = <<>>
  BY DEF Init
<1>3. Typed
  BY <1>1, <1>2 DEF Typed
<1>4. DOMAIN down = {} /\ DOMAIN up = {}
  BY <1>2
<1>5. Reported /\ InitializedFirst
  BY <1>4 DEF Init, Reported, InitializedFirst
<1>6. ActiveScopeIsCommitted /\ Posted
  BY HandshakeAssumption DEF Init, ActiveScopeIsCommitted, Posted, Initialized, Handler
<1> QED
  BY <1>3, <1>5, <1>6 DEF IInv

LEMMA StepInv == IInv /\ [Next]_vars => IInv'
BY TypedStep, ReportedStep, ActiveStep, PostedStep DEF IInv

\* The invariant holds: the parts depend on each other only as IInv combines them.
THEOREM Invariant == Spec => []IInv
<1>1. Init => IInv
  BY InitInv
<1>2. IInv /\ [Next]_vars => IInv'
  BY StepInv
<1> QED
  BY <1>1, <1>2, PTL DEF Spec

\* Every variable keeps its type (session.rs, sandbox_state.rs, sandbox_config.rs).
THEOREM TypeCorrect == Spec => []HandshakeTypeOK
<1>1. IInv => HandshakeTypeOK
  BY DEF IInv, Typed
<1> QED
  BY <1>1, Invariant, PTL

\* An active session shows the scope its worker committed (handle_sandbox_configured).
THEOREM ScopesAgree == Spec => []ActiveScopeIsCommitted
<1>1. IInv => ActiveScopeIsCommitted
  BY DEF IInv
<1> QED
  BY <1>1, Invariant, PTL

\* The worker is sent initialized before list_changed (forward_notification).
THEOREM HalvesInOrder == Spec => []InitializedFirst
<1>1. IInv => InitializedFirst
  BY DEF IInv
<1> QED
  BY <1>1, Invariant, PTL

\* A committed scope never changes (try_commit_explicit_scope, spawn_sandbox_configuration).
THEOREM OneCommit == Spec => CommittedOnce
<1>1. IInv /\ [Next]_vars => [committed # None => committed' = committed]_vars
  BY CommitStep DEF IInv
<1> QED
  BY <1>1, Invariant, PTL DEF Spec, CommittedOnce

\* Whoever is parked when initialized is marked goes through (wait_for_mcp_initialized,
\* transition_mcp_initialized), whichever half of the handshake it completes.
THEOREM WaitersAreWoken == Spec => ParkedIsWoken
<1>1. ASSUME IInv, Next, waiter = "parked", ~Initialized, Initialized' PROVE waiter' = "through"
  <2>1. hs' # hs
    BY <1>1 DEF Initialized
  <2>2. PICK h \in Handler : Mark(h)
    <3>1. ~(PostInitialized \/ ClientChangesRoots \/ Hear \/ ForwardChange)
      BY <2>1 DEF PostInitialized, ClientChangesRoots, Hear, ForwardChange
    <3>2. ~(WorkerHears \/ WorkerGivesUp)
      BY <2>1 DEF WorkerHears, WorkerGivesUp, bridge
    <3>3. ~(LookInitialized \/ Park \/ WaitTimesOut \/ TimePasses \/ FindStale \/ Reap)
      BY <2>1 DEF LookInitialized, Park, WaitTimesOut, TimePasses, FindStale, Reap
    <3>4. \A g \in Stream : ~(OpenStream(g) \/ CloseStream(g))
      BY <2>1 DEF OpenStream, CloseStream
    <3>5. \A h \in Handler : ~(SendChanged(h) \/ AutoLock(h))
      BY <2>1 DEF SendChanged, AutoLock
    <3>6. \A n \in Round : ~(ForwardAnswer(n) \/ \E a \in Answers : ClientAnswers(n, a))
      BY <2>1 DEF ForwardAnswer, ClientAnswers
    <3> QED
      BY <1>1, <3>1, <3>2, <3>3, <3>4, <3>5, <3>6 DEF Next
  <2>3. h = "initialized"
    BY <1>1, <2>1, <2>2 DEF Mark, Partial, Completing, Initialized, Handler
  <2> QED
    BY <1>1, <2>2, <2>3 DEF Mark, Wakes
<1>2. IInv /\ [Next]_vars =>
        [waiter = "parked" /\ ~Initialized /\ Initialized' => waiter' = "through"]_vars
  BY <1>1
<1> QED
  BY <1>2, Invariant, PTL DEF Spec, ParkedIsWoken

-----------------------------------------------------------------------------
(* Nobody is left half configured.                                         *)

\* What is on its way: a list_changed, a roots/list, its answer, a report.
ChangeSent == [m |-> "list_changed"] \in ToSet(down)
Asks(n) == [m |-> "roots/list", n |-> n] \in ToSet(up)
Carries(n, a) == reply[n] = a \/ [m |-> "answer", n |-> n, a |-> a] \in ToSet(down)
Report == \E u \in ToSet(up) : u.m \in {"configured", "failed"}

AsksDiffer == \A i, j \in DOMAIN up : up[i] = up[j] /\ up[i].m = "roots/list" => i = j

\* A round of the worker is on its way to the client, with the client or on its
\* way back; a worker that was started with its scope asks nobody.
RoundInv ==
    /\ asking <= rounds /\ AsksDiffer
    /\ mode = "UseDefaultScope" => rounds = 0
    /\ \A n \in Round : Asks(n) \/ n \in asked => n <= rounds /\ \A a \in Answers : ~Carries(n, a)
    /\ \A n \in Round, a \in Answers : Carries(n, a) => n <= rounds
    /\ \A n \in Round : Asks(n) => n \notin asked

\* The worker has reported, or the session is past it.
Done == Report \/ sandbox.st \in Settled

\* The client has answered the open round, and the worker will report on it.
Answered ==
    /\ asking # 0 /\ asking \notin asked /\ ~Asks(asking)
    /\ ~Carries(asking, "empty") /\ ~Carries(asking, "junk")

\* A round that is no more the worker's was given up, and reported.  Roots are
\* staged from the answer to a round that is still open.
StagedInv ==
    /\ committed # None => Done
    /\ \A n \in Round : (Asks(n) \/ n \in asked) /\ n # asking => Done
    /\ sandbox.st = "Configuring" /\ mode # "UseDefaultScope" => Done \/ Answered

\* The default scope is staged after initialized, and committed when both halves
\* are there.
DefaultInv ==
    /\ sandbox.st = "Configuring" /\ mode = "UseDefaultScope" => Initialized
    /\ \A h \in Handler : stage[h] = "locks" => Initialized
    /\ mode = "UseDefaultScope" /\ hs = "RootsRequested" =>
          \/ \E h \in Handler : stage[h] = "sends"
          \/ ChangeSent \/ committed # None

\* The sweep spares a session that is Configuring (is_handshake_timed_out), so
\* its worker must be about to answer for it: a list_changed is on its way to it,
\* a roots/list of its own is open, or its report is on its way.
ScopeIsComing ==
    sandbox.st = "Configuring" =>
        \/ NeverListened
        \/ (\E h \in Handler : stage[h] = "sends") \/ ChangeSent
        \/ asking # 0
        \/ Report

LEMMA PutIn ==
    ASSUME NEW S, NEW s \in Seq(S), NEW e \in S
    PROVE  ToSet(Append(s, e)) = ToSet(s) \cup {e}
BY Appended DEF ToSet

LEMMA TakenOut ==
    ASSUME NEW S, NEW s \in Seq(S), s # <<>>
    PROVE  ToSet(s) = ToSet(Tail(s)) \cup {Head(s)}
<1> DEFINE t == Tail(s)
<1>1. /\ Head(s) = s[1] /\ 1 \in DOMAIN s
      /\ DOMAIN s = 1 .. Len(s) /\ Len(s) \in Nat /\ DOMAIN t = 1 .. Len(s) - 1
      /\ \A i \in 1 .. Len(s) - 1 : t[i] = s[i + 1]
  BY Shortened
<1> HIDE DEF t
<1>2. \A i \in DOMAIN t : i + 1 \in DOMAIN s /\ t[i] = s[i + 1]
  BY <1>1
<1>3. \A i \in DOMAIN s : i = 1 \/ (i - 1 \in DOMAIN t /\ t[i - 1] = s[i])
  BY <1>1
<1>4. \A e : e \in ToSet(t) => e \in ToSet(s)
  BY <1>2, Zenon DEF ToSet
<1>5. ASSUME NEW e \in ToSet(s) PROVE e \in ToSet(t) \/ e = Head(s)
  <2>1. PICK i \in DOMAIN s : e = s[i]
    BY Zenon DEF ToSet
  <2>2. i # 1 => i - 1 \in DOMAIN t /\ t[i - 1] = e
    BY <1>3, <2>1
  <2>3. \A k \in DOMAIN t : t[k] \in ToSet(t)
    BY Zenon DEF ToSet
  <2> QED
    BY <1>1, <2>1, <2>2, <2>3
<1>6. Head(s) \in ToSet(s)
  BY <1>1, Zenon DEF ToSet
<1>7. ToSet(s) = ToSet(t) \cup {Head(s)}
  BY <1>4, <1>5, <1>6, Zenon
<1> QED
  BY <1>7 DEF t

LEMMA UpGrows ==
    ASSUME Typed, NEW e \in Up, up' = Append(up, e)
    PROVE  /\ ToSet(up') = ToSet(up) \cup {e}
           /\ AsksDiffer /\ (e.m = "roots/list" => e \notin ToSet(up)) => AsksDiffer'
<1>0. up \in Seq(Up)
  BY DEF Typed
<1>1. /\ DOMAIN up = 1 .. Len(up) /\ Len(up) \in Nat /\ DOMAIN up' = 1 .. Len(up) + 1
      /\ \A i \in 1 .. Len(up) : up'[i] = up[i]
      /\ up'[Len(up) + 1] = e
  BY <1>0, Appended
<1>2. \A i \in 1 .. Len(up) : up[i] \in ToSet(up)
  BY <1>1 DEF ToSet
<1>3. ASSUME AsksDiffer, e.m = "roots/list" => e \notin ToSet(up),
             NEW i \in DOMAIN up', NEW j \in DOMAIN up', up'[i] = up'[j], up'[i].m = "roots/list"
      PROVE  i = j
  BY <1>1, <1>2, <1>3 DEF AsksDiffer
<1> QED
  BY <1>0, <1>3, PutIn DEF AsksDiffer

LEMMA UpShrinks ==
    ASSUME Typed, up # <<>>, up' = Tail(up)
    PROVE  /\ ToSet(up) = ToSet(up') \cup {Head(up)} /\ Head(up) \in Up
           /\ AsksDiffer => AsksDiffer' /\ (Head(up).m = "roots/list" => Head(up) \notin ToSet(up'))
<1>0. up \in Seq(Up)
  BY DEF Typed
<1>1. /\ Head(up) = up[1] /\ 1 \in DOMAIN up /\ Head(up) \in Up
      /\ DOMAIN up = 1 .. Len(up) /\ Len(up) \in Nat /\ DOMAIN up' = 1 .. Len(up) - 1
      /\ \A i \in 1 .. Len(up) - 1 : up'[i] = up[i + 1]
  BY <1>0, Shortened
<1>2. \A i \in DOMAIN up' : i + 1 \in DOMAIN up /\ up'[i] = up[i + 1] /\ i + 1 # 1 /\ i \in Nat
  BY <1>1
<1>3. AsksDiffer => AsksDiffer'
  <2> SUFFICES ASSUME AsksDiffer, NEW i \in DOMAIN up', NEW j \in DOMAIN up',
                      up'[i] = up'[j], up'[i].m = "roots/list"
               PROVE  i = j
    BY DEF AsksDiffer
  <2>1. i + 1 = j + 1
    BY <1>2 DEF AsksDiffer
  <2> QED
    BY <1>2, <2>1
<1>4. AsksDiffer /\ Head(up).m = "roots/list" => Head(up) \notin ToSet(up')
  BY <1>1, <1>2 DEF AsksDiffer, ToSet
<1> QED
  BY <1>0, <1>1, <1>3, <1>4, TakenOut

LEMMA DownGrows ==
    ASSUME Typed, NEW e \in Down, down' = Append(down, e)
    PROVE  ToSet(down') = ToSet(down) \cup {e}
BY PutIn DEF Typed

LEMMA DownShrinks ==
    ASSUME Typed, down # <<>>, down' = Tail(down)
    PROVE  ToSet(down) = ToSet(down') \cup {Head(down)} /\ Head(down) \in Down
BY TakenOut, Shortened DEF Typed

LEMMA Records ==
    /\ \A d \in Down : d.m = "answer" => d = [m |-> "answer", n |-> d.n, a |-> d.a]
    /\ \A u \in Up : u.m = "roots/list" => u = [m |-> "roots/list", n |-> u.n]
BY DEF Down, Up

\* What is over is reported, unless the answer names no roots and the worker was
\* started with no scope.
LEMMA Concluded ==
    ASSUME Typed, NEW a \in Answers, Conclude(a)
    PROVE  /\ asking' = 0 /\ rounds' = rounds
           /\ \/ \E e \in Up : e.m \in {"configured", "failed"} /\ up' = Append(up, e)
              \/ up' = up /\ committed' = committed /\ a \in {"empty", "junk"}
<1>1. \A sc \in Scope : Commit(sc) =>
         \E e \in Up : e.m \in {"configured", "failed"} /\ up' = Append(up, e)
  BY Messages DEF Commit
<1>2. [m |-> "failed"] \in Up
  BY Messages
<1> QED
  BY <1>1, <1>2, Scopes DEF Conclude

LEMMA Configured ==
    ASSUME Typed, Configure
    PROVE  \/ /\ mode = "UseDefaultScope" /\ committed' # None /\ UNCHANGED <<asking, rounds>>
              /\ \E e \in Up : e.m \in {"configured", "failed"} /\ up' = Append(up, e)
           \/ /\ mode # "UseDefaultScope" /\ asking = 0 /\ committed' = committed
              /\ rounds + 1 \in Round /\ rounds' = rounds + 1 /\ asking' = rounds + 1
              /\ up' = Append(up, [m |-> "roots/list", n |-> rounds + 1])
           \/ (asking # 0 \/ committed # None) /\ UNCHANGED <<up, asking, rounds, committed>>
<1>1. CASE mode = "UseDefaultScope" /\ Commit(Seed) /\ UNCHANGED <<asking, rounds>>
  <2>1. Seed = "default" /\ "default" \in Scope /\ "default" # None
    BY <1>1, Scopes
  <2>2. /\ [m |-> "configured", scope |-> "default"] \in Up /\ [m |-> "failed"] \in Up
    BY <2>1, Messages
  <2> QED
    BY <1>1, <2>1, <2>2 DEF Commit
<1>2. rounds < MaxRounds => rounds + 1 \in Round
  BY HandshakeAssumption DEF Typed, HandshakeTypeOK, Round
<1> QED
  BY <1>1, <1>2 DEF Configure

\* A report disturbs no request.
LEMMA Reporting ==
    ASSUME Typed, NEW e \in Up, e.m \in {"configured", "failed"}, up' = Append(up, e)
    PROVE  /\ Report' /\ (AsksDiffer => AsksDiffer')
           /\ \A n \in Round : Asks(n)' => Asks(n)
<1>1. ToSet(up') = ToSet(up) \cup {e} /\ (AsksDiffer => AsksDiffer')
  BY UpGrows
<1>2. Report'
  BY <1>1 DEF Report
<1>3. ASSUME NEW n \in Round PROVE Asks(n)' => Asks(n)
  <2>1. [m |-> "roots/list", n |-> n] # e
    OBVIOUS
  <2> QED
    BY <1>1, <2>1 DEF Asks
<1> QED
  BY <1>1, <1>2, <1>3

\* The bridge takes the head of what the worker says.
LEMMA Heard ==
    ASSUME Typed, Hear
    PROVE  /\ Head(up) \in Up /\ (AsksDiffer => AsksDiffer')
           /\ \A n \in Round : Asks(n)' => Asks(n)
           /\ \A n \in Round : n \in asked' => n \in asked \/ (Asks(n) /\ (AsksDiffer => ~Asks(n)'))
           /\ Done => Done'
           /\ sandbox'.st = "Configuring" => sandbox' = sandbox
<1>1. /\ ToSet(up) = ToSet(up') \cup {Head(up)} /\ Head(up) \in Up
      /\ AsksDiffer => AsksDiffer' /\ (Head(up).m = "roots/list" => Head(up) \notin ToSet(up'))
  BY UpShrinks DEF Hear
<1>2. ASSUME NEW n \in Round, Asks(n)' PROVE Asks(n)
  BY <1>1, <1>2 DEF Asks
<1>3. ASSUME NEW n \in Round, n \in asked', n \notin asked
      PROVE  Asks(n) /\ (AsksDiffer => ~Asks(n)')
  <2>1. Head(up).m = "roots/list" /\ Head(up).n = n
    BY <1>3 DEF Hear
  <2>2. Head(up) = [m |-> "roots/list", n |-> n]
    BY <1>1, <2>1, Records
  <2> QED
    BY <1>1, <2>1, <2>2 DEF Asks
<1>4. sandbox.st \in {"AwaitingRoots", "Configuring"} \cup Settled
  BY DEF Typed, HandshakeTypeOK
<1>5. CASE Head(up).m = "roots/list" /\ UNCHANGED sandbox
  <2>1. Report => Report'
    BY <1>1, <1>5 DEF Report
  <2> QED
    BY <1>1, <1>2, <1>3, <1>5, <2>1 DEF Done
<1>6. CASE ToFailed \/ ToActive(Head(up).scope)
  <2>1. sandbox'.st \in Settled
    BY <1>4, <1>6 DEF ToFailed, ToActive, Settled
  <2> QED
    BY <1>1, <1>2, <1>3, <2>1 DEF Done, Settled
<1> QED
  BY <1>5, <1>6 DEF Hear

\* What the worker does: it reports, it asks, it does neither, or it has an
\* answer that names nothing to commit.
Reports ==
    /\ \E e \in Up : e.m \in {"configured", "failed"} /\ up' = Append(up, e)
    /\ rounds' = rounds /\ asking' \in {asking, 0}
AsksNext ==
    /\ mode # "UseDefaultScope" /\ asking = 0 /\ committed' = committed
    /\ rounds + 1 \in Round /\ rounds' = rounds + 1 /\ asking' = rounds + 1
    /\ up' = Append(up, [m |-> "roots/list", n |-> rounds + 1])
Rests == UNCHANGED <<up, asking, rounds, committed>>
Drops ==
    /\ UNCHANGED <<up, rounds, committed>> /\ asking' = 0 /\ asking # 0
    /\ Carries(asking, "empty") \/ Carries(asking, "junk")

LEMMA WorkerMoves ==
    ASSUME Typed, WorkerHears \/ WorkerGivesUp
    PROVE  /\ Reports \/ AsksNext \/ Rests \/ Drops
           /\ \A n \in Round, a \in Answers : Carries(n, a)' => Carries(n, a)
           /\ UNCHANGED <<mode, hs, sandbox, stage, asked, reply, changes, reaper>>
<1>1. CASE WorkerGivesUp
  <2>1. Conclude("error") /\ UNCHANGED <<bridge, down>>
    BY <1>1 DEF WorkerGivesUp
  <2>2. "error" \in Answers
    BY DEF Answers
  <2>3. /\ asking' = 0 /\ rounds' = rounds
        /\ \E e \in Up : e.m \in {"configured", "failed"} /\ up' = Append(up, e)
    BY <2>1, <2>2, Concluded
  <2> QED
    BY <2>1, <2>3 DEF Reports, Carries, bridge
<1>2. CASE WorkerHears
  <2>1. /\ ToSet(down) = ToSet(down') \cup {Head(down)} /\ Head(down) \in Down
        /\ UNCHANGED bridge
    BY <1>2, DownShrinks DEF WorkerHears
  <2>2. \A n \in Round, a \in Answers : Carries(n, a)' => Carries(n, a)
    BY <2>1 DEF Carries, bridge
  <2> SUFFICES Reports \/ AsksNext \/ Rests \/ Drops
    BY <2>1, <2>2 DEF bridge
  <2>3. CASE Head(down).m = "initialized" /\ UNCHANGED <<up, asking, rounds, committed>>
    BY <2>3 DEF Rests
  <2>4. CASE Configure
    BY <2>4, Configured DEF Reports, AsksNext, Rests
  <2>5. CASE Head(down).m = "answer" /\ Head(down).n = asking /\ Conclude(Head(down).a)
    <3>1. Head(down).n \in Round /\ Head(down).a \in Answers
      BY <2>1, <2>5, Messages
    <3>2. asking # 0
      BY <2>5, <3>1, HandshakeAssumption DEF Round
    <3>3. Head(down) = [m |-> "answer", n |-> Head(down).n, a |-> Head(down).a]
      BY <2>1, <2>5, Records
    <3>4. Carries(asking, Head(down).a)
      BY <2>1, <2>5, <3>3 DEF Carries
    <3> QED
      BY <2>5, <3>1, <3>2, <3>4, Concluded DEF Reports, Drops
  <2>6. CASE UNCHANGED <<up, worker>>
    BY <2>6 DEF Rests, worker
  <2> QED
    BY <1>2, <2>3, <2>4, <2>5, <2>6 DEF WorkerHears, worker
<1> QED
  BY <1>1, <1>2

\* A report stays on its way until it has settled the session for good.
LEMMA DoneStays == Typed /\ [Next]_vars => (Done => Done')
<1> SUFFICES ASSUME Typed, [Next]_vars, Done PROVE Done'
  OBVIOUS
<1>1. CASE Hear
  BY <1>1, Heard
<1>2. CASE WorkerHears \/ WorkerGivesUp
  <2>1. CASE Reports
    BY <2>1, Reporting DEF Reports, Done
  <2>2. CASE AsksNext
    <3>1. [m |-> "roots/list", n |-> rounds + 1] \in Up
      BY <2>2, Messages DEF AsksNext
    <3>2. ToSet(up') = ToSet(up) \cup {[m |-> "roots/list", n |-> rounds + 1]}
      BY <2>2, <3>1, UpGrows DEF AsksNext
    <3> QED
      BY <1>2, <3>2, WorkerMoves DEF Done, Report
  <2>3. CASE Rests \/ Drops
    BY <1>2, <2>3, WorkerMoves DEF Rests, Drops, Done, Report
  <2> QED
    BY <1>2, <2>1, <2>2, <2>3, WorkerMoves
<1>3. CASE up' = up /\ (sandbox.st \in Settled => sandbox'.st \in Settled)
  BY <1>3 DEF Done, Report
<1>4. ASSUME NEW sc, Lock(sc) PROVE sandbox.st \in Settled => sandbox'.st \in Settled
  BY <1>4 DEF Lock, Settled
<1>5. ASSUME NEW h \in Handler, AutoLock(h) PROVE Done'
  BY <1>3, <1>4, <1>5 DEF AutoLock, worker
<1>6. ASSUME NEW n \in Round, NEW a \in Answers, ClientAnswers(n, a) PROVE Done'
  BY <1>3, <1>4, <1>6 DEF ClientAnswers, LockFromRoots, ToFailed, Settled
<1>7. CASE Reap
  BY <1>3, <1>7 DEF Reap, Settled
<1>8. CASE UNCHANGED <<up, sandbox>>
  BY <1>3, <1>8
<1> QED
  BY <1>1, <1>2, <1>5, <1>6, <1>7, <1>8, Steps
  DEF Quiet, OpenStream, CloseStream, Mark, ClientChangesRoots, LookInitialized, Park, WaitTimesOut,
      TimePasses, FindStale, PostInitialized, ForwardChange, SendChanged, ForwardAnswer, vars

\* The other steps bring no round nearer to its end.
Aside ==
    /\ UNCHANGED <<mode, up, asked, worker>>
    /\ \A n \in Round, a \in Answers : Carries(n, a)' => Carries(n, a)
    /\ sandbox'.st = "Configuring" =>
          \/ sandbox' = sandbox
          \/ mode = "UseDefaultScope" /\ \E h \in Handler : stage[h] = "locks"

LEMMA Moves ==
    ASSUME Typed, [Next]_vars
    PROVE  \/ Hear \/ WorkerHears \/ WorkerGivesUp \/ Aside
           \/ \E n \in Round, a \in Answers : ClientAnswers(n, a)
<1>1. ASSUME NEW e \in Down, e.m # "answer", down' = Append(down, e), reply' = reply
      PROVE  \A n \in Round, a \in Answers : Carries(n, a)' => Carries(n, a)
  <2>1. ToSet(down') = ToSet(down) \cup {e}
    BY <1>1, DownGrows
  <2>2. \A n \in Round, a \in Answers : [m |-> "answer", n |-> n, a |-> a] # e
    BY <1>1
  <2> QED
    BY <1>1, <2>1, <2>2 DEF Carries
<1>2. down' = down /\ reply' = reply =>
         \A n \in Round, a \in Answers : Carries(n, a)' => Carries(n, a)
  BY DEF Carries
<1>3. CASE PostInitialized \/ ForwardChange \/ \E h \in Handler : SendChanged(h)
  BY <1>1, <1>3, Messages DEF PostInitialized, ForwardChange, SendChanged, Aside
<1>4. ASSUME NEW n \in Round, ForwardAnswer(n) PROVE Aside
  <2> DEFINE e == [m |-> "answer", n |-> n, a |-> reply[n]]
  <2>1. reply[n] \in Answers /\ reply[n] # None /\ reply \in [Round -> Answers \cup {None}]
    BY <1>4 DEF ForwardAnswer, Typed, HandshakeTypeOK
  <2>2. e \in Down
    BY <2>1, Messages
  <2>3. ToSet(down') \subseteq ToSet(down) \cup {e}
    <3> HIDE DEF e
    <3>1. CASE down' = Append(down, e)
      BY <2>2, <3>1, DownGrows
    <3>2. CASE down' = down
      BY <3>2
    <3> QED
      BY <1>4, <3>1, <3>2 DEF ForwardAnswer, e
  <2>4. ASSUME NEW k \in Round, NEW a \in Answers, Carries(k, a)' PROVE Carries(k, a)
    <3>1. CASE reply'[k] = a
      <4>1. k = n => reply'[k] = None
        BY <1>4, <2>1 DEF ForwardAnswer
      <4>2. None \notin Answers
        BY HandshakeAssumption
      <4>3. reply[k] = a
        BY <1>4, <2>1, <3>1, <4>1, <4>2 DEF ForwardAnswer
      <4> QED
        BY <4>3 DEF Carries
    <3>2. CASE [m |-> "answer", n |-> k, a |-> a] \in ToSet(down')
      <4>1. [m |-> "answer", n |-> k, a |-> a] = e => k = n /\ a = reply[n]
        OBVIOUS
      <4> QED
        BY <2>3, <3>2, <4>1 DEF Carries
    <3> QED
      BY <2>4, <3>1, <3>2 DEF Carries
  <2> QED
    BY <1>4, <2>4 DEF ForwardAnswer, Aside
<1>5. ASSUME NEW h \in Handler, AutoLock(h) PROVE Aside
  BY <1>2, <1>5 DEF AutoLock, Aside
<1>6. CASE Reap
  BY <1>2, <1>6 DEF Reap, Aside
<1>7. CASE \/ \E h \in Handler : Mark(h)
           \/ \E g \in Stream : OpenStream(g) \/ CloseStream(g)
           \/ ClientChangesRoots \/ LookInitialized \/ Park \/ WaitTimesOut \/ TimePasses \/ FindStale
  BY <1>2, <1>7
  DEF Aside, Mark, OpenStream, CloseStream, ClientChangesRoots, LookInitialized, Park,
      WaitTimesOut, TimePasses, FindStale
<1>8. CASE UNCHANGED vars
  BY <1>2, <1>8 DEF Aside, vars, worker
<1> QED
  BY <1>3, <1>4, <1>5, <1>6, <1>7, <1>8, Steps DEF Quiet

\* Where a round is, when nobody starts one.
LEMMA RoundKept ==
    ASSUME Typed, RoundInv, AsksDiffer', rounds' = rounds, asking' \in {asking, 0}, mode' = mode,
           \A n \in Round : Asks(n)' => Asks(n) /\ n \notin asked',
           \A n \in Round : n \in asked' => n \in asked \/ Asks(n),
           \A n \in Round, a \in Answers : Carries(n, a)' => Carries(n, a)
    PROVE  RoundInv'
BY HandshakeAssumption DEF RoundInv, Typed, HandshakeTypeOK

LEMMA RoundStep == Typed /\ RoundInv /\ [Next]_vars => RoundInv'
<1> SUFFICES ASSUME Typed, RoundInv, [Next]_vars PROVE RoundInv'
  OBVIOUS
<1>0. AsksDiffer /\ \A n \in Round : Asks(n) => n \notin asked
  BY DEF RoundInv
<1>1. CASE Aside
  <2>1. AsksDiffer' /\ \A n \in Round : Asks(n)' = Asks(n)
    BY <1>0, <1>1 DEF Aside, AsksDiffer, Asks
  <2> QED
    BY <1>0, <1>1, <2>1, RoundKept DEF Aside, worker
<1>2. CASE Hear
  <2>1. AsksDiffer' /\ \A n \in Round : Asks(n)' => Asks(n)
    BY <1>0, <1>2, Heard
  <2>2. \A n \in Round : n \in asked' => n \in asked \/ (Asks(n) /\ ~Asks(n)')
    BY <1>0, <1>2, Heard
  <2>3. \A n \in Round, a \in Answers : Carries(n, a)' => Carries(n, a)
    BY <1>2 DEF Hear, Carries
  <2> QED
    BY <1>0, <1>2, <2>1, <2>2, <2>3, RoundKept DEF Hear, worker
<1>3. ASSUME NEW n \in Round, NEW a \in Answers, ClientAnswers(n, a) PROVE RoundInv'
  <2>1. /\ n \in asked /\ asked' = asked \ {n} /\ reply' = [reply EXCEPT ![n] = a]
        /\ UNCHANGED <<mode, down, up, asking, rounds>>
    BY <1>3 DEF ClientAnswers, worker
  <2>2. AsksDiffer' /\ \A k \in Round : Asks(k)' = Asks(k)
    BY <1>0, <2>1 DEF AsksDiffer, Asks
  <2>3. ASSUME NEW k \in Round, NEW b \in Answers, Carries(k, b)' PROVE Carries(k, b) \/ k = n
    <3>1. k # n => reply'[k] = reply[k]
      BY <2>1 DEF Typed, HandshakeTypeOK
    <3> QED
      BY <2>1, <2>3, <3>1 DEF Carries
  <2>4. ~Asks(n) /\ n <= rounds
    BY <1>0, <2>1 DEF RoundInv
  <2>5. \A k \in Round : Asks(k)' \/ k \in asked' =>
           k <= rounds' /\ \A b \in Answers : ~Carries(k, b)'
    BY <2>1, <2>2, <2>3, <2>4 DEF RoundInv
  <2>6. \A k \in Round, b \in Answers : Carries(k, b)' => k <= rounds'
    BY <2>1, <2>3, <2>4 DEF RoundInv
  <2> QED
    BY <1>0, <2>1, <2>2, <2>5, <2>6 DEF RoundInv
<1>4. CASE WorkerHears \/ WorkerGivesUp
  <2>0. /\ \A n \in Round, a \in Answers : Carries(n, a)' => Carries(n, a)
        /\ UNCHANGED <<mode, asked>>
    BY <1>4, WorkerMoves
  <2>1. CASE Reports
    <3>1. AsksDiffer' /\ \A n \in Round : Asks(n)' => Asks(n)
      BY <1>0, <2>1, Reporting DEF Reports
    <3> QED
      BY <1>0, <2>0, <2>1, <3>1, RoundKept DEF Reports
  <2>2. CASE AsksNext
    <3> DEFINE r == rounds + 1
               e == [m |-> "roots/list", n |-> r]
    <3>0. r \in Round /\ e \in Up /\ rounds \in Nat /\ rounds < r /\ rounds <= r
      BY <2>2, Messages, HandshakeAssumption DEF AsksNext, Typed, HandshakeTypeOK
    <3>1. ~Asks(r) /\ r \notin asked /\ \A a \in Answers : ~Carries(r, a)
      BY <3>0 DEF RoundInv
    <3>2. e \notin ToSet(up)
      BY <3>1 DEF Asks
    <3>3. ToSet(up') = ToSet(up) \cup {e} /\ AsksDiffer'
      <4> HIDE DEF e
      <4>1. up' = Append(up, e)
        BY <2>2 DEF AsksNext, e
      <4> QED
        BY <1>0, <3>0, <3>2, <4>1, UpGrows
    <3>4. ASSUME NEW k \in Round PROVE Asks(k)' => Asks(k) \/ k = r
      BY <3>3 DEF Asks
    <3>5. rounds' = r /\ asking' = r /\ mode' # "UseDefaultScope"
      BY <2>0, <2>2 DEF AsksNext
    <3>6. \A k \in Round : k <= rounds => k <= r
      BY <3>0 DEF Round
    <3> HIDE DEF r, e
    <3>7. \A k \in Round : Asks(k)' \/ k \in asked' =>
             k <= rounds' /\ \A b \in Answers : ~Carries(k, b)'
      BY <2>0, <3>0, <3>1, <3>4, <3>5, <3>6 DEF RoundInv, Round
    <3>8. \A k \in Round, b \in Answers : Carries(k, b)' => k <= rounds'
      BY <2>0, <3>5, <3>6 DEF RoundInv
    <3>9. \A k \in Round : Asks(k)' => k \notin asked'
      BY <1>0, <2>0, <3>1, <3>4
    <3>10. asking' <= rounds'
      BY <3>0, <3>5 DEF Round
    <3> QED
      BY <3>3, <3>5, <3>7, <3>8, <3>9, <3>10 DEF RoundInv
  <2>3. CASE Rests \/ Drops
    <3>1. up' = up /\ rounds' = rounds /\ asking' \in {asking, 0}
      BY <2>3 DEF Rests, Drops
    <3>2. AsksDiffer' /\ \A n \in Round : Asks(n)' = Asks(n)
      BY <1>0, <3>1 DEF AsksDiffer, Asks
    <3> QED
      BY <1>0, <2>0, <3>1, <3>2, RoundKept
  <2> QED
    BY <1>4, <2>1, <2>2, <2>3, WorkerMoves
<1> QED
  BY <1>1, <1>2, <1>3, <1>4, Moves

\* An open round that has its answer keeps it.
LEMMA AnsweredKept ==
    ASSUME Typed, Answered, asking' = asking, asking \notin asked',
           \A n \in Round : Asks(n)' => Asks(n),
           \A n \in Round, a \in Answers : Carries(n, a)' => Carries(n, a)
    PROVE  Answered'
<1>1. PICK r \in Round : r = asking
  BY HandshakeAssumption DEF Answered, Typed, HandshakeTypeOK, Round
<1>2. "empty" \in Answers /\ "junk" \in Answers
  BY DEF Answers
<1>3. ~Asks(r) /\ ~Carries(r, "empty") /\ ~Carries(r, "junk")
  BY <1>1 DEF Answered
<1>4. ~Asks(r)' /\ ~Carries(r, "empty")' /\ ~Carries(r, "junk")'
  BY <1>2, <1>3
<1> QED
  BY <1>1, <1>4 DEF Answered, Asks, Carries

\* A worker commits once and reports what it does; a session takes roots from an
\* answer and from nothing else.
LEMMA StagedStep == Typed /\ Reported /\ RoundInv /\ StagedInv /\ [Next]_vars => StagedInv'
<1> SUFFICES ASSUME Typed, Reported, RoundInv, StagedInv, [Next]_vars, ~Done'
             PROVE  StagedInv'
  BY DEF StagedInv
<1>0. /\ ~Done /\ committed = None
      /\ \A n \in Round : Asks(n) \/ n \in asked => n = asking
      /\ sandbox.st = "Configuring" /\ mode # "UseDefaultScope" => Answered
  BY DoneStays DEF StagedInv
<1>1. CASE Aside
  <2>1. \A n \in Round : Asks(n)' = Asks(n)
    BY <1>1 DEF Aside, Asks
  <2>2. committed' = None /\ asking' = asking /\ asked' = asked
    BY <1>0, <1>1 DEF Aside, worker
  <2>3. ASSUME sandbox'.st = "Configuring", mode' # "UseDefaultScope" PROVE Answered'
    <3>1. Answered /\ asking \notin asked'
      BY <1>0, <1>1, <2>2, <2>3 DEF Aside, Answered
    <3> QED
      BY <1>1, <2>1, <2>2, <3>1, AnsweredKept DEF Aside
  <2> QED
    BY <1>0, <2>1, <2>2, <2>3 DEF StagedInv
<1>2. CASE Hear
  <2>1. /\ \A n \in Round : Asks(n)' => Asks(n)
        /\ \A n \in Round : n \in asked' => n \in asked \/ Asks(n)
        /\ sandbox'.st = "Configuring" => sandbox' = sandbox
    BY <1>2, Heard
  <2>2. UNCHANGED <<mode, down, reply, asking, committed>>
    BY <1>2 DEF Hear, worker
  <2>3. ASSUME Answered PROVE Answered'
    <3>1. asking \notin asked'
      <4>1. asking \in Round
        BY <2>3, HandshakeAssumption DEF Answered, Typed, HandshakeTypeOK, Round
      <4> QED
        BY <2>1, <2>3, <4>1 DEF Answered
    <3>2. \A n \in Round, a \in Answers : Carries(n, a)' => Carries(n, a)
      BY <2>2 DEF Carries
    <3> QED
      BY <2>1, <2>2, <2>3, <3>1, <3>2, AnsweredKept
  <2> QED
    BY <1>0, <2>1, <2>2, <2>3 DEF StagedInv
<1>3. ASSUME NEW n \in Round, NEW a \in Answers, ClientAnswers(n, a) PROVE StagedInv'
  <2>1. /\ n \in asked /\ asked' = asked \ {n} /\ reply' = [reply EXCEPT ![n] = a]
        /\ UNCHANGED <<mode, down, up, asking, committed>>
    BY <1>3 DEF ClientAnswers, worker
  <2>2. asking = n /\ ~Answered
    BY <1>0, <2>1 DEF Answered
  <2>3. \A k \in Round : Asks(k)' = Asks(k)
    BY <2>1 DEF Asks
  <2>4. ASSUME sandbox'.st = "Configuring", mode # "UseDefaultScope" PROVE Answered'
    <3>1. a \in Roots
      BY <1>0, <1>3, <2>2, <2>4 DEF ClientAnswers, LockFromRoots, ToFailed
    <3>2. reply'[n] = a /\ a # "empty" /\ a # "junk"
      BY <2>1, <3>1, HandshakeAssumption DEF Typed, HandshakeTypeOK
    <3>3. "empty" \in Answers /\ "junk" \in Answers
      BY DEF Answers
    <3>4. ~Carries(n, "empty") /\ ~Carries(n, "junk") /\ ~Asks(n)
      BY <2>1, <3>3 DEF RoundInv
    <3>5. n # 0 /\ n \notin asked'
      BY <2>1, HandshakeAssumption DEF Round
    <3> QED
      BY <2>1, <2>2, <3>2, <3>4, <3>5 DEF Answered, Asks, Carries
  <2> QED
    BY <1>0, <2>1, <2>3, <2>4 DEF StagedInv
<1>4. CASE WorkerHears \/ WorkerGivesUp
  <2>0. /\ \A n \in Round, a \in Answers : Carries(n, a)' => Carries(n, a)
        /\ UNCHANGED <<mode, sandbox, asked>>
    BY <1>4, WorkerMoves
  <2>1. CASE Reports
    BY <2>1, Reporting DEF Reports, Done
  <2>2. CASE AsksNext
    <3> DEFINE r == rounds + 1
               e == [m |-> "roots/list", n |-> r]
    <3>1. r \in Round /\ asking' = r /\ asking = 0 /\ committed' = committed
      BY <2>2 DEF AsksNext
    <3>2. e \in Up
      BY <3>1, Messages
    <3>3. ASSUME NEW k \in Round PROVE Asks(k)' => Asks(k) \/ k = r
      <4> HIDE DEF e
      <4>1. ToSet(up') = ToSet(up) \cup {e}
        BY <2>2, <3>2, UpGrows DEF AsksNext, e
      <4> QED
        BY <4>1 DEF Asks, e
    <3>4. \A k \in Round : k # 0
      BY HandshakeAssumption DEF Round
    <3>5. ~Answered
      BY <3>1 DEF Answered
    <3> HIDE DEF r, e
    <3> QED
      BY <1>0, <2>0, <3>1, <3>3, <3>4, <3>5 DEF StagedInv
  <2>3. CASE Rests
    <3>1. up' = up /\ asking' = asking /\ committed' = committed
      BY <2>3 DEF Rests
    <3>2. \A n \in Round : Asks(n)' = Asks(n)
      BY <3>1 DEF Asks
    <3>3. ASSUME Answered PROVE Answered'
      <4>1. asking \notin asked'
        BY <2>0, <3>3 DEF Answered
      <4> QED
        BY <2>0, <3>1, <3>2, <3>3, <4>1, AnsweredKept
    <3> QED
      BY <1>0, <2>0, <3>1, <3>2, <3>3 DEF StagedInv
  <2>4. CASE Drops
    <3>1. up' = up /\ committed' = committed /\ asking # 0 /\ ~Answered
      BY <2>4 DEF Drops, Answered
    <3>2. asking \in Round /\ "empty" \in Answers /\ "junk" \in Answers
      BY <3>1, HandshakeAssumption DEF Typed, HandshakeTypeOK, Round, Answers
    <3>3. ~Asks(asking) /\ asking \notin asked
      BY <2>4, <3>2 DEF Drops, RoundInv
    <3>4. \A n \in Round : ~Asks(n)' /\ n \notin asked'
      BY <1>0, <2>0, <3>1, <3>3 DEF Asks
    <3> QED
      BY <1>0, <2>0, <3>1, <3>4 DEF StagedInv
  <2> QED
    BY <1>4, <2>1, <2>2, <2>3, <2>4, WorkerMoves
<1> QED
  BY <1>1, <1>2, <1>3, <1>4, Moves

\* Only a handler that marks its half writes the record of the handshake.
LEMMA HandshakeMoves ==
    ASSUME Typed, [Next]_vars
    PROVE  /\ mode' = mode /\ (Initialized => Initialized')
           /\ hs' = hs \/ \E h \in Handler : Mark(h)
           /\ ~(\E h \in Handler : Mark(h) \/ SendChanged(h)) =>
                 \A h \in Handler : /\ stage[h] = "sends" => stage'[h] = "sends"
                                    /\ stage'[h] = "locks" => stage[h] = "locks"
<1>0. /\ stage \in [Handler -> {"none", "entered", "sends", "locks", "done"}]
      /\ "initialized" \in Handler /\ Stream \subseteq Handler
  BY DEF Typed, HandshakeTypeOK, Handler
<1>1. ASSUME NEW h \in Handler, Mark(h) PROVE mode' = mode /\ (Initialized => Initialized')
  BY <1>1 DEF Mark, Partial, Completing, Initialized
<1>2. ASSUME NEW h \in Handler, SendChanged(h) PROVE mode' = mode /\ hs' = hs
  BY <1>2 DEF SendChanged
<1>3. ASSUME mode' = mode, hs' = hs,
             \/ stage' = stage
             \/ \E h \in Handler, w \in {"entered", "done"} : At(h, w) /\ stage[h] \in {"none", "locks"}
      PROVE  /\ mode' = mode /\ (Initialized => Initialized') /\ hs' = hs
             /\ \A h \in Handler : /\ stage[h] = "sends" => stage'[h] = "sends"
                                   /\ stage'[h] = "locks" => stage[h] = "locks"
  BY <1>0, <1>3 DEF At, Initialized
<1>4. ASSUME NEW h \in Handler, AutoLock(h)
      PROVE  mode' = mode /\ hs' = hs /\ At(h, "done") /\ stage[h] = "locks"
  BY <1>4 DEF AutoLock
<1>5. ASSUME NEW g \in Stream, OpenStream(g)
      PROVE  mode' = mode /\ hs' = hs /\ At(g, "entered") /\ stage[g] = "none"
  BY <1>5 DEF OpenStream
<1>6. CASE PostInitialized
  BY <1>0, <1>3, <1>6 DEF PostInitialized
<1>7. ASSUME UNCHANGED <<mode, hs, stage>>
      PROVE  /\ mode' = mode /\ (Initialized => Initialized') /\ hs' = hs
             /\ \A h \in Handler : /\ stage[h] = "sends" => stage'[h] = "sends"
                                   /\ stage'[h] = "locks" => stage[h] = "locks"
  BY <1>3, <1>7
<1>8. CASE \/ Hear \/ WorkerHears \/ WorkerGivesUp \/ ForwardChange
           \/ \E n \in Round : ForwardAnswer(n) \/ \E a \in Answers : ClientAnswers(n, a)
           \/ \E g \in Stream : CloseStream(g)
           \/ ClientChangesRoots \/ LookInitialized \/ Park \/ WaitTimesOut
           \/ TimePasses \/ FindStale \/ Reap \/ UNCHANGED vars
  BY <1>7, <1>8
  DEF Hear, WorkerHears, WorkerGivesUp, ForwardChange, ForwardAnswer, ClientAnswers, CloseStream,
      ClientChangesRoots, LookInitialized, Park, WaitTimesOut, TimePasses, FindStale, Reap, vars, bridge
<1>9. CASE \E h \in Handler : Mark(h) \/ SendChanged(h)
  BY <1>1, <1>2, <1>9 DEF Initialized
<1>10. CASE (\E h \in Handler : AutoLock(h)) \/ \E g \in Stream : OpenStream(g)
  BY <1>0, <1>3, <1>4, <1>5, <1>10
<1> QED
  BY <1>6, <1>8, <1>9, <1>10, Steps DEF Quiet

\* A list_changed stays on its way until the worker takes it.
LEMMA ChangeStays ==
    ASSUME Typed, [Next]_vars, ChangeSent
    PROVE  ChangeSent' \/ (WorkerHears /\ Head(down).m = "list_changed" /\ Configure)
<1>1. CASE WorkerHears
  <2>1. ToSet(down) = ToSet(down') \cup {Head(down)}
    BY <1>1, DownShrinks DEF WorkerHears
  <2> QED
    BY <1>1, <2>1 DEF ChangeSent, WorkerHears
<1>2. ASSUME NEW e \in Down, down' = Append(down, e) PROVE ChangeSent'
  <2>1. ToSet(down') = ToSet(down) \cup {e}
    BY <1>2, DownGrows
  <2> QED
    BY <2>1 DEF ChangeSent
<1>3. ASSUME NEW n \in Round, ForwardAnswer(n) PROVE ChangeSent'
  <2>1. reply[n] \in Answers
    BY <1>3 DEF ForwardAnswer, Typed, HandshakeTypeOK
  <2>2. [m |-> "answer", n |-> n, a |-> reply[n]] \in Down
    BY <2>1, Messages
  <2> QED
    BY <1>2, <1>3, <2>2 DEF ForwardAnswer, ChangeSent
<1>4. CASE PostInitialized \/ ForwardChange \/ \E h \in Handler : SendChanged(h)
  BY <1>2, <1>4, Messages DEF PostInitialized, ForwardChange, SendChanged
<1>5. CASE down' = down
  BY <1>5 DEF ChangeSent
<1> QED
  BY <1>1, <1>3, <1>4, <1>5, Steps, QuietSends DEF Hear, WorkerGivesUp, vars

LEMMA DefaultStep ==
    Typed /\ Reported /\ Posted /\ RoundInv /\ DefaultInv /\ [Next]_vars => DefaultInv'
<1> SUFFICES ASSUME Typed, Reported, Posted, RoundInv, DefaultInv, [Next]_vars PROVE DefaultInv'
  OBVIOUS
<1>0. /\ stage \in [Handler -> {"none", "entered", "sends", "locks", "done"}]
      /\ "initialized" \in Handler
      /\ hs \in {"AwaitingBoth", "AwaitingSseOnly", "AwaitingMcpOnly", "RootsRequested"}
      /\ mode' = mode /\ (Initialized => Initialized')
      /\ mode = "UseDefaultScope" => rounds = 0
      /\ asking \in Nat /\ asking <= rounds
  BY HandshakeMoves DEF Typed, HandshakeTypeOK, Handler, RoundInv
<1>1. ASSUME mode = "UseDefaultScope", sandbox'.st = "Configuring" PROVE Initialized'
  <2>1. CASE sandbox' = sandbox \/ \E h \in Handler : stage[h] = "locks"
    BY <1>0, <1>1, <2>1 DEF DefaultInv
  <2>2. ~\E n \in Round, a \in Answers : ClientAnswers(n, a)
    BY <1>0, <1>1 DEF ClientAnswers, RoundInv, Round
  <2>3. CASE Hear
    BY <1>1, <2>1, <2>3, Heard
  <2>4. CASE WorkerHears \/ WorkerGivesUp
    BY <2>1, <2>4, WorkerMoves
  <2>5. CASE Aside
    BY <1>1, <2>1, <2>5 DEF Aside
  <2> QED
    BY <2>2, <2>3, <2>4, <2>5, Moves
<1>2. ASSUME NEW h \in Handler, stage'[h] = "locks" PROVE Initialized'
  <2>1. CASE stage[h] = "locks"
    BY <1>0, <2>1 DEF DefaultInv
  <2>2. ASSUME NEW k \in Handler, Mark(k), stage[h] # "locks" PROVE Initialized'
    <3>1. k = h /\ h = "initialized"
      BY <1>0, <1>2, <2>2 DEF Mark, At
    <3> QED
      BY <1>0, <1>2, <2>2, <3>1 DEF Mark, At, Partial, Completing, Initialized
  <2>3. ASSUME NEW k \in Handler, SendChanged(k) PROVE Initialized'
    BY <1>0, <2>3 DEF SendChanged, Posted
  <2> QED
    BY <1>2, <2>1, <2>2, <2>3, HandshakeMoves
<1>3. ASSUME mode = "UseDefaultScope", hs' = "RootsRequested"
      PROVE  \/ \E h \in Handler : stage'[h] = "sends"
             \/ ChangeSent' \/ committed' # None
  <2>1. CASE committed # None
    BY <2>1, CommitStep
  <2>2. ASSUME ChangeSent, committed = None PROVE ChangeSent' \/ committed' # None
    <3>1. ChangeSent' \/ Configure
      BY <2>2, ChangeStays
    <3>2. asking = 0
      BY <1>0, <1>3
    <3> QED
      BY <1>3, <2>2, <3>1, <3>2, Configured
  <2>3. ASSUME NEW k \in Handler, SendChanged(k) PROVE ChangeSent'
    <3>1. ToSet(down') = ToSet(down) \cup {[m |-> "list_changed"]}
      BY <2>3, DownGrows, Messages DEF SendChanged
    <3> QED
      BY <3>1 DEF ChangeSent
  <2>4. ASSUME NEW k \in Handler, Mark(k)
        PROVE  \/ \E h \in Handler : stage'[h] = "sends"
               \/ hs = "RootsRequested" /\ stage[k] = "entered" /\
                  \A h \in Handler : stage[h] = "sends" => stage'[h] = "sends"
    BY <1>0, <1>3, <2>4 DEF Mark, At, Partial, Completing
  <2>5. CASE hs = "RootsRequested" /\ \A h \in Handler : stage[h] = "sends" => stage'[h] = "sends"
    BY <1>3, <2>1, <2>2, <2>5 DEF DefaultInv
  <2> QED
    BY <1>3, <2>3, <2>4, <2>5, HandshakeMoves
<1> QED
  BY <1>0, <1>1, <1>2, <1>3 DEF DefaultInv

\* No session is Configuring with nothing under way that will settle it: its worker
\* has a list_changed to come, a roots/list that is open, or a report that the
\* bridge has not heard.  is_handshake_timed_out spares such a session for good, so
\* nothing else would end it.  The exception is a client that never listens, whose
\* default scope auto_lock_if_default_scope has staged.
THEOREM ScopeComes == Spec => []ScopeIsComing
<1>1. Init => IInv /\ RoundInv /\ StagedInv /\ DefaultInv
  <2> SUFFICES ASSUME Init PROVE RoundInv /\ StagedInv /\ DefaultInv
    BY InitInv
  <2>1. up = <<>> /\ down = <<>> /\ asked = {} /\ asking = 0 /\ rounds = 0 /\ committed = None
    BY DEF Init
  <2>2. ToSet(up) = {} /\ ToSet(down) = {} /\ DOMAIN up = {}
    BY <2>1 DEF ToSet
  <2>3. \A n \in Round, a \in Answers : ~Carries(n, a)
    <3>1. \A a \in Answers : a # None
      BY HandshakeAssumption
    <3> QED
      BY <2>2, <3>1 DEF Carries, Init
  <2>4. \A n \in Round : ~Asks(n)
    BY <2>2 DEF Asks
  <2>5. RoundInv
    BY <2>1, <2>2, <2>3, <2>4 DEF RoundInv, AsksDiffer
  <2>6. sandbox.st # "Configuring" /\ hs = "AwaitingBoth" /\ \A h \in Handler : stage[h] = "none"
    BY DEF Init
  <2> QED
    BY <2>1, <2>4, <2>5, <2>6 DEF StagedInv, DefaultInv
<1>2. /\ IInv /\ RoundInv /\ StagedInv /\ DefaultInv /\ [Next]_vars
      => IInv' /\ RoundInv' /\ StagedInv' /\ DefaultInv'
  BY StepInv, RoundStep, StagedStep, DefaultStep DEF IInv
<1>3. RoundInv /\ StagedInv /\ DefaultInv => ScopeIsComing
  <2> SUFFICES ASSUME StagedInv, DefaultInv, sandbox.st = "Configuring"
               PROVE  \/ NeverListened
                      \/ (\E h \in Handler : stage[h] = "sends") \/ ChangeSent
                      \/ asking # 0
                      \/ Report
    BY DEF ScopeIsComing
  <2>1. Done => Report
    BY DEF Done, Settled
  <2>2. CASE mode = "UseDefaultScope"
    BY <2>1, <2>2 DEF StagedInv, DefaultInv, NeverListened, Initialized
  <2>3. CASE mode # "UseDefaultScope"
    BY <2>1, <2>3 DEF StagedInv, Answered
  <2> QED
    BY <2>2, <2>3
<1> QED
  BY <1>1, <1>2, <1>3, PTL DEF Spec
=============================================================================
