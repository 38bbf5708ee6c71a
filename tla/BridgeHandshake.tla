-------------------------- MODULE BridgeHandshake --------------------------
(***************************************************************************)
(* How one session of the HTTP bridge gets its sandbox (ahma_http_bridge   *)
(* session.rs, request_handler.rs, bridge.rs; ahma_common sandbox_state.rs;*)
(* ahma_mcp sandbox_config.rs).  The client opens event streams and sends  *)
(* notifications/initialized in any order; when both have come the bridge  *)
(* sends roots/list_changed to the worker, which asks the client for its   *)
(* roots, commits a scope once and reports it.  The bridge keeps its own   *)
(* record of the scope, opens tools/call when the worker has reported, and *)
(* reaps a session whose handshake takes too long.                         *)
(*                                                                         *)
(* Between bridge and worker there are two pipes, so two queues.           *)
(***************************************************************************)
EXTENDS SequencesExt, Integers

CONSTANTS
    Modes,      \* of "Fail", "UseDefaultScope", "AwaitWorker": what empty roots mean
    Stream,     \* GET requests for the event stream
    Roots,      \* scopes the client's roots may name
    MaxRounds,  \* roots/list requests of the worker
    None

Scope == Roots \cup {"default", "container"}
\* What a client says to roots/list: roots, none, none that is a file: URI, an error.
Answers == Roots \cup {"empty", "junk", "error"}

ASSUME HandshakeAssumption ==
    /\ Modes \subseteq {"Fail", "UseDefaultScope", "AwaitWorker"}
    /\ MaxRounds \in Nat
    /\ None \notin Scope \cup Answers /\ "initialized" \notin Stream
    /\ Roots \cap {"default", "container", "empty", "junk", "error"} = {}

\* Two roots/list_changed can come, the bridge's and the client's: two rounds.
Round   == 1..MaxRounds
\* What carries a half of the handshake: the GETs and the initialized POST.
Handler == Stream \cup {"initialized"}

VARIABLES
    mode,      \* SessionManager::on_empty_roots
    hs,        \* Session.handshake_state
    sandbox,   \* Session.sandbox_state_machine: [st, scope]
    stage,     \* [Handler -> how far it is]
    listening, \* streams that are subscribed to the session's events
    down, up,  \* bridge to worker and worker to bridge
    asked,     \* rounds in Session.pending_client_requests
    seen,      \* rounds whose roots/list has reached the client
    reply,     \* [Round -> what the client's answer says, while it is being handled]
    changes,   \* the client's own roots/list_changed: "none", "forwards" or "sent"
    greeted,   \* the worker has had notifications/initialized
    asking,    \* the round of the worker's open roots/list, or 0
    rounds,    \* roots/list requests so far
    committed, \* the scope the worker has committed, or None
    waiter,    \* a request that must wait for initialized
    elapsed,   \* the handshake timeout has passed
    reaper     \* the sweep: "idle", "found" (it will terminate), "done"

bridge == <<mode, hs, sandbox, stage, listening, asked, reply, changes, waiter, elapsed, reaper>>
worker == <<greeted, asking, rounds, committed>>
vars   == <<mode, hs, sandbox, stage, listening, down, up, asked, seen, reply, changes,
            greeted, asking, rounds, committed, waiter, elapsed, reaper>>

Settled == {"Active", "Failed", "Terminated"}

HandshakeTypeOK ==
    /\ mode \in Modes
    /\ hs \in {"AwaitingBoth", "AwaitingSseOnly", "AwaitingMcpOnly", "RootsRequested"}
    /\ sandbox \in [st : {"AwaitingRoots", "Configuring"} \cup Settled, scope : Scope \cup {None}]
    /\ stage \in [Handler -> {"none", "entered", "sends", "locks", "done"}]
    /\ listening \subseteq Stream
    /\ asked \subseteq Round /\ seen \subseteq Round
    /\ reply \in [Round -> Answers \cup {None}]
    /\ changes \in {"none", "forwards", "sent"}
    /\ greeted \in BOOLEAN /\ asking \in 0..MaxRounds /\ rounds \in 0..MaxRounds
    /\ committed \in Scope \cup {None}
    /\ waiter \in {"none", "checked", "parked", "through", "refused"}
    /\ elapsed \in BOOLEAN /\ reaper \in {"idle", "found", "done"}

Initialized == hs \in {"AwaitingMcpOnly", "RootsRequested"}
Held        == sandbox.st \in {"Active", "Configuring"}

\* A client without the roots capability fails at once where roots are required
\* (maybe_fail_sandbox_for_rootless_client).
Init ==
    /\ mode \in Modes
    /\ hs = "AwaitingBoth"
    /\ \/ sandbox = [st |-> "AwaitingRoots", scope |-> None]
       \/ mode = "Fail" /\ sandbox = [st |-> "Failed", scope |-> None]
    /\ stage = [h \in Handler |-> "none"]
    /\ listening = {}
    /\ down = <<>> /\ up = <<>>
    /\ asked = {} /\ seen = {}
    /\ reply = [n \in Round |-> None]
    /\ changes = "none"
    /\ greeted = FALSE /\ asking = 0 /\ rounds = 0 /\ committed = None
    /\ waiter = "none" /\ elapsed = FALSE /\ reaper = "idle"

-----------------------------------------------------------------------------
(***************************************************************************)
(* The bridge's record of the scope (SandboxStateMachine).                 *)
(***************************************************************************)
\* lock_sandbox stages what it resolved, unless something was staged before.
Lock(scope) ==
    sandbox' = IF sandbox.st = "AwaitingRoots"
               THEN [st |-> "Configuring", scope |-> scope] ELSE sandbox

ToFailed ==
    sandbox' = IF sandbox.st \in {"Failed", "Terminated"} THEN sandbox
               ELSE [st |-> "Failed", scope |-> None]

ToActive_KeepsStaged(scope) ==
    sandbox' = CASE sandbox.st = "AwaitingRoots" -> [st |-> "Active", scope |-> scope]
                 [] sandbox.st = "Configuring" -> [st |-> "Active", scope |-> sandbox.scope]
                 [] OTHER -> sandbox

ToActive_FromConfiguring(scope) ==
    sandbox' = IF sandbox.st = "Configuring" THEN [st |-> "Active", scope |-> scope] ELSE sandbox

\* transition_to_active_with_scopes; the worker's report always names its scope.
ToActive(scope) ==
    sandbox' = IF sandbox.st \in {"AwaitingRoots", "Configuring"}
               THEN [st |-> "Active", scope |-> scope] ELSE sandbox

-----------------------------------------------------------------------------
(***************************************************************************)
(* The two halves of the handshake.                                        *)
(***************************************************************************)
At(h, s) == stage' = [stage EXCEPT ![h] = s]

\* handle_sse_stream subscribes first; a stream that resumes has missed events
\* replayed to it.
OpenStream(g) ==
    /\ stage[g] = "none" /\ reaper # "done"
    /\ At(g, "entered")
    /\ listening' = listening \cup {g}
    /\ \/ UNCHANGED seen
       \/ seen' = seen \cup asked
    /\ UNCHANGED <<mode, hs, sandbox, down, up, asked, reply, changes, worker, waiter, elapsed, reaper>>

CloseStream(g) ==
    /\ g \in listening
    /\ listening' = listening \ {g}
    /\ UNCHANGED <<mode, hs, sandbox, stage, down, up, asked, seen, reply, changes, worker,
                   waiter, elapsed, reaper>>

PostInitialized_NotForwarded ==
    /\ stage["initialized"] = "none" /\ reaper # "done"
    /\ At("initialized", "entered")
    /\ UNCHANGED <<mode, hs, sandbox, listening, down, up, asked, seen, reply, changes, worker,
                   waiter, elapsed, reaper>>

\* forward_notification: the worker gets initialized before the bridge marks it.
PostInitialized ==
    /\ stage["initialized"] = "none" /\ reaper # "done"
    /\ At("initialized", "entered")
    /\ down' = Append(down, [m |-> "initialized"])
    /\ UNCHANGED <<mode, hs, sandbox, listening, up, asked, seen, reply, changes, worker,
                   waiter, elapsed, reaper>>

\* Whose half it is, what is still missing then, and what completes it.
Partial(h)    == IF h = "initialized" THEN "AwaitingMcpOnly" ELSE "AwaitingSseOnly"
Completing(h) == IF h = "initialized" THEN "AwaitingSseOnly" ELSE "AwaitingMcpOnly"

\* Who waits for initialized is woken whenever it is marked.
Wakes(h) == waiter' = IF h = "initialized" /\ waiter = "parked" THEN "through" ELSE waiter

\* transition_handshake_half.  A stream that does not complete it is ready; the
\* initialized POST locks the default scope in any case.
Mark(h) ==
    /\ stage[h] = "entered"
    /\ \/ /\ hs = "AwaitingBoth"
          /\ hs' = Partial(h)
          /\ At(h, IF h = "initialized" THEN "locks" ELSE "done")
       \/ /\ hs = Completing(h)
          /\ hs' = "RootsRequested"
          /\ At(h, "sends")
       \/ /\ hs \notin {"AwaitingBoth", Completing(h)}
          /\ At(h, IF h = "initialized" THEN "locks" ELSE "done")
          /\ UNCHANGED hs
    /\ Wakes(h)
    /\ UNCHANGED <<mode, sandbox, listening, down, up, asked, seen, reply, changes, worker,
                   elapsed, reaper>>

\* send_roots_list_changed
SendChanged(h) ==
    /\ stage[h] = "sends"
    /\ At(h, "locks")
    /\ down' = Append(down, [m |-> "list_changed"])
    /\ UNCHANGED <<mode, hs, sandbox, listening, up, asked, seen, reply, changes, worker,
                   waiter, elapsed, reaper>>

\* auto_lock_if_default_scope
AutoLock(h) ==
    /\ stage[h] = "locks"
    /\ At(h, "done")
    /\ IF mode = "UseDefaultScope" /\ reaper # "done" THEN Lock("default") ELSE UNCHANGED sandbox
    /\ UNCHANGED <<mode, hs, listening, down, up, asked, seen, reply, changes, worker,
                   waiter, elapsed, reaper>>

-----------------------------------------------------------------------------
(***************************************************************************)
(* What the worker says, and what the client answers.                      *)
(***************************************************************************)
\* dispatch_subprocess_line: a request of the worker is remembered and
\* broadcast; a report moves the sandbox.
Hear ==
    /\ up # <<>> /\ reaper # "done"
    /\ up' = Tail(up)
    /\ LET msg == Head(up) IN
       \/ /\ msg.m = "roots/list"
          /\ asked' = asked \cup {msg.n}
          /\ seen' = IF listening # {} THEN seen \cup {msg.n} ELSE seen
          /\ UNCHANGED sandbox
       \/ msg.m = "configured" /\ ToActive(msg.scope) /\ UNCHANGED <<asked, seen>>
       \/ msg.m = "failed" /\ ToFailed /\ UNCHANGED <<asked, seen>>
    /\ UNCHANGED <<mode, hs, stage, listening, down, reply, changes, worker, waiter, elapsed, reaper>>

\* try_lock_sandbox_from_roots: an error locks nothing; no roots: see mode;
\* roots that are no file: URIs are refused.
LockFromRoots(a) ==
    \/ a \in Roots /\ Lock(a)
    \/ a = "empty" /\ mode = "Fail" /\ ToFailed
    \/ a = "empty" /\ mode = "UseDefaultScope" /\ Lock("default")
    \/ a = "empty" /\ mode = "AwaitWorker" /\ UNCHANGED sandbox
    \/ a \in {"junk", "error"} /\ UNCHANGED sandbox

\* handle_client_response records the scope, then forwards the answer.
ClientAnswers(n, a) ==
    /\ n \in seen /\ n \in asked /\ reaper # "done"
    /\ asked' = asked \ {n}
    /\ reply' = [reply EXCEPT ![n] = a]
    /\ LockFromRoots(a)
    /\ UNCHANGED <<mode, hs, stage, listening, down, up, seen, changes, worker, waiter, elapsed, reaper>>

ForwardAnswer(n) ==
    /\ reply[n] # None
    /\ reply' = [reply EXCEPT ![n] = None]
    /\ down' = IF reaper = "done" THEN down ELSE Append(down, [m |-> "answer", n |-> n, a |-> reply[n]])
    /\ UNCHANGED <<mode, hs, sandbox, stage, listening, up, asked, seen, changes, worker,
                   waiter, elapsed, reaper>>

\* The client's own roots/list_changed: forwarded before anything is locked,
\* else acknowledged and dropped (handle_roots_changed).
ClientChangesRoots ==
    /\ changes = "none" /\ Initialized /\ reaper # "done"
    /\ changes' = IF sandbox.st = "AwaitingRoots" THEN "forwards" ELSE "sent"
    /\ UNCHANGED <<mode, hs, sandbox, stage, listening, down, up, asked, seen, reply, worker,
                   waiter, elapsed, reaper>>

ForwardChange ==
    /\ changes = "forwards"
    /\ changes' = "sent"
    /\ down' = Append(down, [m |-> "list_changed"])
    /\ UNCHANGED <<mode, hs, sandbox, stage, listening, up, asked, seen, reply, worker,
                   waiter, elapsed, reaper>>

-----------------------------------------------------------------------------
(***************************************************************************)
(* The worker (deferred: nothing is committed before list_changed).        *)
(***************************************************************************)
\* The scopes it was started with, if any.
Seed == CASE mode = "UseDefaultScope" -> "default"
          [] mode = "AwaitWorker" -> "container"
          [] OTHER -> None

\* It commits, enforces and reports; a scope it cannot enforce it reports failed.
Commit(scope) ==
    /\ committed' = scope
    /\ \/ up' = Append(up, [m |-> "configured", scope |-> scope])
       \/ up' = Append(up, [m |-> "failed"])

\* One configuration at a time, and none once a scope is committed.  A scope the
\* operator chose is committed without asking.
Configure ==
    \/ asking = 0 /\ committed = None /\ mode = "UseDefaultScope"
       /\ Commit(Seed) /\ UNCHANGED <<asking, rounds>>
    \/ asking = 0 /\ committed = None /\ mode # "UseDefaultScope"
       /\ rounds < MaxRounds
       /\ rounds' = rounds + 1 /\ asking' = rounds + 1
       /\ up' = Append(up, [m |-> "roots/list", n |-> rounds + 1])
       /\ UNCHANGED committed
    \/ (asking # 0 \/ committed # None) /\ UNCHANGED <<up, asking, rounds, committed>>

\* The round is over: roots are committed, or what it was started with; with
\* neither a failed request is reported and an empty answer is not.
Conclude(a) ==
    /\ asking' = 0
    /\ \/ a \in Roots /\ Commit(a)
       \/ a \notin Roots /\ Seed # None /\ Commit(Seed)
       \/ a = "error" /\ Seed = None
          /\ up' = Append(up, [m |-> "failed"]) /\ UNCHANGED committed
       \/ a \in {"empty", "junk"} /\ Seed = None /\ UNCHANGED <<up, committed>>
    /\ UNCHANGED rounds

WorkerHears ==
    /\ down # <<>> /\ reaper # "done"
    /\ down' = Tail(down)
    /\ LET msg == Head(down) IN
       \/ /\ msg.m = "initialized"
          /\ greeted' = TRUE
          /\ UNCHANGED <<up, asking, rounds, committed>>
       \/ msg.m = "list_changed" /\ Configure /\ UNCHANGED greeted
       \/ msg.m = "answer" /\ msg.n = asking /\ Conclude(msg.a) /\ UNCHANGED greeted
       \/ msg.m = "answer" /\ msg.n # asking /\ UNCHANGED <<up, worker>>
    /\ UNCHANGED <<bridge, seen>>

\* The roots/list of the worker times out.
WorkerGivesUp ==
    /\ asking # 0 /\ reaper # "done"
    /\ Conclude("error")
    /\ UNCHANGED <<bridge, down, seen, greeted>>

-----------------------------------------------------------------------------
(***************************************************************************)
(* A request that waits for initialized, and the sweep.                    *)
(***************************************************************************)
\* wait_for_mcp_initialized looks, then subscribes to the notification.
LookInitialized ==
    /\ waiter = "none" /\ reaper # "done"
    /\ waiter' = IF Initialized THEN "through" ELSE "checked"
    /\ UNCHANGED <<mode, hs, sandbox, stage, listening, down, up, asked, seen, reply, changes,
                   worker, elapsed, reaper>>

Park ==
    /\ waiter = "checked"
    /\ waiter' = "parked"
    /\ UNCHANGED <<mode, hs, sandbox, stage, listening, down, up, asked, seen, reply, changes,
                   worker, elapsed, reaper>>

\* wait_for_initialization: 504 after thirty seconds.
WaitTimesOut ==
    /\ waiter = "parked"
    /\ waiter' = "refused"
    /\ UNCHANGED <<mode, hs, sandbox, stage, listening, down, up, asked, seen, reply, changes,
                   worker, elapsed, reaper>>

TimePasses ==
    /\ ~elapsed
    /\ elapsed' = TRUE
    /\ UNCHANGED <<mode, hs, sandbox, stage, listening, down, up, asked, seen, reply, changes,
                   worker, waiter, reaper>>

\* prune_stale_sessions makes its list first ...
FindStale ==
    /\ reaper = "idle" /\ elapsed /\ ~Held
    /\ reaper' = "found"
    /\ UNCHANGED <<mode, hs, sandbox, stage, listening, down, up, asked, seen, reply, changes,
                   worker, waiter, elapsed>>

\* ... and terminates what is on it one after the other.
Reap ==
    /\ reaper = "found"
    /\ reaper' = "done"
    /\ sandbox' = IF sandbox.st = "Failed" THEN sandbox ELSE [st |-> "Terminated", scope |-> None]
    /\ UNCHANGED <<mode, hs, stage, listening, down, up, asked, seen, reply, changes,
                   worker, waiter, elapsed>>

Bridge == \/ \E h \in Handler : Mark(h) \/ SendChanged(h) \/ AutoLock(h)
          \/ Hear \/ ForwardChange \/ \E n \in Round : ForwardAnswer(n)

Next ==
    \/ PostInitialized \/ ClientChangesRoots
    \/ \E g \in Stream : OpenStream(g) \/ CloseStream(g)
    \/ \E h \in Handler : Mark(h) \/ SendChanged(h) \/ AutoLock(h)
    \/ \E n \in Round : ForwardAnswer(n) \/ \E a \in Answers : ClientAnswers(n, a)
    \/ Hear \/ ForwardChange
    \/ WorkerHears \/ WorkerGivesUp
    \/ LookInitialized \/ Park \/ WaitTimesOut
    \/ TimePasses \/ FindStale \/ Reap

Spec == Init /\ [][Next]_vars

\* The runtime runs what can run, time passes, and the sweep comes round; the
\* client need do nothing, and the worker gives up on a client that does not
\* answer.
FairSpec ==
    /\ Spec
    /\ WF_vars(Bridge) /\ WF_vars(WorkerHears) /\ WF_vars(WorkerGivesUp)
    /\ WF_vars(TimePasses) /\ WF_vars(FindStale) /\ WF_vars(Reap)

-----------------------------------------------------------------------------
(***************************************************************************)
(* What the handshake promises.                                            *)
(***************************************************************************)
\* SPEC RB.2: tools/call is let through only to a worker that has committed a
\* scope, and the scope the bridge shows is that scope, whatever roots the
\* bridge staged before.
ActiveScopeIsCommitted == sandbox.st = "Active" => sandbox.scope = committed /\ committed # None

\* rmcp would refuse it: the worker is told of roots only after initialized,
\* although the two come from two requests.
InitializedFirst ==
    \A i \in DOMAIN down : down[i].m = "list_changed" =>
        greeted \/ \E j \in 1..i-1 : down[j].m = "initialized"

\* A scope is committed once.
CommittedOnce == [][committed # None => committed' = committed]_vars

\* A request parked before initialized is let through by it, whichever half it
\* completes (transition_mcp_initialized).
ParkedIsWoken ==
    [][waiter = "parked" /\ ~Initialized /\ Initialized' => waiter' = "through"]_vars

\* Every handshake comes to an end: the sandbox is active or failed, or the
\* session is reaped.  One does not: a default scope was staged for a client that
\* never opens a stream.  Its worker is never told to commit, and a session that
\* is Configuring is not swept (is_handshake_timed_out).
NeverListened == mode = "UseDefaultScope" /\ hs = "AwaitingMcpOnly" /\ sandbox.st = "Configuring"
HandshakeEnds == <>[](sandbox.st \in Settled \/ NeverListened)
=============================================================================
