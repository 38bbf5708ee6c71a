--------------------------- MODULE BridgeRequests ---------------------------
(***************************************************************************)
(* The requests of one session of the HTTP bridge (ahma_http_bridge        *)
(* session.rs): a handler registers the request's id, sends the request to *)
(* the session's I/O task over a bounded channel and waits for the channel *)
(* it registered.  The I/O task writes one frame after the other to the    *)
(* worker, which reads when it likes, and dispatches what the worker says  *)
(* in between.  The session is terminated from anywhere, or its worker     *)
(* dies.                                                                   *)
(*                                                                         *)
(* Sessions share nothing here but the map they are looked up in, so one   *)
(* session shows what there is to see.                                     *)
(***************************************************************************)
EXTENDS Sequences, Naturals

CONSTANTS
    Request,  \* requests of the session's clients
    Ids,      \* JSON-RPC ids
    Id,       \* [Request -> Ids]; clients may reuse an id
    Json,     \* requests answered in the POST's body: a client that leaves drops the wait
    Room,     \* the capacity of the channel to the I/O task: 100
    Note,     \* a message nobody waits for: a notification, an answer passed on
    None

ASSUME BridgeAssumption ==
    /\ Id \in [Request -> Ids]
    /\ Json \subseteq Request
    /\ Room \in Nat \ {0}
    /\ None \notin Request /\ "gone" \notin Request /\ None # "gone"
    /\ Note \notin Request /\ Note # None

VARIABLES
    task,       \* [Request -> how far its handler is, or how it ended]
    pending,    \* the requests whose sender is in Session.pending_requests
    channel,    \* [Request -> what was sent on its channel]
    outbox,     \* the channel to the I/O task
    frame,      \* what the I/O task is writing to the worker
    asked,      \* requests written to the worker that it has not answered
    worker,     \* the worker runs and has its pipes open
    io,         \* how far Session's I/O task is
    terminated, \* Session.terminated
    mapped,     \* the session is in SessionManager.sessions
    ending,     \* how far terminate_session is
    byClient    \* terminate_session runs in a client's handler

pipe     == <<outbox, frame, asked>>
requests == <<task, pending, channel, pipe>>
session  == <<worker, io, terminated, mapped, ending, byClient>>
vars     == <<requests, session>>

Underway == {"idle", "looked", "sending", "waiting", "expired"}
\* left: the client went away during the wait.  cut: before it, during the send.
Ends     == {"answered", "refused", "duplicate", "unsent", "closed", "timedOut",
             "left", "cut"}

BridgeTypeOK ==
    /\ task \in [Request -> Underway \cup Ends]
    /\ pending \subseteq Request
    /\ channel \in [Request -> Request \cup {None, "gone"}]
    /\ outbox \in Seq(Request \cup {Note}) /\ Len(outbox) <= Room
    /\ frame \in Request \cup {Note, None}
    /\ asked \subseteq Request
    /\ worker \in BOOLEAN /\ terminated \in BOOLEAN
    /\ mapped \in BOOLEAN /\ byClient \in BOOLEAN
    /\ io \in {"runs", "stopped", "marked", "asksCause", "leaving", "gone"}
    /\ ending \in {"no", "removed", "marked", "failed", "cleared", "abandoned"}

Init ==
    /\ task = [r \in Request |-> "idle"]
    /\ pending = {} /\ asked = {}
    /\ outbox = <<>> /\ frame = None
    /\ channel = [r \in Request |-> None]
    /\ worker = TRUE /\ io = "runs"
    /\ terminated = FALSE /\ mapped = TRUE
    /\ ending = "no" /\ byClient = FALSE

-----------------------------------------------------------------------------
Goto(r, stage) == task' = [task EXCEPT ![r] = stage]

SameId(r) == {q \in Request : Id[q] = Id[r]}

\* oneshot::Sender::is_closed: nobody holds the receiver any more.
Closed(q) == task[q] \in Ends

\* clear_pending_request takes whatever is registered under the id.
ClearById(r) == pending' = pending \ SameId(r)

\* InFlightRequest::drop: its own receiver first, then a closed entry of its id.
ReleaseId(r) == pending' = pending \ {q \in SameId(r) : q = r \/ Closed(q)}

\* fail_pending_requests: an error to every request that is registered.
FailPending ==
    /\ channel' = [r \in Request |-> IF r \in pending THEN "gone" ELSE channel[r]]
    /\ pending' = {}

-----------------------------------------------------------------------------
(***************************************************************************)
(* A handler: start_request, then InFlightRequest::response.               *)
(***************************************************************************)
\* live_session
Look(r) ==
    /\ task[r] = "idle"
    /\ Goto(r, IF mapped /\ ~terminated THEN "looked" ELSE "refused")
    /\ UNCHANGED <<pending, channel, pipe, session>>

\* The later request takes the id over; the earlier one is told so.
Register_Supersedes(r) ==
    /\ task[r] = "looked"
    /\ Goto(r, "sending")
    /\ pending' = (pending \ SameId(r)) \cup {r}
    /\ channel' = [q \in Request |-> IF q \in pending \cap SameId(r) THEN "gone" ELSE channel[q]]
    /\ UNCHANGED <<pipe, session>>

Register(r) ==
    /\ task[r] = "looked"
    /\ IF pending \cap SameId(r) = {}
       THEN Goto(r, "sending") /\ pending' = pending \cup {r}
       ELSE Goto(r, "duplicate") /\ UNCHANGED pending
    /\ UNCHANGED <<channel, pipe, session>>

\* The channel to the I/O task takes the request when it has room, however long
\* that lasts, until the I/O task is gone.
Send(r) ==
    /\ task[r] = "sending"
    /\ \/ /\ io # "gone" /\ Len(outbox) < Room
          /\ Goto(r, "waiting")
          /\ outbox' = Append(outbox, r)
          /\ UNCHANGED pending
       \/ /\ io = "gone"
          /\ Goto(r, "unsent")
          /\ ClearById(r)
          /\ UNCHANGED outbox
    /\ UNCHANGED <<frame, asked, channel, session>>

\* send_message: notifications, roots answers and pings take the same channel.
SendNote ==
    /\ io # "gone" /\ Len(outbox) < Room
    /\ outbox' = Append(outbox, Note)
    /\ UNCHANGED <<task, pending, channel, frame, asked, session>>

Receive(r) ==
    /\ task[r] = "waiting" /\ channel[r] # None
    /\ Goto(r, "answered")
    /\ ReleaseId(r)
    /\ UNCHANGED <<channel, pipe, session>>

\* The sender was dropped: "Response channel closed".
SeesClosed(r) ==
    /\ task[r] = "waiting" /\ channel[r] = None /\ r \notin pending
    /\ Goto(r, "closed")
    /\ ReleaseId(r)
    /\ UNCHANGED <<channel, pipe, session>>

TimesOut_WhileAlive(r) ==
    /\ task[r] = "waiting" /\ channel[r] = None /\ r \in pending /\ ~terminated
    /\ Goto(r, "expired")
    /\ UNCHANGED <<pending, channel, pipe, session>>

TimesOut(r) ==
    /\ task[r] = "waiting" /\ channel[r] = None /\ r \in pending
    /\ Goto(r, "expired")
    /\ UNCHANGED <<pending, channel, pipe, session>>

GivesUp(r) ==
    /\ task[r] = "expired"
    /\ Goto(r, "timedOut")
    /\ ClearById(r)
    /\ UNCHANGED <<channel, pipe, session>>

Disconnect_ById(r) ==
    /\ \/ task[r] = "sending" /\ Goto(r, "cut") /\ UNCHANGED pending
       \/ task[r] = "waiting" /\ r \in Json /\ Goto(r, "left") /\ ClearById(r)
    /\ UNCHANGED <<channel, pipe, session>>

Disconnect_Keeps(r) ==
    /\ \/ task[r] = "sending" /\ Goto(r, "cut") /\ UNCHANGED pending
       \/ task[r] = "waiting" /\ r \in Json /\ Goto(r, "left") /\ UNCHANGED pending
    /\ UNCHANGED <<channel, pipe, session>>

\* The client goes away and the server drops the handler where it waits.  During
\* the send there is no InFlightRequest yet: nothing releases the id.
Disconnect(r) ==
    /\ \/ task[r] = "sending" /\ Goto(r, "cut") /\ UNCHANGED pending
       \/ task[r] = "waiting" /\ r \in Json /\ Goto(r, "left") /\ ReleaseId(r)
    /\ UNCHANGED <<channel, pipe, session>>

Handle(r) == Look(r) \/ Register(r) \/ Send(r) \/ Receive(r) \/ SeesClosed(r) \/ GivesUp(r)

-----------------------------------------------------------------------------
(***************************************************************************)
(* The I/O task: handle_session_io, dispatch_subprocess_line and           *)
(* finish_session_io.                                                      *)
(***************************************************************************)
TakeFrame ==
    /\ io = "runs" /\ frame = None /\ outbox # <<>>
    /\ frame' = Head(outbox) /\ outbox' = Tail(outbox)
    /\ UNCHANGED <<task, pending, channel, asked, session>>

\* write_frame_to_peer: the worker reads the frame, at once, late or never.
WriteFrame ==
    /\ io = "runs" /\ frame # None /\ worker
    /\ asked' = asked \cup ({frame} \cap Request) /\ frame' = None
    /\ UNCHANGED <<task, pending, channel, outbox, session>>

\* The answer to r goes to whoever is registered under its id; nobody: broadcast.
Dispatch(r) ==
    /\ io = "runs" /\ frame = None /\ r \in asked
    /\ asked' = asked \ {r}
    /\ channel' = [q \in Request |-> IF q \in pending \cap SameId(r) THEN r ELSE channel[q]]
    /\ pending' = pending \ SameId(r)
    /\ UNCHANGED <<task, outbox, frame, session>>

WorkerDies ==
    /\ worker
    /\ worker' = FALSE
    /\ UNCHANGED <<requests, io, terminated, mapped, ending, byClient>>

\* In the middle of a write the I/O task sees nothing but the write fail.
StopIo ==
    /\ io = "runs"
    /\ ~worker \/ (terminated /\ frame = None)
    /\ io' = "stopped" /\ frame' = None
    /\ UNCHANGED <<task, pending, channel, outbox, asked>>
    /\ UNCHANGED <<worker, terminated, mapped, ending, byClient>>

MarkDead ==
    /\ io = "stopped"
    /\ io' = "marked" /\ terminated' = TRUE
    /\ UNCHANGED <<requests, worker, mapped, ending, byClient>>

\* Nothing pending: it returns.  Else it waits briefly for the cause of death.
LookPending ==
    /\ io = "marked"
    /\ io' = IF pending = {} THEN "leaving" ELSE "asksCause"
    /\ UNCHANGED <<requests, worker, terminated, mapped, ending, byClient>>

FailRest ==
    /\ io = "asksCause"
    /\ io' = "leaving"
    /\ FailPending
    /\ UNCHANGED <<task, pipe, worker, terminated, mapped, ending, byClient>>

DropReceiver ==
    /\ io = "leaving"
    /\ io' = "gone" /\ outbox' = <<>>
    /\ UNCHANGED <<task, pending, channel, frame, asked>>
    /\ UNCHANGED <<worker, terminated, mapped, ending, byClient>>

IoTask == TakeFrame \/ StopIo \/ MarkDead \/ LookPending \/ FailRest \/ DropReceiver

-----------------------------------------------------------------------------
(***************************************************************************)
(* terminate_session: whoever takes the session out of the map runs it.    *)
(***************************************************************************)
Remove(client) ==
    /\ mapped
    /\ mapped' = FALSE
    /\ ending' = "removed" /\ byClient' = client
    /\ UNCHANGED <<requests, worker, io, terminated>>

\* DELETE, a second initialize, eviction for another client's session.
ClientTerminates == Remove(TRUE)

\* The bridge's own tasks, for reasons of their own.
BridgeTerminates == Remove(FALSE)

\* prune_stale_sessions finds the session dead.
Sweep == terminated /\ Remove(FALSE)

SetTerminated ==
    /\ ending = "removed"
    /\ ending' = "marked" /\ terminated' = TRUE
    /\ UNCHANGED <<requests, worker, io, mapped, byClient>>

AnswerAll_Skipped ==
    /\ ending = "marked"
    /\ ending' = "failed"
    /\ UNCHANGED <<requests, worker, io, terminated, mapped, byClient>>

AnswerAll ==
    /\ ending = "marked"
    /\ ending' = "failed"
    /\ FailPending
    /\ UNCHANGED <<task, pipe, worker, io, terminated, mapped, byClient>>

\* peer_shutdown ends the worker, or its grace period passes; what was
\* registered meanwhile is dropped.
ShutDownPeer ==
    /\ ending = "failed"
    /\ ending' = "cleared"
    /\ worker' \in {worker, FALSE}
    /\ pending' = {}
    /\ UNCHANGED <<task, channel, pipe, io, terminated, mapped, byClient>>

\* The client whose handler waits for the peer to end goes away.
Abandon ==
    /\ ending = "failed" /\ byClient
    /\ ending' = "abandoned"
    /\ UNCHANGED <<requests, worker, io, terminated, mapped, byClient>>

Terminator == SetTerminated \/ AnswerAll \/ ShutDownPeer

Next ==
    \/ \E r \in Request : \/ Look(r) \/ Register(r) \/ Send(r) \/ Receive(r)
                          \/ SeesClosed(r) \/ TimesOut(r) \/ GivesUp(r)
                          \/ Disconnect(r) \/ Dispatch(r)
    \/ SendNote \/ TakeFrame \/ WriteFrame
    \/ WorkerDies \/ StopIo \/ MarkDead \/ LookPending \/ FailRest \/ DropReceiver
    \/ ClientTerminates \/ BridgeTerminates \/ Sweep
    \/ SetTerminated \/ AnswerAll \/ ShutDownPeer \/ Abandon

Spec == Init /\ [][Next]_vars

\* The runtime runs what can run, and the sweep comes every five seconds.  No
\* worker need read or answer, and no timer is counted on.  The channel serves its
\* senders in turn, and select! picks any branch that stays ready.
FairSpec ==
    /\ Spec
    /\ \A r \in Request : WF_vars(Handle(r)) /\ SF_vars(Send(r))
    /\ WF_vars(IoTask) /\ SF_vars(StopIo) /\ WF_vars(Terminator) /\ WF_vars(Sweep)

-----------------------------------------------------------------------------
(***************************************************************************)
(* What the bridge promises about requests.                                *)
(***************************************************************************)
\* A worker's answer reaches another request than the one it answers only when
\* the session is at its end, or when a request gave up before and its id was
\* used again: from then on every answer to that id may reach the next request
\* (dispatch_subprocess_line routes by id; register_pending_request refuses an id
\* in flight).
GaveUp(q) == task[q] \in {"timedOut", "expired", "left", "cut", "closed"}
Blurred(q) == terminated \/ \E s \in SameId(q) : GaveUp(s)
RightAnswer ==
    [][\A r, q \in Request :
        channel'[r] = q /\ channel[r] # q => q = r \/ Blurred(q)]_vars

\* No healthy request is told "Response channel closed": only one that raced the
\* end of its session, or whose id a request that was timing out shared, whose
\* clear_pending_request takes what it finds (await_response, session.rs:914).
HealthyNotClosed ==
    \A r \in Request : task[r] = "closed" =>
        \/ ending = "cleared"
        \/ \E q \in SameId(r) \ {r} : task[q] \in {"timedOut", "unsent"}

\* An id is given back when its request ends, however it ends, unless the
\* client left while the request was still being written (InFlightRequest).
IdsAreReleased ==
    \A r \in pending : task[r] \in {"sending", "waiting", "expired", "cut"}

\* A request that waits while its session is in the map, or is not yet marked
\* terminated, is told when the session dies, with no timer's help (SPEC R8.3.7:
\* fail_pending_requests in finish_session_io and in terminate_session).  A
\* request registered after both of them looked waits for its own timer.
ToldOfTheEnd ==
    \A r \in Request :
        [](task[r] = "waiting" /\ (mapped \/ ~terminated)
            => <>(task[r] # "waiting") \/ []~terminated)

\* A request that was never sent, since the channel is full and the I/O task is at
\* the frame of another that the live worker does not read.
Stuck(r) == task[r] = "sending" /\ Len(outbox) = Room /\ frame # None /\ worker

\* With its timer every request ends, whatever the worker does, but one that gets
\* stuck before its timer starts: send_serialized_to_subprocess waits for room
\* without a bound, and write_frame_to_peer for the worker.
EveryRequestEnds ==
    (\A r \in Request : WF_vars(TimesOut(r)))
        => \A r \in Request : [](task[r] = "looked" => <>(task[r] \in Ends \/ []Stuck(r)))
=============================================================================
