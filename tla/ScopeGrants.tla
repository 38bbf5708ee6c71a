----------------------------- MODULE ScopeGrants -----------------------------
(***************************************************************************)
(* The permission questions of one session (ahma_common scope_grant.rs,    *)
(* ahma_mcp sandbox/permission_broker.rs and hub_reporter.rs) over the     *)
(* scopes its answers change (LiveScopes).                                 *)
(*                                                                         *)
(* A refused path becomes a question in the GrantCoordinator.  The broker  *)
(* takes it down a ladder: the MCP client, then the TUIs the hub shows it  *)
(* on, then nobody.  The client's answer is applied by the task that       *)
(* asked, the TUI's by the hub reporter, the first of them only.  The      *)
(* connection to the hub comes and goes, and the hub forgets what was      *)
(* asked over one that has gone.                                           *)
(***************************************************************************)
EXTENDS LiveScopes, Naturals

CONSTANTS
    Question,  \* decision ids, each minted once
    Tier,      \* the tiers a human picks among
    Budget     \* PROMPT_BUDGET

VARIABLES
    key,        \* [Question -> the path and access it is about], None before it is raised
    inFlight,   \* Inner.in_flight
    activeKeys, \* Inner.active_keys
    dismissed,  \* Inner.dismissed
    decided,    \* Inner.decided
    resolved,   \* Inner.resolved
    window,     \* the questions whose stamp in Inner.raised_window counts
    reraised,   \* the keys a human asked again for
    task,       \* [Question -> how far the task that raised it is]
    demoted,    \* the client is HarnessState::Demoted
    apply,      \* [Question -> how far its answer's effects are]
    link,       \* the hub has this instance's connection
    viewers,    \* the reporter was told that a TUI is watching
    chan,       \* questions in the broker's channel to the reporter
    atHub,      \* AskedAtHub.relays
    shown,      \* questions the hub holds for its TUIs
    answers     \* questions with an answer on its way from the hub

coordinator == <<key, inFlight, activeKeys, dismissed, decided, resolved, window, reraised>>
reporter    == <<link, viewers, chan, atHub, shown, answers>>
vars == <<scopes, coordinator, task, demoted, apply, reporter>>

Deny   == [access |-> "none", tier |-> "none"]
Yes    == [access : Access, tier : Tier]
Answer == Yes \cup {Deny}

ASSUME GrantAssumption ==
    /\ Tier \subseteq {"once", "session", "always"}
    /\ None \notin Key /\ None \notin Answer

Asking == {"raised", "asking", "falling", "closing", "applying"}
Applying == {"persist", "live", "push"}

ScopesTypeOK ==
    /\ LiveTypeOK
    /\ key \in [Question -> Key \cup {None}]
    /\ inFlight \subseteq Question /\ resolved \subseteq Question /\ window \subseteq Question
    /\ activeKeys \subseteq Key /\ dismissed \subseteq Key /\ reraised \subseteq Key
    /\ decided \in [Question -> Answer \cup {None}]
    /\ task \in [Question -> Asking \cup {"idle", "gone"}]
    /\ apply \in [Question -> Applying \cup {"no", "done"}]
    /\ demoted \in BOOLEAN /\ link \in BOOLEAN /\ viewers \in BOOLEAN
    /\ chan \subseteq Question /\ atHub \subseteq Question /\ shown \subseteq Question
    /\ answers \subseteq Question

Init ==
    /\ LiveInit
    /\ key = [q \in Question |-> None]
    /\ inFlight = {} /\ activeKeys = {} /\ dismissed = {} /\ resolved = {}
    /\ reraised = {} /\ window = {}
    /\ decided = [q \in Question |-> None]
    /\ task = [q \in Question |-> "idle"]
    /\ apply = [q \in Question |-> "no"]
    /\ demoted = FALSE
    /\ link = FALSE /\ viewers = FALSE
    /\ chan = {} /\ atHub = {} /\ shown = {} /\ answers = {}

-----------------------------------------------------------------------------
(* The coordinator: one mutex, so each of these is one step.               *)

Goto(q, stage) == task' = [task EXCEPT ![q] = stage]

\* What the human's answer to q grants: its path, at the access they chose.
Granted(q) == [path |-> key[q].path, access |-> decided[q].access]

\* What a grant covers: itself, and a read under a write.
Covered(k) == {k} \cup {j \in Key : j.path = k.path /\ j.access = "ro" /\ k.access = "rw"}

Dismissal_ReadStays(k, a) ==
    IF a = Deny THEN {k}
    ELSE IF a.tier = "once" THEN {} ELSE {[path |-> k.path, access |-> a.access]}

\* record_grant_dismissal; a denial dismisses exactly what was asked.
Dismissal(k, a) ==
    CASE a = Deny        -> {k}
      [] a.tier = "once" -> {}
      [] OTHER           -> Covered([path |-> k.path, access |-> a.access])

\* The keys that may become a question now.
Free == Key \ activeKeys

Enter(q, k) ==
    /\ key' = [key EXCEPT ![q] = k]
    /\ inFlight' = inFlight \cup {q}
    /\ activeKeys' = activeKeys \cup {k}

\* begin: neither asked already, nor answered for good, nor over the budget.
Begin(q, k) ==
    /\ key[q] = None
    /\ k \in Free \ dismissed
    /\ Cardinality(window) < Budget
    /\ Enter(q, k)
    /\ window' = window \cup {q}
    /\ UNCHANGED <<dismissed, decided, resolved, reraised>>

\* reopen: what was answered is forgotten, whether or not it becomes a question.
Reopen(k) ==
    /\ dismissed' = dismissed \ {k}
    /\ reraised' = reraised \cup {k}

\* resolve: only the first answer to a question in flight counts.
Takes(q) == q \in inFlight /\ q \notin resolved

Resolve(q, a) ==
    /\ inFlight' = inFlight \ {q}
    /\ activeKeys' = activeKeys \ {key[q]}
    /\ resolved' = resolved \cup {q}
    /\ decided' = [decided EXCEPT ![q] = a]
    /\ dismissed' = dismissed \cup Dismissal(key[q], a)
    /\ UNCHANGED <<key, window, reraised>>

\* cancel_unseen, first half: the budget it took is given back.
Refund(q) ==
    /\ window' = window \ {q}
    /\ UNCHANGED <<key, inFlight, activeKeys, dismissed, decided, resolved, reraised>>

Cancel_KeepsKey(q) ==
    /\ inFlight' = inFlight \ {q}
    /\ resolved' = resolved \cup {q}
    /\ UNCHANGED <<key, activeKeys, dismissed, decided, window, reraised>>

\* cancel: closed with no decision, and free to be asked again.
Cancel(q) ==
    /\ inFlight' = inFlight \ {q}
    /\ activeKeys' = activeKeys \ {key[q]}
    /\ resolved' = resolved \cup {q}
    /\ UNCHANGED <<key, dismissed, decided, window, reraised>>

\* The stamps of the last PROMPT_WINDOW_SECS count; an older one does not.
StampExpires(q) ==
    /\ q \in window
    /\ window' = window \ {q}
    /\ UNCHANGED <<scopes, key, inFlight, activeKeys, dismissed, decided,
                   resolved, reraised, task, demoted, apply, reporter>>

-----------------------------------------------------------------------------
(* The broker: a task per question raised.                                 *)

\* notify_violation_with: a command was refused a path.
Raise(q, k) ==
    /\ Begin(q, k)
    /\ Goto(q, "raised")
    /\ UNCHANGED <<scopes, demoted, apply, reporter>>

\* Rung 1, unless the client has failed before.
AskClient(q) ==
    /\ task[q] = "raised"
    /\ Goto(q, IF demoted THEN "falling" ELSE "asking")
    /\ UNCHANGED <<scopes, coordinator, demoted, apply, reporter>>

\* The first stage of an answer's effects.
FirstStage(a) == IF a = Deny THEN "done" ELSE IF a.tier = "always" THEN "persist" ELSE "live"

ClientAnswers(q, a) ==
    /\ task[q] = "asking"
    /\ Takes(q) /\ Resolve(q, a)
    /\ apply' = [apply EXCEPT ![q] = FirstStage(a)]
    /\ Goto(q, IF a = Deny THEN "gone" ELSE "applying")
    /\ demoted' = FALSE
    /\ UNCHANGED <<scopes, reporter>>

\* No such surface, dismissed, or no answer within ahma's own timeout.
ClientDismisses(q) ==
    /\ task[q] = "asking"
    /\ Goto(q, "falling")
    /\ UNCHANGED <<scopes, coordinator, demoted, apply, reporter>>

ClientFails(q) ==
    /\ task[q] = "asking"
    /\ Goto(q, "falling")
    /\ demoted' = TRUE
    /\ UNCHANGED <<scopes, coordinator, apply, reporter>>

\* Rung 2, while somebody is said to be watching.
AskTui(q) ==
    /\ task[q] = "falling" /\ viewers
    /\ chan' = chan \cup {q}
    /\ Goto(q, "gone")
    /\ UNCHANGED <<scopes, coordinator, demoted, apply, link, viewers, atHub, shown, answers>>

\* Rung 3: nobody can be asked.
FindNobody(q) ==
    /\ task[q] = "falling" /\ ~viewers
    /\ Refund(q)
    /\ Goto(q, "closing")
    /\ UNCHANGED <<scopes, demoted, apply, reporter>>

FailClosed(q) ==
    /\ task[q] = "closing"
    /\ Cancel(q)
    /\ Goto(q, "gone")
    /\ UNCHANGED <<scopes, demoted, apply, reporter>>

-----------------------------------------------------------------------------
(* An answer's effects (apply_scope_grant_answer), by whoever resolved it. *)

\* The task is over, or the reporter tells the hub and goes on.
Settle(q) ==
    /\ apply' = [apply EXCEPT ![q] = "done"]
    /\ task' = [task EXCEPT ![q] = IF @ = "applying" THEN "gone" ELSE @]
    /\ shown' = shown \ {q}

ApplyRest == <<coordinator, demoted, link, viewers, chan, atHub, answers>>

Save(q) ==
    /\ apply[q] = "persist"
    /\ Persist(Granted(q))
    /\ apply' = [apply EXCEPT ![q] = "live"]
    /\ UNCHANGED <<ApplyRest, task, shown>>

\* persist_grant fails: nothing is applied.
SaveFails(q) ==
    /\ apply[q] = "persist"
    /\ Settle(q)
    /\ UNCHANGED <<scopes, ApplyRest>>

\* add_live_grant, alone or as the first half of add_once_grant.
MakeLive(q) ==
    /\ apply[q] = "live"
    /\ AddLive(Granted(q))
    /\ IF decided[q].tier = "once"
       THEN apply' = [apply EXCEPT ![q] = "push"] /\ UNCHANGED <<task, shown>>
       ELSE Settle(q)
    /\ UNCHANGED ApplyRest

RecordOnce(q) ==
    /\ apply[q] = "push"
    /\ PushOnce(Granted(q))
    /\ Settle(q)
    /\ UNCHANGED ApplyRest

-----------------------------------------------------------------------------
(* The hub reporter, one task, and the hub at the other end.               *)

\* The reporter applies a TUI's answer where it received it.
ReporterBusy == \E q \in Question : apply[q] \in Applying /\ task[q] # "applying"

Waiting == atHub \cap inFlight

Rest == <<scopes, demoted, apply>>

\* A fresh question is noted, then sent.
Forward(q) ==
    /\ link /\ ~ReporterBusy /\ q \in chan
    /\ chan' = chan \ {q}
    /\ atHub' = Waiting \cup {q}
    /\ shown' = shown \cup {q}
    /\ UNCHANGED <<Rest, coordinator, task, link, viewers, answers>>

\* A human answers at a TUI, or settle_waiting_copies passes on an answer given
\* in another session and takes the question down.  What the answer is shows
\* when it arrives.
HubAnswers(q) ==
    /\ link /\ q \in shown
    /\ answers' = answers \cup {q}
    /\ shown' \in {shown, shown \ {q}}
    /\ UNCHANGED <<Rest, coordinator, task, link, viewers, chan, atHub>>

\* resolve_scope_grant; an answer that comes second changes nothing.
TakeAnswer(q, a) ==
    /\ link /\ ~ReporterBusy /\ q \in answers
    /\ answers' = answers \ {q}
    /\ IF Takes(q)
       THEN /\ Resolve(q, a)
            /\ apply' = [apply EXCEPT ![q] = FirstStage(a)]
            /\ shown' = IF a = Deny THEN shown \ {q} ELSE shown
       ELSE UNCHANGED <<coordinator, apply, shown>>
    /\ UNCHANGED <<scopes, demoted, task, link, viewers, chan, atHub>>

\* re_raise_scope_grant: asked again at a human's wish, past the memo and the
\* budget.  One still in flight is not asked twice.
ReRaise(q, k) ==
    /\ link /\ ~ReporterBusy /\ key[q] = None
    /\ k \in Free
    /\ Reopen(k) /\ Enter(q, k)
    /\ Goto(q, "gone")
    /\ atHub' = Waiting \cup {q} /\ shown' = shown \cup {q}
    /\ UNCHANGED <<Rest, decided, resolved, window, link, viewers, chan, answers>>

ReRaiseInFlight(k) ==
    /\ link /\ ~ReporterBusy
    /\ k \notin Free
    /\ Reopen(k)
    /\ UNCHANGED <<Rest, key, inFlight, activeKeys, decided, resolved, window, task, reporter>>

HearViewers ==
    /\ link /\ ~ReporterBusy
    /\ viewers' = ~viewers
    /\ UNCHANGED <<Rest, coordinator, task, link, chan, atHub, shown, answers>>

\* The connection goes, or the reporter ends it to register anew: the hub drops
\* the questions, what was on its way is lost, and nobody is known to watch.
Down ==
    /\ link
    /\ link' = FALSE /\ viewers' = FALSE /\ shown' = {} /\ answers' = {}

LinkDrops ==
    /\ Down
    /\ UNCHANGED <<Rest, coordinator, task, chan, atHub>>

\* The connection goes as a fresh question is sent over it: it is noted.
ForwardFails(q) ==
    /\ ~ReporterBusy /\ q \in chan
    /\ chan' = chan \ {q}
    /\ atHub' = Waiting \cup {q}
    /\ Down
    /\ UNCHANGED <<Rest, coordinator, task>>

Reconnect_Forgets ==
    /\ ~link /\ ~ReporterBusy
    /\ link' = TRUE
    /\ atHub' = Waiting
    /\ UNCHANGED <<Rest, coordinator, task, viewers, chan, shown, answers>>

\* It registers, and asks again whatever still waits.
Reconnect ==
    /\ ~link /\ ~ReporterBusy
    /\ link' = TRUE
    /\ atHub' = Waiting /\ shown' = Waiting
    /\ UNCHANGED <<Rest, coordinator, task, viewers, chan, answers>>

-----------------------------------------------------------------------------
LadderStep(q) ==
    \/ AskClient(q) \/ ClientDismisses(q) \/ ClientFails(q)
    \/ AskTui(q) \/ FindNobody(q) \/ FailClosed(q)
    \/ \E a \in Answer : ClientAnswers(q, a)

ApplyStep(q) == Save(q) \/ SaveFails(q) \/ MakeLive(q) \/ RecordOnce(q)

ReporterStep ==
    \/ \E q \in Question :
          \/ Forward(q) \/ ForwardFails(q)
          \/ \E a \in Answer : TakeAnswer(q, a)
          \/ \E k \in Key : ReRaise(q, k)
    \/ \E k \in Key : ReRaiseInFlight(k)
    \/ HearViewers \/ Reconnect

HubStep == LinkDrops \/ \E q \in Question : HubAnswers(q)

SessionStep == CommandStep /\ UNCHANGED <<coordinator, task, demoted, apply, reporter>>

Next ==
    \/ \E q \in Question :
          \/ \E k \in Key : Raise(q, k)
          \/ StampExpires(q) \/ LadderStep(q) \/ ApplyStep(q)
    \/ ReporterStep \/ HubStep \/ SessionStep

Spec == Init /\ [][Next]_vars

-----------------------------------------------------------------------------
(* The properties.                                                         *)

\* No two questions in flight are about the same path and access, and the keys
\* that keep the same from being asked twice are theirs: the dedup gate neither
\* lets a twin through nor stays shut behind a question that is over.
OneOpenQuestion ==
    /\ activeKeys = {key[q] : q \in inFlight}
    /\ \A q, r \in inFlight : key[q] = key[r] => q = r

\* A question in flight is in the hands of the task that raised it, on its way
\* to the hub reporter, or noted there: never where nobody could answer it.
SomebodyHolds ==
    \A q \in inFlight : task[q] \in Asking \/ q \in chan \/ q \in atHub

\* While the hub has the connection, a question the reporter passed on is shown
\* or has an answer on its way, however often the connection went in between.
WaitingIsShown ==
    link => \A q \in Waiting : q \in shown \/ q \in answers

\* Wherever the ladder, the reporter and the connection are, no open question is
\* lost: each can still be answered by somebody, or is on its way to be.
NoQuestionIsLost == SomebodyHolds /\ WaitingIsShown

\* A question that closed with no answer gave its budget back: nobody saw it.
ClosedIsRefunded ==
    \A q \in resolved : decided[q] = None => q \notin window

\* Whatever is live is held by something: the ledger, a session or always answer,
\* or a once-grant whose command is still to come or to end.  An answer for one
\* command never outlasts it for want of its record.
Held(k) ==
    \/ k \in saved
    \/ \E o \in once : o.key = k
    \/ \E q \in Question :
          /\ decided[q] \notin {None, Deny} /\ Granted(q) = k
          /\ decided[q].tier = "once" => apply[q] = "push"

LiveIsHeld == \A k \in live : Held(k)

\* The first answer to a question is the only one: nothing it decided changes,
\* and one that was closed is never answered.
FirstAnswerCounts ==
    [][\A q \in resolved : decided'[q] = decided[q] /\ q \notin inFlight']_vars

\* What a human refused, or granted for longer than one command, is not asked
\* again unless a human asked for that.
Settles(k, r) ==
    IF decided[r] = Deny THEN k = key[r]
    ELSE decided[r].tier # "once" /\ k \in Covered(Granted(r))

NotAskedAgain ==
    [][\A q, r \in Question :
          /\ q \in window' \ window
          /\ decided[r] # None /\ key'[q] \notin reraised
          => ~Settles(key'[q], r)]_vars

\* A once-grant is in force for the command whose start marked it as its own:
\* no other command's start takes it away before that one has run.
OnceReachesItsCommand ==
    [][\A o \in once :
          /\ o.by # None /\ cmd[o.by] = "queued"
          /\ o.key \in live \ saved
          => o.key \in live']_vars

=============================================================================
