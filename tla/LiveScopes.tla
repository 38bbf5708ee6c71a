----------------------------- MODULE LiveScopes -----------------------------
(***************************************************************************)
(* The scopes a session's sandbox has in force (ahma_mcp sandbox/core.rs): *)
(* what human answers and the grant ledger add, what a revoked record and  *)
(* a used once-grant take away, and the commands at whose start both are   *)
(* looked at (adapter/mod.rs).                                             *)
(*                                                                         *)
(* A grant's record is one per path: a second one updates it in place.     *)
(* Leases and the denylist are left out.                                   *)
(***************************************************************************)
EXTENDS FiniteSets

CONSTANTS
    Path,     \* directories outside the committed scope
    Command,  \* commands underway at once
    Edit,     \* what others than this session write into the settings file
    None

Access == {"ro", "rw"}
Key    == [path : Path, access : Access]
Recorded == Access \cup {"none"}

ASSUME ScopeAssumption == Edit \subseteq Recorded /\ None \notin Command

VARIABLES
    live,   \* what a policy built now would hold: Sandbox.scopes and .read_scopes
    once,   \* Sandbox.once_grants; by: the command whose start armed it
    saved,  \* the ledger's records in force: Ledger.write and .read
    file,   \* [Path -> what the settings file records of it]
    fresh,  \* the file is as it was when its stamp was last taken
    cmd,    \* [Command -> how far it is]
    copy    \* [Command -> the ledger it has loaded and not yet put in force]

scopes == <<live, once, saved, file, fresh, cmd, copy>>

LiveTypeOK ==
    /\ live \subseteq Key
    /\ once \subseteq [key : Key, by : Command \cup {None}]
    /\ saved \subseteq Key
    /\ file \in [Path -> Recorded]
    /\ fresh \in BOOLEAN
    /\ cmd \in [Command -> {"idle", "loaded", "begun", "queued"}]
    /\ copy \in [Command -> [Path -> Recorded]]

NoRecords == [p \in Path |-> "none"]

LiveInit ==
    /\ live = {} /\ once = {} /\ saved = {}
    /\ file = NoRecords /\ fresh = TRUE
    /\ cmd = [c \in Command |-> "idle"]
    /\ copy = [c \in Command |-> NoRecords]

-----------------------------------------------------------------------------
(* What an answer does.                                                    *)

\* persist_grant: the path's record becomes this one.
Persist(k) ==
    /\ file' = [file EXCEPT ![k.path] = k.access]
    /\ fresh' = FALSE
    /\ UNCHANGED <<live, once, saved, cmd, copy>>

AddLive(k) ==
    /\ live' = live \cup {k}
    /\ UNCHANGED <<once, saved, file, fresh, cmd, copy>>

PushOnce(k) ==
    /\ once' = once \cup {[key |-> k, by |-> None]}
    /\ UNCHANGED <<live, saved, file, fresh, cmd, copy>>

-----------------------------------------------------------------------------
(* What happens as a command starts.                                       *)

Applicable(records) == {k \in Key : records[k.path] = k.access}

Goes(c, stage) == cmd' = [cmd EXCEPT ![c] = stage]

\* begin_command -> sync_ledger, first half: the stamp is taken and compared,
\* the file loaded, and the stamp kept.
BeginUnchanged(c) ==
    /\ cmd[c] = "idle" /\ fresh
    /\ Goes(c, "begun")
    /\ UNCHANGED <<live, once, saved, file, fresh, copy>>

Load(c) ==
    /\ cmd[c] = "idle" /\ ~fresh
    /\ Goes(c, "loaded")
    /\ copy' = [copy EXCEPT ![c] = file]
    /\ fresh' = TRUE
    /\ UNCHANGED <<live, once, saved, file>>

\* A file that cannot be read leaves the grants in force as they are.
LoadFails(c) ==
    /\ cmd[c] = "idle" /\ ~fresh
    /\ Goes(c, "begun")
    /\ UNCHANGED <<live, once, saved, file, fresh, copy>>

\* Its second half, under the ledger's lock: what the ledger no longer holds
\* leaves the live scopes, what it holds joins them.
Swap(c) ==
    /\ cmd[c] = "loaded"
    /\ LET now == Applicable(copy[c])
       IN /\ live' = (live \ (saved \ now)) \cup now
          /\ saved' = now
    /\ copy' = [copy EXCEPT ![c] = NoRecords]
    /\ Goes(c, "begun")
    /\ UNCHANGED <<once, file, fresh>>

InUse == {o.key : o \in {o \in once : o.by # None}}

Spend_ByPath(c) ==
    /\ live' = {k \in live : k \notin InUse \/ \E r \in saved : r.path = k.path}
    /\ once' = {[key |-> o.key, by |-> c] : o \in {o \in once : o.by = None}}

\* spend_once_grants: those in use by an earlier command go, unless the ledger
\* holds the same; the fresh ones are marked as in use by this one.
Spend(c) ==
    /\ live' = live \ (InUse \ saved)
    /\ once' = {[key |-> o.key, by |-> c] : o \in {o \in once : o.by = None}}

\* command_starts, in a lane that may write: before the command takes its place
\* in the workspace's line.
StartWriter(c) ==
    /\ cmd[c] = "begun"
    /\ Spend(c)
    /\ Goes(c, "queued")
    /\ UNCHANGED <<saved, file, fresh, copy>>

\* Its turn comes, and build_sandboxed_command takes the scopes now live as its
\* policy: nothing here matters to it any more, and another may start.
Spawn(c) ==
    /\ cmd[c] = "queued"
    /\ Goes(c, "idle")
    /\ UNCHANGED <<live, once, saved, file, fresh, copy>>

\* A command in the read lane spends nothing and holds nobody up.
RunReader(c) ==
    /\ cmd[c] = "begun"
    /\ Goes(c, "idle")
    /\ UNCHANGED <<live, once, saved, file, fresh, copy>>

\* `ahma sandbox grant` and `revoke`, or a human's editor.
EditFile ==
    /\ \E p \in Path, r \in Edit : file' = [file EXCEPT ![p] = r]
    /\ fresh' = FALSE
    /\ UNCHANGED <<live, once, saved, cmd, copy>>

CommandStep ==
    \/ \E c \in Command :
          \/ BeginUnchanged(c) \/ Load(c) \/ LoadFails(c) \/ Swap(c)
          \/ StartWriter(c) \/ Spawn(c) \/ RunReader(c)
    \/ EditFile

=============================================================================
