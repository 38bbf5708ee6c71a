-------------------------- MODULE MCWorkspaceQueue --------------------------
(***************************************************************************)
(* Small instances of WorkspaceQueue: "a" and "b" arrive in one server and *)
(* "c" in another; "n" arrives in an ahma that "a"'s command starts; "g"   *)
(* is an edit guard in a process that queues nothing.                      *)
(***************************************************************************)
EXTENDS WorkspaceQueue

HomeOf == [a |-> "s1", b |-> "s1", c |-> "s2", n |-> "sub", g |-> "hook"]
MCHome == [x \in Op \cup Prober |-> HomeOf[x]]

MCParent == [p \in Proc |-> IF p = "sub" THEN "a" ELSE None]
MCBelow == [o \in Op |-> IF o = "a" THEN {"sub"} \cap Proc ELSE {}]
=============================================================================
