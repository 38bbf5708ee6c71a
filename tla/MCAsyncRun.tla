----------------------------- MODULE MCAsyncRun -----------------------------
(***************************************************************************)
(* Small instances of AsyncRun: "a" and "b" are called in a server, "n" and*)
(* "m" in an ahma that "a"'s command starts.                               *)
(***************************************************************************)
EXTENDS AsyncRun

HomeOf == [a |-> "s1", b |-> "s1", n |-> "sub", m |-> "sub"]
MCHome == [o \in Op |-> HomeOf[o]]

MCParent == [p \in Proc |-> IF p = "sub" THEN "a" ELSE None]
=============================================================================
