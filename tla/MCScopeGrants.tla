---------------------------- MODULE MCScopeGrants ----------------------------
(***************************************************************************)
(* A small instance of ScopeGrants.                                        *)
(***************************************************************************)
EXTENDS ScopeGrants, TLC

Alike == Permutations(Question) \cup Permutations(Command)
=============================================================================
