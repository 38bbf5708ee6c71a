----------------------------- MODULE MCDelivery -----------------------------
(***************************************************************************)
(* A small instance of Delivery: the operations of one session, a history  *)
(* that holds them all, and one request at a time.                         *)
(***************************************************************************)
EXTENDS Delivery, TLC

OpCallSymmetry == Permutations(Op) \cup Permutations(Call)
=============================================================================
