------------------------- MODULE MCOperationMonitor -------------------------
(***************************************************************************)
(* Small instances of OperationMonitor: two operations, one of which       *)
(* queues, in a history of one, so that the second evicts the first, or of *)
(* both, so that nothing is evicted; no waiter or one.                     *)
(***************************************************************************)
EXTENDS OperationMonitor
=============================================================================
