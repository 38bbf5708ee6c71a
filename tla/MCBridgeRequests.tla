-------------------------- MODULE MCBridgeRequests --------------------------
(***************************************************************************)
(* A small instance of BridgeRequests: two requests that use one id, one   *)
(* answered in its POST's body and one on an event stream, and a channel   *)
(* with room for one message.                                              *)
(***************************************************************************)
EXTENDS BridgeRequests

MCId == [r \in Request |-> 1]
=============================================================================
