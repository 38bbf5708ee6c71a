------------------------- MODULE MCBridgeHandshake -------------------------
(***************************************************************************)
(* A small instance of BridgeHandshake: each way of treating empty roots,  *)
(* two event streams, and two rounds of roots/list.                        *)
(***************************************************************************)
EXTENDS BridgeHandshake
=============================================================================
