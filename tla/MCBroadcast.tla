----------------------------- MODULE MCBroadcast -----------------------------
(***************************************************************************)
(* Broadcast on a small instance: all of its constants are given in the    *)
(* configuration.                                                          *)
(***************************************************************************)
EXTENDS Broadcast
=============================================================================
