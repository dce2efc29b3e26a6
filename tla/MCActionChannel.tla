-------------------------- MODULE MCActionChannel --------------------------
(***************************************************************************)
(* A small instance of ActionChannel.                                      *)
(***************************************************************************)
EXTENDS ActionChannel
=============================================================================
