------------------------ MODULE MCGroupContinuation ------------------------
(***************************************************************************)
(* Small instances of GroupContinuation.                                   *)
(***************************************************************************)
EXTENDS GroupContinuation
=============================================================================
