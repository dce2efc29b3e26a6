---------------------------- MODULE MCStreamRead ----------------------------
(***************************************************************************)
(* A small instance of StreamRead.                                         *)
(***************************************************************************)
EXTENDS StreamRead
=============================================================================
