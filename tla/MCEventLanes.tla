---------------------------- MODULE MCEventLanes ----------------------------
(***************************************************************************)
(* Small instances of EventLanes.                                          *)
(***************************************************************************)
EXTENDS EventLanes
=============================================================================
