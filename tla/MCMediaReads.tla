---------------------------- MODULE MCMediaReads ----------------------------
(* Model values for MediaReads. *)
EXTENDS MediaReads, TLC

CONSTANTS m1, m2

MCMessageOf == [a \in Attachments |-> a]
=============================================================================
