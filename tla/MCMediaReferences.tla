------------------------- MODULE MCMediaReferences -------------------------
(* Model values for MediaReferences. *)
EXTENDS MediaReferences, TLC

CONSTANTS m1, m2

MCMessageOf == [a \in Attachments |-> a]
=============================================================================
