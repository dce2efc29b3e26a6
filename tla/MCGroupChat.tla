---------------------------- MODULE MCGroupChat ----------------------------
(* Model values for GroupChat. *)
EXTENDS GroupChat

CONSTANTS r1, r2, m1, m2, m3

MCRooms == {r1, r2}
MCOneRoom == {r1}
MCMessages == {m1, m2, m3}

MCSymmetry == Permutations(MCRooms) \cup Permutations(MCMessages)
=============================================================================
