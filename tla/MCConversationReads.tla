-------------------------- MODULE MCConversationReads --------------------------
(* A turn, a tool call and an expansion in a room of three messages, two of them *)
(* in a behaviour.                                                               *)
EXTENDS ConversationReads, TLC

CONSTANTS m1, m2, m3, t

MCCurrent == [r \in {t} |-> m1]
Symmetry == Permutations({m2, m3})
=============================================================================
