-------------------------------- MODULE Queues --------------------------------
(***************************************************************************)
(* A filter for the queues of the components, as a recursive function: the *)
(* provers expand it, which they do not do with SelectSeq.                 *)
(***************************************************************************)
EXTENDS Naturals, Sequences

\* The elements of s that are in S, in their order.
Kept(s, S) ==
  LET kept[n \in 0..Len(s)] ==
        IF n = 0 THEN <<>>
        ELSE IF s[n] \in S THEN Append(kept[n - 1], s[n]) ELSE kept[n - 1]
  IN  kept[Len(s)]
===============================================================================
