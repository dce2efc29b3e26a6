------------------------------- MODULE ChatFifo -------------------------------
(***************************************************************************)
(* What the platform adapter may rely on: of the messages that arrive,     *)
(* some are handled, each at most once, those of one chat one at a time    *)
(* and in the order of their arrival.  Any of them may be lost before it   *)
(* is handled (full queues, a lost connection, a stop), but none is        *)
(* overtaken.                                                              *)
(***************************************************************************)
EXTENDS Naturals

VARIABLES
  decided,   \* number of the last arrival that was accepted or dropped
  waiting,   \* messages accepted and not begun; each has an id and a chat
  busy       \* messages in the handler

vars == <<decided, waiting, busy>>

Init == decided = 0 /\ waiting = {} /\ busy = {}

\* Arrivals are decided in their order, one by one or several at once; those that are
\* accepted come from among them.
Accept ==
  /\ decided' \in Nat /\ decided <= decided'
  /\ waiting \subseteq waiting'
  /\ \A e \in waiting' \ waiting : decided < e.id /\ e.id <= decided'
  /\ \A e, f \in waiting' \ waiting : e.id = f.id => e = f
  /\ UNCHANGED busy

\* The handler is called with the first message of a chat none of which it has.
Begin(e) ==
  /\ \A f \in waiting : f.chat = e.chat => e.id <= f.id
  /\ \A f \in busy : f.chat # e.chat
  /\ waiting' = waiting \ {e} /\ busy' = busy \cup {e}
  /\ UNCHANGED decided

\* It returns, raises or is cancelled.
Finish(e) == busy' = busy \ {e} /\ UNCHANGED <<decided, waiting>>

Lose == waiting' \subseteq waiting /\ UNCHANGED <<decided, busy>>

Next == \/ Accept
        \/ \E e \in waiting : Begin(e)
        \/ \E e \in busy : Finish(e)
        \/ Lose

Spec == Init /\ [][Next]_vars
=============================================================================
