------------------------------ MODULE Delivery ------------------------------
(***************************************************************************)
(* What the sender of a OneBot action may believe about it.  A call is     *)
(* opened, QQ performs its effect at some moment or never, and the caller  *)
(* is told one final verdict.  The verdicts are those of transport.py:     *)
(* data returned ("ok"), ActionError ("rejected"), NotConnected and the    *)
(* other errors raised before a write ("untouched"), DeliveryUncertain or  *)
(* a cancelled caller ("unknown").                                         *)
(***************************************************************************)
CONSTANT Calls

VARIABLES verdict,   \* what the caller of each action knows
          effects    \* the actions QQ has performed

vars == <<verdict, effects>>

Final == {"ok", "rejected", "untouched", "unknown"}

Init == /\ verdict = [c \in Calls |-> "idle"]
        /\ effects = {}

Open(c) == /\ verdict[c] = "idle"
           /\ verdict' = [verdict EXCEPT ![c] = "open"]
           /\ UNCHANGED effects

\* QQ may perform an action that was opened, even after its caller gave up,
\* but never one whose caller was told that nothing was written.
TakeEffect(c) == /\ verdict[c] \notin {"idle", "untouched"}
                 /\ effects' = effects \cup {c}
                 /\ UNCHANGED verdict

\* The verdict is final; "ok" is proof of the effect, "untouched" is proof
\* that there is none, "rejected" and "unknown" prove nothing.
Conclude(c, v) == /\ verdict[c] \in {"idle", "open"}
                  /\ v = "ok" => c \in effects
                  /\ v = "untouched" => c \notin effects
                  /\ verdict' = [verdict EXCEPT ![c] = v]
                  /\ UNCHANGED effects

Next == \E c \in Calls : \/ Open(c)
                         \/ TakeEffect(c)
                         \/ \E v \in Final : Conclude(c, v)

Spec == Init /\ [][Next]_vars
=============================================================================
