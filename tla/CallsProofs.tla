------------------------------ MODULE CallsProofs ------------------------------
(***************************************************************************)
(* The two ends of a call.  First ActionChannel, which carries it: what it *)
(* guarantees for every set of calls, any number of attachments and both   *)
(* modes.  Then ConversationReads, whose readers wait for the answers: for *)
(* every room, window, number of tombstones and readers.  Neither uses a   *)
(* name of the other; each has an inductive invariant of its own, from     *)
(* which its properties follow.                                            *)
(***************************************************************************)
EXTENDS ActionChannel, ConversationReads, DataFacts

-----------------------------------------------------------------------------
(* ActionChannel *)

\* The futures that are registered are those of calls still under way.
FutureInv == \A c \in Calls : stage[c] \notin Busy => future[c] = "none"

\* A call has written nothing until its write starts, and NapCat performs only
\* what was written; an "ok" response stands for a performed action.
WriteInv ==
  \A c \in Calls :
    /\ stage[c] \in {"idle", "locking", "notconnected", "vetoed"} => wroteOn[c] = 0
    /\ c \in executed => wroteOn[c] # 0
    /\ future[c] = "ok" => c \in executed

\* The socket in use is the newest one, and there is one while _attach runs.
SocketInv ==
  /\ ws # 0 => ws = epoch
  /\ attach # "none" => ws # 0
  /\ attach = "handshake" => login \in Calls
  /\ attach \in {"none", "closing"} => ~ready /\ ~reading
  /\ phase = "down" => attach = "none" /\ ws = 0
  /\ ready => attach = "serving" /\ ws \in validated

\* A call that waits to write was admitted on a verified socket.
AdmissionInv ==
  \A c \in Calls \ logins : stage[c] = "locking" => onWs[c] \in validated

NonePending == \A c \in Calls : future[c] # "pending"

\* Who may have an unresolved future in each state of the attachment.
PendingInv ==
  /\ PendingIsCurrent
  /\ attach = "none" => NonePending
  /\ attach = "closing" /\ phase # "cancelling" => NonePending
  /\ attach \in {"handshake", "serving"} /\ ~reading => ~open /\ NonePending
  /\ attach = "handshake" => \A c \in Calls : future[c] = "pending" => c = login

IInv == /\ TypeOK /\ FutureInv /\ WriteInv /\ SocketInv /\ AdmissionInv /\ PendingInv
        /\ EpochBound /\ OnlyVerifiedPeers /\ OkMeansEffect

-----------------------------------------------------------------------------
\* Epochs are closed under the two values the code assigns to them.
LEMMA EpochFacts == /\ 0 \in Epochs
                    /\ \A n \in Epochs : n < MaxEpoch => n + 1 \in Epochs
  BY ChannelAssumption DEF Epochs

\* What e ranges over in CallStep.
LEMMA EpochRange == \A n \in Epochs : 0..n \subseteq Epochs
  BY ChannelAssumption DEF Epochs

\* Every step keeps the variables in their types.
LEMMA TypeStep == TypeOK /\ [Next]_vars => TypeOK'
<1> SUFFICES ASSUME TypeOK, [Next]_vars PROVE TypeOK'
  OBVIOUS
<1> USE EpochFacts DEF TypeOK, Busy, Outcomes, vars, connVars, callVars
<1>1. ASSUME NEW c \in Calls, NEW e \in 0..epoch, Call(c, e) PROVE TypeOK'
  BY <1>1, EpochRange DEF Call, Connected, Register, Finish
<1>2. ASSUME NEW c \in Calls, Write(c) PROVE TypeOK'
  BY <1>2 DEF Write, SameSocket, Finish
<1>3. ASSUME NEW c \in Calls, Written(c) PROVE TypeOK'
  BY <1>3 DEF Written
<1>4. ASSUME NEW c \in Calls, WriteFails(c) PROVE TypeOK'
  BY <1>4 DEF WriteFails, Finish
<1>5. ASSUME NEW c \in Calls, Resume(c) PROVE TypeOK'
  BY <1>5 DEF Resume, Finish
<1>6. ASSUME NEW c \in Calls, Timeout(c) PROVE TypeOK'
  BY <1>6 DEF Timeout, Finish
<1>7. ASSUME NEW c \in Calls, Cancel(c) PROVE TypeOK'
  BY <1>7 DEF Cancel, Finish
<1>8. ASSUME NEW c \in Calls, PeerExecutes(c) PROVE TypeOK'
  BY <1>8 DEF PeerExecutes
<1>9. ASSUME NEW c \in Calls, NEW answer \in {"ok", "rejected"}, Respond(c, answer)
      PROVE TypeOK'
  BY <1>9 DEF Respond
<1>10. CASE SocketLost
  BY <1>10 DEF SocketLost
<1>11. ASSUME NEW c \in Calls, Attach(c) PROVE TypeOK'
  BY <1>11 DEF Attach, MayAttach, Register
<1>12. CASE LoginAccepted
  BY <1>12 DEF LoginAccepted
<1>13. CASE IdentityMismatch
  BY <1>13 DEF IdentityMismatch, EnterFinally
<1>14. CASE AttachmentEnds
  BY <1>14 DEF AttachmentEnds, EnterFinally
<1>15. CASE ReaderEnds
  BY <1>15 DEF ReaderEnds, FailPending
<1>16. CASE Detach
  BY <1>16 DEF Detach, FailPending
<1>17. CASE Start
  BY <1>17, ChannelAssumption DEF Start
<1>18. CASE StopBegins
  BY <1>18 DEF StopBegins, FailPending
<1>19. CASE StopCancels
  BY <1>19 DEF StopCancels
<1>20. CASE AttachCancelled
  BY <1>20 DEF AttachCancelled, EnterFinally, Finish
<1>21. CASE StopEnds
  BY <1>21 DEF StopEnds
<1>22. CASE UNCHANGED vars
  BY <1>22
<1> QED
  BY <1>1, <1>2, <1>3, <1>4, <1>5, <1>6, <1>7, <1>8, <1>9, <1>10, <1>11, <1>12, <1>13, <1>14, <1>15, <1>16, <1>17, <1>18, <1>19, <1>20, <1>21, <1>22 DEF Next, CallStep, PeerStep, ConnectionStep
\* The life of a call: what has been written, performed and answered.
LEMMA EffectStep == IInv /\ [Next]_vars => (FutureInv /\ WriteInv /\ OkMeansEffect)'
<1> SUFFICES ASSUME IInv, [Next]_vars PROVE (FutureInv /\ WriteInv /\ OkMeansEffect)'
  OBVIOUS
<1> USE DEF IInv, connVars, callVars, TypeOK, FutureInv, WriteInv, OkMeansEffect, Busy, Outcomes
<1>1. ASSUME NEW c \in Calls, NEW e \in 0..epoch, Call(c, e) PROVE (FutureInv /\ WriteInv /\ OkMeansEffect)'
  BY <1>1 DEF Call, Connected, Register, Finish
<1>2. ASSUME NEW c \in Calls, Write(c) PROVE (FutureInv /\ WriteInv /\ OkMeansEffect)'
  BY <1>2 DEF Write, SameSocket, Finish
<1>3. ASSUME NEW c \in Calls, Written(c) PROVE (FutureInv /\ WriteInv /\ OkMeansEffect)'
  BY <1>3 DEF Written
<1>4. ASSUME NEW c \in Calls, WriteFails(c) PROVE (FutureInv /\ WriteInv /\ OkMeansEffect)'
  BY <1>4 DEF WriteFails, Finish
<1>5. ASSUME NEW c \in Calls, Resume(c) PROVE (FutureInv /\ WriteInv /\ OkMeansEffect)'
  BY <1>5 DEF Resume, Finish
<1>6. ASSUME NEW c \in Calls, Timeout(c) PROVE (FutureInv /\ WriteInv /\ OkMeansEffect)'
  BY <1>6 DEF Timeout, Finish
<1>7. ASSUME NEW c \in Calls, Cancel(c) PROVE (FutureInv /\ WriteInv /\ OkMeansEffect)'
  BY <1>7 DEF Cancel, Finish
<1>8. ASSUME NEW c \in Calls, PeerExecutes(c) PROVE (FutureInv /\ WriteInv /\ OkMeansEffect)'
  BY <1>8 DEF PeerExecutes
<1>9. ASSUME NEW c \in Calls, NEW answer \in {"ok", "rejected"}, Respond(c, answer) PROVE (FutureInv /\ WriteInv /\ OkMeansEffect)'
  BY <1>9 DEF Respond
<1>10. ASSUME NEW c \in Calls, Attach(c) PROVE (FutureInv /\ WriteInv /\ OkMeansEffect)'
  BY <1>10 DEF Attach, MayAttach, Register
<1>11. CASE ReaderEnds
  BY <1>11 DEF ReaderEnds, FailPending
<1>12. CASE Detach
  BY <1>12 DEF Detach, FailPending
<1>13. CASE StopBegins
  BY <1>13 DEF StopBegins, FailPending
<1>14. CASE AttachCancelled
  BY <1>14 DEF AttachCancelled, EnterFinally, Finish
<1>15. CASE UNCHANGED <<stage, future, wroteOn, executed>>
  BY <1>15
<1> QED
  BY <1>1, <1>2, <1>3, <1>4, <1>5, <1>6, <1>7, <1>8, <1>9, <1>10, <1>11, <1>12,
     <1>13, <1>14, <1>15 DEF Next, CallStep, PeerStep, ConnectionStep, vars,
     connVars, callVars, SocketLost, LoginAccepted, IdentityMismatch,
     EnterFinally, AttachmentEnds, Start, StopCancels, StopEnds

\* The attachment: one socket, always the newest, ready only when verified.
LEMMA SocketStep == IInv /\ [Next]_vars => SocketInv'
<1> SUFFICES ASSUME IInv, [Next]_vars PROVE SocketInv'
  OBVIOUS
<1> USE DEF IInv, connVars, callVars, TypeOK, SocketInv, Epochs
<1>1. ASSUME NEW c \in Calls, Attach(c) PROVE SocketInv'
  BY <1>1 DEF Attach, MayAttach, Register
<1>2. CASE LoginAccepted
  BY <1>2 DEF LoginAccepted
<1>3. CASE IdentityMismatch
  BY <1>3 DEF IdentityMismatch, EnterFinally
<1>4. CASE AttachmentEnds
  BY <1>4 DEF AttachmentEnds, EnterFinally
<1>5. CASE ReaderEnds
  BY <1>5 DEF ReaderEnds, FailPending
<1>6. CASE Detach
  BY <1>6 DEF Detach, FailPending
<1>7. CASE Start
  BY <1>7 DEF Start
<1>8. CASE StopBegins
  BY <1>8 DEF StopBegins, FailPending
<1>9. CASE StopCancels
  BY <1>9 DEF StopCancels
<1>10. CASE AttachCancelled
  BY <1>10 DEF AttachCancelled, EnterFinally, Finish
<1>11. CASE StopEnds
  BY <1>11 DEF StopEnds
<1>12. CASE UNCHANGED <<phase, epoch, ws, ready, attach, login, reading, validated>>
  BY <1>12
<1> QED
  BY <1>1, <1>2, <1>3, <1>4, <1>5, <1>6, <1>7, <1>8, <1>9, <1>10, <1>11, <1>12
     DEF Next, CallStep, PeerStep, ConnectionStep, vars, connVars, callVars,
     Call, Register, Finish, Write, Written, WriteFails, Resume, Timeout,
     Cancel, PeerExecutes, Respond, SocketLost

\* Where a call may be written: on the socket it captured and the epoch it named.
LEMMA AdmissionStep == IInv /\ [Next]_vars => (AdmissionInv /\ OnlyVerifiedPeers /\ EpochBound)'
<1> SUFFICES ASSUME IInv, [Next]_vars PROVE (AdmissionInv /\ OnlyVerifiedPeers /\ EpochBound)'
  OBVIOUS
<1> USE DEF IInv, connVars, callVars, TypeOK, WriteInv, SocketInv, AdmissionInv, OnlyVerifiedPeers, EpochBound, Busy, Outcomes
<1>1. ASSUME NEW c \in Calls, NEW e \in 0..epoch, Call(c, e) PROVE (AdmissionInv /\ OnlyVerifiedPeers /\ EpochBound)'
  BY <1>1 DEF Call, Connected, Register, Finish
<1>2. ASSUME NEW c \in Calls, Write(c) PROVE (AdmissionInv /\ OnlyVerifiedPeers /\ EpochBound)'
  BY <1>2 DEF Write, SameSocket, Finish
<1>3. ASSUME NEW c \in Calls, Written(c) PROVE (AdmissionInv /\ OnlyVerifiedPeers /\ EpochBound)'
  BY <1>3 DEF Written
<1>4. ASSUME NEW c \in Calls, WriteFails(c) PROVE (AdmissionInv /\ OnlyVerifiedPeers /\ EpochBound)'
  BY <1>4 DEF WriteFails, Finish
<1>5. ASSUME NEW c \in Calls, Resume(c) PROVE (AdmissionInv /\ OnlyVerifiedPeers /\ EpochBound)'
  BY <1>5 DEF Resume, Finish
<1>6. ASSUME NEW c \in Calls, Timeout(c) PROVE (AdmissionInv /\ OnlyVerifiedPeers /\ EpochBound)'
  BY <1>6 DEF Timeout, Finish
<1>7. ASSUME NEW c \in Calls, Cancel(c) PROVE (AdmissionInv /\ OnlyVerifiedPeers /\ EpochBound)'
  BY <1>7 DEF Cancel, Finish
<1>8. ASSUME NEW c \in Calls, Attach(c) PROVE (AdmissionInv /\ OnlyVerifiedPeers /\ EpochBound)'
  BY <1>8 DEF Attach, MayAttach, Register
<1>9. CASE LoginAccepted
  BY <1>9 DEF LoginAccepted
<1>10. CASE AttachCancelled
  BY <1>10 DEF AttachCancelled, EnterFinally, Finish
<1>11. CASE UNCHANGED <<stage, onWs, expected, wroteOn, logins, validated>>
  BY <1>11
<1> QED
  BY <1>1, <1>2, <1>3, <1>4, <1>5, <1>6, <1>7, <1>8, <1>9, <1>10, <1>11 DEF
     Next, CallStep, PeerStep, ConnectionStep, vars, connVars, callVars,
     PeerExecutes, Respond, SocketLost, IdentityMismatch, EnterFinally,
     AttachmentEnds, ReaderEnds, FailPending, Detach, Start, StopBegins,
     StopCancels, StopEnds

\* No step leaves a future unresolved without the attachment that can answer it.
LEMMA PendingStep == IInv /\ [Next]_vars => PendingInv'
<1> SUFFICES ASSUME IInv, [Next]_vars PROVE PendingInv'
  OBVIOUS
<1> USE DEF IInv, connVars, callVars, TypeOK, FutureInv, SocketInv, PendingInv, PendingIsCurrent, NonePending, Busy, Outcomes, Epochs
<1>1. ASSUME NEW c \in Calls, NEW e \in 0..epoch, Call(c, e) PROVE PendingInv'
  BY <1>1 DEF Call, Connected, Register, Finish
<1>2. ASSUME NEW c \in Calls, Write(c) PROVE PendingInv'
  BY <1>2 DEF Write, SameSocket, Finish
<1>3. ASSUME NEW c \in Calls, Written(c) PROVE PendingInv'
  BY <1>3 DEF Written
<1>4. ASSUME NEW c \in Calls, WriteFails(c) PROVE PendingInv'
  BY <1>4 DEF WriteFails, Finish
<1>5. ASSUME NEW c \in Calls, Resume(c) PROVE PendingInv'
  BY <1>5 DEF Resume, Finish
<1>6. ASSUME NEW c \in Calls, Timeout(c) PROVE PendingInv'
  BY <1>6 DEF Timeout, Finish
<1>7. ASSUME NEW c \in Calls, Cancel(c) PROVE PendingInv'
  BY <1>7 DEF Cancel, Finish
<1>8. ASSUME NEW c \in Calls, NEW answer \in {"ok", "rejected"}, Respond(c, answer) PROVE PendingInv'
  BY <1>8 DEF Respond
<1>9. CASE SocketLost
  BY <1>9 DEF SocketLost
<1>10. ASSUME NEW c \in Calls, Attach(c) PROVE PendingInv'
  BY <1>10 DEF Attach, MayAttach, Register
<1>11. CASE LoginAccepted
  BY <1>11 DEF LoginAccepted
<1>12. CASE IdentityMismatch
  BY <1>12 DEF IdentityMismatch, EnterFinally
<1>13. CASE AttachmentEnds
  BY <1>13 DEF AttachmentEnds, EnterFinally
<1>14. CASE ReaderEnds
  BY <1>14 DEF ReaderEnds, FailPending
<1>15. CASE Detach
  BY <1>15 DEF Detach, FailPending
<1>16. CASE Start
  BY <1>16 DEF Start
<1>17. CASE StopBegins
  BY <1>17 DEF StopBegins, FailPending
<1>18. CASE StopCancels
  BY <1>18 DEF StopCancels
<1>19. CASE AttachCancelled
  BY <1>19 DEF AttachCancelled, EnterFinally, Finish
<1>20. CASE StopEnds
  BY <1>20 DEF StopEnds
<1>21. CASE UNCHANGED <<phase, ws, open, attach, login, reading, ready, stage, future, onWs>>
  BY <1>21
<1> QED
  BY <1>1, <1>2, <1>3, <1>4, <1>5, <1>6, <1>7, <1>8, <1>9, <1>10, <1>11, <1>12,
     <1>13, <1>14, <1>15, <1>16, <1>17, <1>18, <1>19, <1>20, <1>21 DEF Next,
     CallStep, PeerStep, ConnectionStep, vars, connVars, callVars, PeerExecutes

\* IInv holds initially and every step preserves it.
LEMMA Inductive == Spec => []IInv
<1>1. Init => IInv
  BY EpochFacts DEF Init, IInv, TypeOK, FutureInv, WriteInv, SocketInv, AdmissionInv,
     PendingInv, PendingIsCurrent, NonePending, EpochBound, OnlyVerifiedPeers,
     OkMeansEffect, Busy, Outcomes
<1>2. IInv /\ [Next]_vars => IInv'
  BY TypeStep, EffectStep, SocketStep, AdmissionStep, PendingStep DEF IInv
<1> QED
  BY <1>1, <1>2, PTL DEF Spec

-----------------------------------------------------------------------------
(* Safety *)

\* The variables always have their types.
THEOREM TypeCorrect == Spec => []TypeOK
  BY Inductive, PTL DEF IInv

\* "No write was attempted" is true for ever: the action of a caller that was
\* told so is never performed.
THEOREM Untouched == Spec => []UntouchedMeansNoEffect
<1>1. IInv => UntouchedMeansNoEffect
  BY DEF IInv, WriteInv, UntouchedMeansNoEffect
<1> QED
  BY <1>1, Inductive, PTL

\* An action bound to an epoch is written in that epoch or not at all.
THEOREM BoundToEpoch == Spec => []EpochBound
  BY Inductive, PTL DEF IInv

\* No action but the login query reaches a peer whose account is unverified.
THEOREM Verified == Spec => []OnlyVerifiedPeers
  BY Inductive, PTL DEF IInv

\* No caller waits for an answer from a connection that is gone.
THEOREM NoOrphans == Spec => []PendingIsCurrent
  BY Inductive, PTL DEF IInv, PendingInv

\* Nothing is left behind when stop() has returned.
THEOREM CleanStop == Spec => []StopIsClean
<1>1. IInv => StopIsClean
  BY DEF IInv, SocketInv, PendingInv, NonePending, StopIsClean
<1> QED
  BY <1>1, Inductive, PTL

-----------------------------------------------------------------------------
(* Refinement *)

verdict == [c \in Calls |-> Verdict(c)]

\* Changing the stage of one call changes its verdict only.
LEMMA VerdictOfStage ==
  ASSUME TypeOK, NEW c \in Calls, NEW s, stage' = [stage EXCEPT ![c] = s]
  PROVE  /\ verdict' = [verdict EXCEPT ![c] = Verdict(c)']
         /\ stage'[c] = s
<1>1. stage'[c] = s /\ \A d \in Calls \ {c} : stage'[d] = stage[d]
  BY DEF TypeOK
<1>2. \A d \in Calls \ {c} : Verdict(d)' = Verdict(d)
  BY <1>1 DEF Verdict
<1>3. verdict' = [d \in Calls |-> Verdict(d)']
  BY DEF verdict
<1> QED
  BY <1>1, <1>2, <1>3 DEF verdict

\* Nothing the caller learns changes while its stage does not.
LEMMA SameVerdict == UNCHANGED stage => UNCHANGED verdict
  BY DEF verdict, Verdict

\* Leaving call() concludes the abstract action.
LEMMA FinishConcludes ==
  ASSUME IInv, NEW c \in Calls, NEW outcome \in Outcomes, Finish(c, outcome),
         UNCHANGED executed, stage[c] \in {"idle"} \cup Busy,
         outcome = "ok" => future[c] = "ok",
         outcome \in {"notconnected", "vetoed"} => wroteOn[c] = 0
  PROVE  D!Next
<1>1. /\ verdict' = [verdict EXCEPT ![c] = Verdict(c)']
      /\ stage'[c] = outcome
  BY VerdictOfStage DEF IInv, Finish
<1>2. verdict[c] \in {"idle", "open"}
  BY DEF verdict, Verdict, Busy
<1>3. /\ Verdict(c)' \in D!Final
      /\ Verdict(c)' = "ok" => outcome = "ok"
      /\ Verdict(c)' = "untouched" => outcome \in {"notconnected", "vetoed"}
  BY <1>1 DEF Verdict, Busy, Outcomes, D!Final
<1>4. D!Conclude(c, Verdict(c)')
  BY <1>1, <1>2, <1>3 DEF D!Conclude, verdict, IInv, WriteInv
<1> QED
  BY <1>3, <1>4 DEF D!Next

\* Entering call() opens it.
LEMMA RegisterOpens ==
  ASSUME IInv, NEW c \in Calls, NEW k, NEW e, Register(c, k, e),
         UNCHANGED executed, stage[c] = "idle"
  PROVE  D!Next
<1>1. /\ verdict' = [verdict EXCEPT ![c] = Verdict(c)']
      /\ stage'[c] = "locking"
  BY VerdictOfStage DEF IInv, Register
<1>2. verdict[c] = "idle" /\ Verdict(c)' = "open"
  BY <1>1 DEF verdict, Verdict, Busy
<1>3. D!Open(c)
  BY <1>1, <1>2 DEF D!Open, verdict
<1> QED
  BY <1>3 DEF D!Next

\* Moving on within call() is invisible to the caller.
LEMMA BusyStutters ==
  ASSUME TypeOK, NEW c \in Calls, NEW s \in Busy, stage[c] \in Busy,
         stage' = [stage EXCEPT ![c] = s], UNCHANGED executed
  PROVE  UNCHANGED D!vars
<1>1. /\ verdict' = [verdict EXCEPT ![c] = Verdict(c)']
      /\ stage'[c] = s
  BY VerdictOfStage
<1>2. verdict[c] = Verdict(c)' /\ verdict' = verdict
  BY <1>1 DEF verdict, Verdict, Busy
<1> QED
  BY <1>2 DEF D!vars, verdict

\* Every step of the channel is a step of Delivery or invisible to it.
LEMMA StepRefines == IInv /\ [Next]_vars => [D!Next]_(D!vars)
<1> SUFFICES ASSUME IInv, [Next]_vars PROVE [D!Next]_(D!vars)
  OBVIOUS
<1>1. ASSUME NEW c \in Calls, NEW e \in 0..epoch, Call(c, e) PROVE D!Next
  <2>1. CASE Register(c, ws, e)
    BY <1>1, <2>1, RegisterOpens DEF Call
  <2>2. CASE Finish(c, "notconnected")
    BY <1>1, <2>2, FinishConcludes DEF Call, IInv, WriteInv, Outcomes
  <2> QED
    BY <1>1, <2>1, <2>2 DEF Call
<1>2. ASSUME NEW c \in Calls, Write(c) PROVE [D!Next]_(D!vars)
  <2>1. CASE stage' = [stage EXCEPT ![c] = "writing"]
    BY <1>2, <2>1, BusyStutters DEF Write, IInv, Busy
  <2>2. ASSUME NEW o \in {"notconnected", "vetoed"}, Finish(c, o) PROVE D!Next
    BY <1>2, <2>2, FinishConcludes DEF Write, IInv, WriteInv, Busy, Outcomes
  <2> QED
    BY <1>2, <2>1, <2>2 DEF Write
<1>3. ASSUME NEW c \in Calls, Written(c) PROVE UNCHANGED D!vars
  BY <1>3, BusyStutters DEF Written, IInv, Busy
<1>4. ASSUME NEW c \in Calls, WriteFails(c) PROVE D!Next
  BY <1>4, FinishConcludes DEF WriteFails, Busy, Outcomes
<1>5. ASSUME NEW c \in Calls, Resume(c) PROVE D!Next
  BY <1>5, FinishConcludes DEF Resume, Busy, Outcomes
<1>6. ASSUME NEW c \in Calls, Timeout(c) PROVE D!Next
  BY <1>6, FinishConcludes DEF Timeout, Outcomes
<1>7. ASSUME NEW c \in Calls, Cancel(c) PROVE D!Next
  BY <1>7, FinishConcludes DEF Cancel, Outcomes
<1>8. ASSUME NEW c \in Calls, PeerExecutes(c) PROVE D!Next
  <2>1. verdict[c] \notin {"idle", "untouched"} /\ UNCHANGED verdict
    BY <1>8, SameVerdict DEF PeerExecutes, IInv, TypeOK, WriteInv, verdict, Verdict, Busy,
       Outcomes, callVars
  <2>2. D!TakeEffect(c)
    BY <1>8, <2>1 DEF PeerExecutes, D!TakeEffect, verdict
  <2> QED
    BY <2>2 DEF D!Next
<1>9. ASSUME NEW c \in Calls, Attach(c) PROVE D!Next
  BY <1>9, RegisterOpens DEF Attach
<1>10. ASSUME AttachCancelled PROVE [D!Next]_(D!vars)
  <2>1. CASE Finish(login, "cancelled") /\ attach = "handshake" /\ stage[login] \in Busy
    BY <1>10, <2>1, FinishConcludes DEF AttachCancelled, IInv, SocketInv, Outcomes
  <2>2. CASE UNCHANGED callVars
    BY <1>10, <2>2, SameVerdict DEF AttachCancelled, callVars, D!vars, verdict
  <2> QED
    BY <1>10, <2>1, <2>2 DEF AttachCancelled
<1>11. CASE UNCHANGED <<stage, executed>>
  BY <1>11, SameVerdict DEF D!vars, verdict
<1> QED
  BY <1>1, <1>2, <1>3, <1>4, <1>5, <1>6, <1>7, <1>8, <1>9, <1>10, <1>11
     DEF Next, CallStep, PeerStep, ConnectionStep, vars, connVars, callVars, Respond,
         SocketLost, LoginAccepted, IdentityMismatch, AttachmentEnds, ReaderEnds,
         Detach, Start, StopBegins, StopCancels, StopEnds

\* The channel implements Delivery: whatever the interleaving of callers, peer,
\* reconnection and stop, every caller is told one final verdict that is true.
THEOREM ImplementsDelivery == Spec => DeliverySpec
<1>1. Init => D!Init
  <2>1. ASSUME Init, NEW c \in Calls PROVE Verdict(c) = "idle"
    <3>1. stage[c] = "idle"
      BY <2>1 DEF Init
    <3> QED
      BY <3>1 DEF Verdict, Busy
  <2> QED
    BY <2>1 DEF Init, D!Init
<1>2. IInv /\ [Next]_vars => [D!Next]_(D!vars)
  BY StepRefines
<1> QED
  BY <1>1, <1>2, Inductive, PTL DEF Spec, DeliverySpec, D!Spec

-----------------------------------------------------------------------------
(* ConversationReads *)

(* The room *)

\* No message twice, the older ones first.
Sorted(s) == \A i, j \in 1..Len(s) : i < j => sent[s[i]] <= sent[s[j]]
InOrder(s) == s \in Seq(Messages) /\ IsInjective(s) /\ Sorted(s)
Stamps == sent \in [Messages -> Nat]

\* The elements of a sequence, by their places.
LEMMA Places ==
  ASSUME NEW X, NEW s \in Seq(X)
  PROVE  /\ Len(s) \in Nat /\ DOMAIN s = 1..Len(s)
         /\ \A i \in 1..Len(s) : s[i] \in X /\ s[i] \in ToSet(s)
         /\ \A x \in ToSet(s) : x \in X /\ \E i \in 1..Len(s) : x = s[i]
         /\ \A x : Contains(s, x) <=> x \in ToSet(s)
BY DEF ToSet, Contains

\* A filter keeps the order.
LEMMA KeptInOrder ==
  ASSUME NEW s, InOrder(s), NEW S
  PROVE  /\ InOrder(Kept(s, S)) /\ Len(Kept(s, S)) <= Len(s)
         /\ ToSet(Kept(s, S)) = ToSet(s) \cap S
<1>1. s \in Seq(Messages) /\ IsInjective(s) BY DEF InOrder
<1>2. /\ Kept(s, S) \in Seq(Messages) /\ Len(Kept(s, S)) <= Len(s)
      /\ ToSet(Kept(s, S)) = ToSet(s) \cap S
      /\ \A i, j \in 1..Len(Kept(s, S)) : i < j =>
           \E a, b \in 1..Len(s) : a < b /\ Kept(s, S)[i] = s[a] /\ Kept(s, S)[j] = s[b]
  BY <1>1, KeptFacts
<1>3. IsInjective(Kept(s, S)) BY <1>1, KeptInjective
<1>4. PICK q : q = Kept(s, S) OBVIOUS
<1>5. Sorted(q)
  <2>1. ASSUME NEW i \in 1..Len(q), NEW j \in 1..Len(q), i < j PROVE sent[q[i]] <= sent[q[j]]
    <3>1. PICK a \in 1..Len(s), b \in 1..Len(s) : a < b /\ q[i] = s[a] /\ q[j] = s[b]
      BY <1>2, <1>4, <2>1
    <3> QED BY <3>1 DEF InOrder, Sorted
  <2> QED BY <2>1 DEF Sorted
<1> QED BY <1>2, <1>3, <1>4, <1>5 DEF InOrder

\* The newest n of a sequence are its last ones, or all of it.
LEMMA NewestFacts ==
  ASSUME NEW X, NEW s \in Seq(X), NEW n \in Nat
  PROVE  /\ Newest(s, n) \in Seq(X) /\ Len(Newest(s, n)) <= n
         /\ ToSet(Newest(s, n)) \subseteq ToSet(s)
         /\ \E d \in 0..Len(s) :
              /\ Len(Newest(s, n)) = Len(s) - d
              /\ \A i \in 1..Len(s) - d : Newest(s, n)[i] = s[i + d]
              /\ d = 0 \/ Len(Newest(s, n)) = n
<1> DEFINE d == IF Len(s) > n THEN Len(s) - n ELSE 0
<1>1. Len(s) \in Nat /\ d \in 0..Len(s) /\ \A i \in 1..Len(s) : s[i] \in X OBVIOUS
<1>2. Newest(s, n) = [i \in 1..Len(s) - d |-> s[i + d]]
  <2>1. CASE Len(s) > n
    <3>1. Newest(s, n) = SubSeq(s, Len(s) - n + 1, Len(s)) BY <2>1 DEF Newest
    <3> QED BY <2>1, <3>1
  <2>2. CASE ~(Len(s) > n)
    <3>1. Newest(s, n) = SubSeq(s, 1, Len(s)) BY <2>2 DEF Newest
    <3> QED BY <2>2, <3>1
  <2> QED BY <2>1, <2>2
<1>3. PICK q : q = Newest(s, n) OBVIOUS
<1>4. d = 0 \/ Len(s) - d = n BY <1>1
<1>5. Len(s) - d <= n BY <1>1
<1> HIDE DEF d
<1>6. \A i \in 1..Len(s) - d : i + d \in 1..Len(s) BY <1>1
<1>7. q \in Seq(X) /\ Len(q) = Len(s) - d /\ \A i \in 1..Len(s) - d : q[i] = s[i + d]
  BY <1>1, <1>2, <1>3, <1>6
<1>8. ToSet(q) \subseteq ToSet(s)
  <2> SUFFICES ASSUME NEW x \in ToSet(q) PROVE x \in ToSet(s) OBVIOUS
  <2>1. PICK i \in 1..Len(q) : x = q[i] BY <1>7, Places
  <2>2. x = s[i + d] /\ i + d \in 1..Len(s) BY <1>6, <1>7, <2>1
  <2> QED BY <2>2, Places
<1> QED BY <1>1, <1>3, <1>4, <1>5, <1>7, <1>8

\* The newest are in order, and what is left out is none of the newer ones.
LEMMA NewestInOrder ==
  ASSUME NEW s, InOrder(s), NEW n \in Nat
  PROVE  /\ InOrder(Newest(s, n))
         /\ \A k \in ToSet(s) \ ToSet(Newest(s, n)) :
              /\ Len(Newest(s, n)) = n
              /\ \A j \in ToSet(Newest(s, n)) : sent[j] >= sent[k]
<1>1. s \in Seq(Messages) BY DEF InOrder
<1>2. PICK q : q = Newest(s, n) OBVIOUS
<1>3. q \in Seq(Messages) /\ ToSet(q) \subseteq ToSet(s) BY <1>1, <1>2, NewestFacts
<1>4. PICK d \in 0..Len(s) : /\ Len(q) = Len(s) - d
                             /\ \A i \in 1..Len(s) - d : q[i] = s[i + d]
                             /\ d = 0 \/ Len(q) = n
  BY <1>1, <1>2, NewestFacts
<1>5. DOMAIN q = 1..Len(q) /\ DOMAIN s = 1..Len(s) /\ Len(s) \in Nat /\ d \in Nat BY <1>1, <1>3
<1>6. \A i \in 1..Len(q) : i + d \in 1..Len(s) /\ q[i] = s[i + d] BY <1>4, <1>5
<1>7. IsInjective(q)
  <2>1. ASSUME NEW i \in 1..Len(q), NEW j \in 1..Len(q), q[i] = q[j] PROVE i = j
    <3>1. i + d = j + d BY <1>5, <1>6, <2>1 DEF InOrder, IsInjective
    <3> QED BY <3>1, <1>5
  <2> QED BY <1>5, <2>1 DEF IsInjective
<1>8. Sorted(q)
  <2>1. ASSUME NEW i \in 1..Len(q), NEW j \in 1..Len(q), i < j PROVE sent[q[i]] <= sent[q[j]]
    <3>1. i + d < j + d BY <1>5, <2>1
    <3> QED BY <1>6, <3>1 DEF InOrder, Sorted
  <2> QED BY <2>1 DEF Sorted
<1>9. ASSUME NEW k \in ToSet(s) \ ToSet(q)
      PROVE  Len(q) = n /\ \A j \in ToSet(q) : sent[j] >= sent[k]
  <2>1. PICK a \in 1..Len(s) : k = s[a] BY <1>1, Places
  <2>2. a <= d
    <3> SUFFICES ASSUME ~(a <= d) PROVE FALSE OBVIOUS
    <3>1. a - d \in 1..Len(q) /\ (a - d) + d = a BY <1>4, <1>5
    <3>2. k = q[a - d] BY <1>6, <2>1, <3>1
    <3> QED BY <1>3, <3>1, <3>2, Places
  <2>3. Len(q) = n BY <1>4, <2>2
  <2>4. ASSUME NEW j \in ToSet(q) PROVE sent[j] >= sent[k]
    <3>1. PICK i \in 1..Len(q) : j = q[i] BY <1>3, Places
    <3>2. a < i + d /\ i + d \in 1..Len(s) /\ j = s[i + d] BY <1>5, <1>6, <2>2, <3>1
    <3> QED BY <2>1, <3>2 DEF InOrder, Sorted
  <2> QED BY <2>3, <2>4
<1> QED BY <1>2, <1>3, <1>7, <1>8, <1>9 DEF InOrder

\* A message that is put in its place, after those of the same stamp.
LEMMA InsertInOrder ==
  ASSUME Stamps, NEW s, InOrder(s), NEW m \in Messages \ ToSet(s)
  PROVE  /\ InOrder(Insert(m, s)) /\ Len(Insert(m, s)) = Len(s) + 1
         /\ ToSet(Insert(m, s)) = ToSet(s) \cup {m}
<1> DEFINE L == {k \in Messages : sent[k] <= sent[m]}
           G == {k \in Messages : sent[k] > sent[m]}
<1>0. s \in Seq(Messages) BY DEF InOrder
<1>1. PICK a : a = Kept(s, L) OBVIOUS
<1>2. PICK b : b = Kept(s, G) OBVIOUS
<1>3. /\ InOrder(a) /\ ToSet(a) = ToSet(s) \cap L
      /\ InOrder(b) /\ ToSet(b) = ToSet(s) \cap G
  BY <1>1, <1>2, KeptInOrder
<1>4. Len(a) + Len(b) = Len(s)
  <2>1. \A k \in Messages : k \in L <=> k \notin G BY DEF Stamps
  <2> HIDE DEF L, G
  <2>2. \A i \in 1..Len(s) : s[i] \in L <=> s[i] \notin G BY <1>0, <2>1, Places
  <2> QED BY <1>0, <1>1, <1>2, <2>2, KeptSplit
<1>5. Insert(m, s) = Append(a, m) \o b BY <1>1, <1>2 DEF Insert
<1>6. a \in Seq(Messages) /\ b \in Seq(Messages) BY <1>3 DEF InOrder
<1>7. PICK q : q = Append(a, m) \o b OBVIOUS
<1>8. /\ q \in Seq(Messages) /\ Len(q) = Len(a) + 1 + Len(b)
      /\ \A i \in 1..Len(a) : q[i] = a[i]
      /\ q[Len(a) + 1] = m
      /\ \A i \in 1..Len(b) : q[Len(a) + 1 + i] = b[i]
  <2>1. PICK c : c = Append(a, m) OBVIOUS
  <2>2. /\ c \in Seq(Messages) /\ Len(c) = Len(a) + 1 /\ c[Len(a) + 1] = m
        /\ \A i \in 1..Len(a) : c[i] = a[i]
    BY <1>6, <2>1
  <2>3. q = c \o b BY <1>7, <2>1
  <2>4. q \in Seq(Messages) /\ Len(q) = Len(c) + Len(b)
    <3>1. c \in Seq(Messages) /\ b \in Seq(Messages) BY <1>6, <2>2
    <3> HIDE DEF L, G
    <3>2. c \o b \in Seq(Messages) BY <3>1
    <3>3. Len(c \o b) = Len(c) + Len(b) BY <3>1
    <3> QED BY <2>3, <3>2, <3>3
  <2>5. \A i \in 1..Len(c) : q[i] = c[i] BY <1>6, <2>2, <2>3
  <2>6. \A i \in 1..Len(b) : q[Len(c) + i] = b[i] BY <1>6, <2>2, <2>3
  <2>7. Len(a) \in Nat /\ Len(b) \in Nat BY <1>6
  <2>8. 1..Len(a) \subseteq 1..Len(c) /\ Len(a) + 1 \in 1..Len(c) BY <2>2, <2>7
  <2> QED BY <2>2, <2>4, <2>5, <2>6, <2>7, <2>8
<1>9. Len(a) \in Nat /\ Len(b) \in Nat /\ Len(s) \in Nat BY <1>0, <1>6
\* Where a place of the result comes from.
<1>10. ASSUME NEW i \in 1..Len(q)
       PROVE  \/ i \in 1..Len(a) /\ q[i] = a[i] /\ q[i] \in ToSet(s) /\ sent[q[i]] <= sent[m]
              \/ i = Len(a) + 1 /\ q[i] = m
              \/ /\ i - (Len(a) + 1) \in 1..Len(b) /\ q[i] = b[i - (Len(a) + 1)]
                 /\ q[i] \in ToSet(s) /\ sent[q[i]] > sent[m]
  <2>1. CASE i \in 1..Len(a) BY <2>1, <1>3, <1>6, <1>8, Places
  <2>2. CASE i = Len(a) + 1 BY <2>2, <1>8
  <2>3. CASE i > Len(a) + 1
    <3>1. i - (Len(a) + 1) \in 1..Len(b) /\ Len(a) + 1 + (i - (Len(a) + 1)) = i BY <2>3, <1>8, <1>9
    <3>2. q[i] = b[i - (Len(a) + 1)] BY <3>1, <1>8
    <3>3. q[i] \in ToSet(b) BY <3>1, <3>2, <1>6, Places
    <3> QED BY <3>1, <3>2, <3>3, <1>3
  <2> QED BY <2>1, <2>2, <2>3, <1>9
<1>11. ASSUME NEW i \in 1..Len(q), NEW j \in 1..Len(q), i < j
       PROVE  q[i] # q[j] /\ sent[q[i]] <= sent[q[j]]
  <2>1. sent[m] \in Nat /\ sent[q[i]] \in Nat /\ sent[q[j]] \in Nat
    <3>1. q[i] \in Messages /\ q[j] \in Messages BY <1>8
    <3> QED BY <3>1 DEF Stamps
  <2>2. m \notin ToSet(s) OBVIOUS
  <2>3. CASE i \in 1..Len(a) /\ j \in 1..Len(a)
    <3>1. DOMAIN a = 1..Len(a) /\ a[i] # a[j] /\ sent[a[i]] <= sent[a[j]]
      BY <1>3, <1>6, <1>9, <1>11, <2>3 DEF InOrder, Sorted, IsInjective
    <3> QED BY <1>8, <2>3, <3>1
  <2>4. CASE i > Len(a) + 1 /\ j > Len(a) + 1
    <3> DEFINE x == i - (Len(a) + 1)
               y == j - (Len(a) + 1)
    <3>1. x \in 1..Len(b) /\ y \in 1..Len(b) /\ q[i] = b[x] /\ q[j] = b[y]
      BY <1>9, <1>10, <2>4
    <3>2. x < y /\ x # y BY <1>9, <1>11
    <3> HIDE DEF x, y
    <3>3. DOMAIN b = 1..Len(b) /\ b[x] # b[y] /\ sent[b[x]] <= sent[b[y]]
      BY <1>3, <1>6, <1>9, <3>1, <3>2 DEF InOrder, Sorted, IsInjective
    <3> QED BY <3>1, <3>3
  <2>5. CASE i \in 1..Len(a) /\ j = Len(a) + 1
    BY <1>9, <1>10, <2>1, <2>2, <2>5
  <2>6. CASE i = Len(a) + 1 /\ j > Len(a) + 1
    BY <1>9, <1>10, <2>1, <2>2, <2>6
  <2>7. CASE i \in 1..Len(a) /\ j > Len(a) + 1
    <3>1. sent[q[i]] <= sent[m] /\ sent[q[j]] > sent[m] BY <1>9, <1>10, <2>7
    <3> QED BY <2>1, <3>1
  <2>8. i \in 1..Len(a) \/ i = Len(a) + 1 \/ i > Len(a) + 1 BY <1>9
  <2>9. j \in 1..Len(a) \/ j = Len(a) + 1 \/ j > Len(a) + 1 BY <1>9
  <2> QED BY <1>9, <1>11, <2>3, <2>4, <2>5, <2>6, <2>7, <2>8, <2>9
<1>12. InOrder(q)
  <2>1. DOMAIN q = 1..Len(q) /\ Len(q) \in Nat BY <1>8
  <2>2. IsInjective(q)
    <3>1. ASSUME NEW i \in 1..Len(q), NEW j \in 1..Len(q), q[i] = q[j] PROVE i = j
      <4>1. i < j \/ j < i \/ i = j BY <2>1
      <4> QED BY <1>11, <3>1, <4>1
    <3> QED BY <2>1, <3>1 DEF IsInjective
  <2>3. Sorted(q) BY <1>11 DEF Sorted
  <2> QED BY <1>8, <2>2, <2>3 DEF InOrder
<1>13. ToSet(q) = ToSet(s) \cup {m}
  <2>0. \A i \in 1..Len(q) : q[i] \in ToSet(q) BY <1>8, Places
  <2>1. ASSUME NEW x \in ToSet(q) PROVE x \in ToSet(s) \cup {m}
    <3>1. PICK i \in 1..Len(q) : x = q[i] BY <1>8, Places
    <3> QED BY <1>10, <3>1
  <2>2. ASSUME NEW x \in ToSet(s) PROVE x \in ToSet(q)
    <3>1. x \in Messages BY <1>0, Places
    <3>2. x \in L \/ x \in G BY <3>1 DEF Stamps
    <3>3. CASE x \in L
      <4>1. PICK i \in 1..Len(a) : x = a[i] BY <1>3, <1>6, <3>3, Places
      <4>2. i \in 1..Len(q) /\ q[i] = x BY <1>8, <1>9, <4>1
      <4> QED BY <2>0, <4>2
    <3>4. CASE x \in G
      <4>1. PICK i \in 1..Len(b) : x = b[i] BY <1>3, <1>6, <3>4, Places
      <4>2. Len(a) + 1 + i \in 1..Len(q) /\ q[Len(a) + 1 + i] = x BY <1>8, <1>9, <4>1
      <4> QED BY <2>0, <4>2
    <3> QED BY <3>2, <3>3, <3>4
  <2>3. m \in ToSet(q)
    <3>1. Len(a) + 1 \in 1..Len(q) BY <1>8, <1>9
    <3> QED BY <1>8, <2>0, <3>1
  <2> QED BY <2>1, <2>2, <2>3
<1>14. Len(q) = Len(s) + 1 BY <1>4, <1>8, <1>9
<1> QED BY <1>5, <1>7, <1>12, <1>13, <1>14

\* What the room may hold: a bounded number of messages that were sent and that no
\* recall in force forbids.
GoodRoom(s) ==
  /\ InOrder(s) /\ Len(s) <= Buffer
  /\ \A m \in ToSet(s) : sent[m] # 0 /\ ~InForce(m)

\* The room is full of messages no older than k.
FullOf(k, s) == Len(s) = Buffer /\ \A j \in ToSet(s) : sent[j] >= sent[k]

\* The tombstones are the last of the recalls.
Aligned ==
  /\ recalls \in Seq([id : Messages, at : Nat])
  /\ recalled \in Seq([id : Messages, until : Nat])
  /\ Len(recalled) <= Len(recalls)
  /\ Len(recalled) = Capacity \/ Len(recalled) = Len(recalls)
  /\ \A i \in 1..Len(recalled) :
       LET call == recalls[i + (Len(recalls) - Len(recalled))]
       IN  recalled[i].id = call.id /\ recalled[i].until = call.at + Window

\* The bounds are numbers.
LEMMA Sizes ==
  /\ Window \in Nat \ {0} /\ Buffer \in Nat \ {0} /\ Capacity \in Nat \ {0} /\ MaxTime \in Nat \ {0}
BY ContextAssumption

\* A recall that binds has its tombstone, so is_recalled() refuses the message.
LEMMA InForceIsRecalled ==
  ASSUME Aligned, NEW m, InForce(m)
  PROVE  IsRecalled(m)
<1>1. recalls \in Seq([id : Messages, at : Nat]) /\ recalled \in Seq([id : Messages, until : Nat])
  BY DEF Aligned
<1>2. PICK i \in 1..Len(recalls) : /\ recalls[i].id = m /\ now < recalls[i].at + Window
                                   /\ Len(recalls) - i < Capacity
  BY <1>1 DEF InForce
<1> DEFINE d == Len(recalls) - Len(recalled)
<1>3. d \in Nat /\ i - d \in 1..Len(recalled) /\ (i - d) + d = i
  BY <1>1, <1>2, Sizes DEF Aligned
<1>4. /\ recalled[i - d].id = recalls[(i - d) + d].id
      /\ recalled[i - d].until = recalls[(i - d) + d].at + Window
  BY <1>3 DEF Aligned
<1>5. i - d \in DOMAIN recalled BY <1>1, <1>3
<1> HIDE DEF d
<1> QED BY <1>2, <1>3, <1>4, <1>5 DEF IsRecalled

\* prune() and its filters keep the room good.
LEMMA KeptGood ==
  ASSUME NEW s, GoodRoom(s), NEW S
  PROVE  GoodRoom(Kept(s, S)) /\ ToSet(Kept(s, S)) = ToSet(s) \cap S
<1>1. InOrder(s) BY DEF GoodRoom
<1>2. PICK q : q = Kept(s, S) OBVIOUS
<1>3. InOrder(q) /\ Len(q) <= Len(s) /\ ToSet(q) = ToSet(s) \cap S BY <1>1, <1>2, KeptInOrder
<1>4. Len(q) \in Nat /\ Len(s) \in Nat BY <1>1, <1>3 DEF InOrder
<1>5. GoodRoom(q) BY <1>3, <1>4, Sizes DEF GoodRoom
<1> QED BY <1>2, <1>3, <1>5

\* put() keeps the room good, for a message that was sent.
LEMMA StoredGood ==
  ASSUME Stamps, Aligned, NEW s, GoodRoom(s), NEW m \in Messages, sent[m] # 0
  PROVE  GoodRoom(Stored(s, m))
<1>1. PICK p : p = Pruned(s) OBVIOUS
<1>2. GoodRoom(p) BY <1>1, KeptGood DEF Pruned
<1>3. CASE IsRecalled(m) \/ ~Recent(m) BY <1>3 DEF Stored
<1>4. CASE ~IsRecalled(m) /\ Recent(m) /\ Contains(p, m) BY <1>1, <1>2, <1>4 DEF Stored
<1>5. CASE ~IsRecalled(m) /\ Recent(m) /\ ~Contains(p, m)
  <2>1. Stored(s, m) = Newest(Insert(m, p), Buffer) BY <1>1, <1>5 DEF Stored
  <2>2. InOrder(p) /\ p \in Seq(Messages) BY <1>2 DEF GoodRoom, InOrder
  <2>3. m \in Messages \ ToSet(p) BY <1>5, <2>2, Places
  <2>4. PICK q : q = Insert(m, p) OBVIOUS
  <2>5. InOrder(q) /\ q \in Seq(Messages) /\ ToSet(q) = ToSet(p) \cup {m}
    BY <2>2, <2>3, <2>4, InsertInOrder DEF InOrder
  <2>6. PICK n : n = Newest(q, Buffer) OBVIOUS
  <2>7. InOrder(n) /\ Len(n) <= Buffer /\ ToSet(n) \subseteq ToSet(q)
    BY <2>5, <2>6, Sizes, NewestInOrder, NewestFacts
  <2>8. ~InForce(m) BY <1>5, InForceIsRecalled
  <2>9. GoodRoom(n) BY <1>2, <2>5, <2>7, <2>8 DEF GoodRoom
  <2> QED BY <2>1, <2>4, <2>6, <2>9
<1> QED BY <1>3, <1>4, <1>5

\* A message that put() drops is out of the window, or older than a full room.
LEMMA StoredDrops ==
  ASSUME Stamps, NEW s, GoodRoom(s), NEW m \in Messages,
         NEW k \in ToSet(s) \ ToSet(Stored(s, m)), Recent(k)
  PROVE  FullOf(k, Stored(s, m))
<1>1. PICK p : p = Pruned(s) OBVIOUS
<1>2. GoodRoom(p) /\ ToSet(p) = ToSet(s) \cap {j \in Messages : Recent(j)} BY <1>1, KeptGood DEF Pruned
<1>3. s \in Seq(Messages) /\ p \in Seq(Messages) /\ InOrder(p) BY <1>2 DEF GoodRoom, InOrder
<1>4. k \in ToSet(p) BY <1>2, <1>3, Places
<1>5. ~IsRecalled(m) /\ Recent(m) /\ ~Contains(p, m) BY <1>1, <1>4 DEF Stored
<1>6. Stored(s, m) = Newest(Insert(m, p), Buffer) BY <1>1, <1>5 DEF Stored
<1>7. m \in Messages \ ToSet(p) BY <1>3, <1>5, Places
<1>8. PICK q : q = Insert(m, p) OBVIOUS
<1>9. InOrder(q) /\ ToSet(q) = ToSet(p) \cup {m} BY <1>3, <1>7, <1>8, InsertInOrder
<1>10. PICK n : n = Newest(q, Buffer) OBVIOUS
<1>11. k \in ToSet(q) \ ToSet(n) BY <1>4, <1>6, <1>8, <1>9, <1>10
<1>12. Len(n) = Buffer /\ \A j \in ToSet(n) : sent[j] >= sent[k]
  BY <1>9, <1>10, <1>11, Sizes, NewestInOrder
<1> QED BY <1>6, <1>8, <1>10, <1>12 DEF FullOf

\* A room that is full of newer messages remains so, whatever is put.
LEMMA FullStays ==
  ASSUME Stamps, now \in Nat, NEW s, GoodRoom(s), NEW m \in Messages,
         NEW k \in Messages, Recent(k), FullOf(k, s)
  PROVE  FullOf(k, Stored(s, m))
<1>1. s \in Seq(Messages) /\ InOrder(s) /\ Len(s) = Buffer BY DEF GoodRoom, InOrder, FullOf
<1>2. Pruned(s) = s
  <2>1. ASSUME NEW i \in 1..Len(s) PROVE s[i] \in {j \in Messages : Recent(j)}
    <3>1. s[i] \in Messages /\ s[i] \in ToSet(s) BY <1>1, Places
    <3>2. sent[s[i]] \in Nat /\ sent[k] \in Nat /\ sent[s[i]] >= sent[k] BY <3>1 DEF Stamps, FullOf
    <3> QED BY <3>1, <3>2, Sizes DEF Recent
  <2> QED BY <1>1, <2>1, KeptAll DEF Pruned
<1>3. CASE IsRecalled(m) \/ ~Recent(m) \/ Contains(s, m) BY <1>2, <1>3 DEF Stored
<1>4. CASE ~IsRecalled(m) /\ Recent(m) /\ ~Contains(s, m)
  <2>1. Stored(s, m) = Newest(Insert(m, s), Buffer) BY <1>2, <1>4 DEF Stored
  <2>2. m \in Messages \ ToSet(s) BY <1>1, <1>4, Places
  <2>3. PICK q : q = Insert(m, s) OBVIOUS
  <2>4. InOrder(q) /\ q \in Seq(Messages) /\ ToSet(q) = ToSet(s) \cup {m} /\ Len(q) = Len(s) + 1
    BY <1>1, <2>2, <2>3, InsertInOrder DEF InOrder
  <2>5. PICK n : n = Newest(q, Buffer) OBVIOUS
  <2>6. PICK d \in 0..Len(q) : /\ Len(n) = Len(q) - d /\ (d = 0 \/ Len(n) = Buffer)
                               /\ \A i \in 1..Len(q) - d : n[i] = q[i + d]
    BY <2>4, <2>5, Sizes, NewestFacts
  <2>7. InOrder(n) /\ n \in Seq(Messages) /\ Len(n) <= Buffer /\ ToSet(n) \subseteq ToSet(q)
    BY <2>4, <2>5, Sizes, NewestFacts, NewestInOrder DEF InOrder
  <2>8. Len(n) = Buffer /\ d = 1 BY <1>1, <2>4, <2>6, <2>7, Sizes
  \* The oldest one is dropped.
  <2> DEFINE f == q[1]
  <2>9. f \in ToSet(q) \ ToSet(n)
    <3>1. 1 \in 1..Len(q) /\ Len(n) \in Nat /\ Len(q) = Len(n) + 1 /\ DOMAIN q = 1..Len(q)
      BY <2>4, <2>6, <2>7, <2>8, Sizes
    <3>2. ASSUME f \in ToSet(n) PROVE FALSE
      <4>1. PICK i \in 1..Len(n) : f = n[i] BY <2>7, <3>2, Places
      <4>2. i + 1 \in 1..Len(q) /\ i + 1 # 1 /\ q[i + 1] = q[1] BY <2>6, <2>8, <3>1, <4>1
      <4> QED BY <2>4, <3>1, <4>2 DEF InOrder, IsInjective
    <3> QED BY <2>4, <3>1, <3>2, Places
  <2> HIDE DEF f
  <2>10. \A j \in ToSet(n) : sent[j] >= sent[f] BY <2>4, <2>5, <2>9, Sizes, NewestInOrder
  <2>11. ASSUME NEW j \in ToSet(n) PROVE sent[j] >= sent[k]
    <3>1. j \in ToSet(s) \/ (j = m /\ f \in ToSet(s)) BY <2>4, <2>7, <2>9, <2>11
    <3>2. j \in Messages /\ f \in Messages BY <2>4, <2>7, <2>9, Places
    <3>3. sent[j] \in Nat /\ sent[f] \in Nat /\ sent[k] \in Nat BY <3>2 DEF Stamps
    <3>4. CASE j \in ToSet(s) BY <3>4 DEF FullOf
    <3>5. CASE f \in ToSet(s)
      <4>1. sent[f] >= sent[k] /\ sent[j] >= sent[f] BY <2>10, <3>5 DEF FullOf
      <4> QED BY <3>3, <4>1
    <3> QED BY <3>1, <3>4, <3>5
  <2> QED BY <2>1, <2>3, <2>5, <2>8, <2>11 DEF FullOf
<1> QED BY <1>3, <1>4

-----------------------------------------------------------------------------
(* A page of history *)

FilledStep(page, g, n) == IF n = 0 THEN room ELSE Stored(g[n - 1], page[n])
FilledTable(page, g, n) == g = [k \in 0..n |-> FilledStep(page, g, k)]
FilledRun(page) == CHOOSE g : FilledTable(page, g, Len(page))

\* The room after a page is the last entry of a table over the page.
LEMMA FilledIsRun == ASSUME NEW page PROVE Filled(page) = FilledRun(page)[Len(page)]
BY DEF Filled, FilledRun, FilledTable, FilledStep

\* What the table says before the first message, and after each.
LEMMA FilledRunStep ==
  ASSUME NEW page, Len(page) \in Nat
  PROVE  /\ FilledRun(page)[0] = room
         /\ \A n \in 1..Len(page) : FilledRun(page)[n] = Stored(FilledRun(page)[n - 1], page[n])
<1> DEFINE P == {n \in 0..Len(page) : \E g : FilledTable(page, g, n)}
<1>1. 0 \in P
  <2>1. FilledTable(page, [k \in 0..0 |-> room], 0) BY DEF FilledTable, FilledStep
  <2> QED BY <2>1
<1>2. ASSUME NEW n \in 1..Len(page), n - 1 \in P PROVE n \in P
  <2>1. PICK g : FilledTable(page, g, n - 1) BY <1>2
  <2> DEFINE h == [k \in 0..n |-> IF k = n THEN FilledStep(page, g, n) ELSE g[k]]
  <2>2. ASSUME NEW k \in 0..n PROVE h[k] = FilledStep(page, h, k)
    <3>1. CASE k = 0 BY <3>1, <2>1 DEF FilledTable, FilledStep
    <3>2. CASE k \in 1..(n - 1)
      <4>1. h[k] = g[k] /\ h[k - 1] = g[k - 1] BY <3>2
      <4>2. g[k] = FilledStep(page, g, k) BY <3>2, <2>1 DEF FilledTable
      <4> QED BY <4>1, <4>2, <3>2 DEF FilledStep
    <3>3. CASE k = n
      <4>1. h[n - 1] = g[n - 1] /\ h[n] = FilledStep(page, g, n) OBVIOUS
      <4> QED BY <4>1, <3>3 DEF FilledStep
    <3> QED BY <3>1, <3>2, <3>3
  <2>3. h = [k \in 0..n |-> h[k]] OBVIOUS
  <2> HIDE DEF h
  <2>4. FilledTable(page, h, n) BY <2>2, <2>3 DEF FilledTable
  <2> QED BY <2>4
<1>3. P = 0..Len(page)
  <2>1. P \in SUBSET (0..Len(page)) OBVIOUS
  <2> HIDE DEF P
  <2> QED BY <1>1, <1>2, <2>1, UpTo
<1>4. Len(page) \in P BY <1>3
<1>5. FilledTable(page, FilledRun(page), Len(page)) BY <1>4 DEF FilledRun
<1>6. \A n \in 0..Len(page) : FilledRun(page)[n] = FilledStep(page, FilledRun(page), n)
  BY <1>5 DEF FilledTable
<1> QED BY <1>6 DEF FilledStep

\* A page keeps the room good, and drops only what is old.
LEMMA FilledGood ==
  ASSUME Stamps, Aligned, now \in Nat, GoodRoom(room),
         NEW page \in Seq({m \in Messages : sent[m] # 0})
  PROVE  /\ GoodRoom(Filled(page))
         /\ \A k \in ToSet(room) \ ToSet(Filled(page)) : Recent(k) => FullOf(k, Filled(page))
<1> DEFINE f(n) == FilledRun(page)[n]
           Fine(q) == /\ GoodRoom(q)
                      /\ \A k \in ToSet(room) \ ToSet(q) : Recent(k) => FullOf(k, q)
           P == {n \in 0..Len(page) : Fine(f(n))}
<1>0. Len(page) \in Nat /\ \A n \in 1..Len(page) : page[n] \in Messages /\ sent[page[n]] # 0 OBVIOUS
<1>1. f(0) = room /\ \A n \in 1..Len(page) : f(n) = Stored(f(n - 1), page[n])
  BY <1>0, FilledRunStep
<1>2. Filled(page) = f(Len(page)) BY FilledIsRun
<1> HIDE DEF f
<1>3. 0 \in P
  <2>1. Fine(room) /\ 0 \in 0..Len(page) BY <1>0
  <2> HIDE DEF Fine
  <2> QED BY <1>1, <2>1
<1>4. ASSUME NEW n \in 1..Len(page), n - 1 \in P PROVE n \in P
  <2>1. PICK s : s = f(n - 1) OBVIOUS
  <2>2. PICK m : m = page[n] OBVIOUS
  <2>3. GoodRoom(s) /\ \A k \in ToSet(room) \ ToSet(s) : Recent(k) => FullOf(k, s)
    BY <1>4, <2>1
  <2>4. m \in Messages /\ sent[m] # 0 /\ f(n) = Stored(s, m) BY <1>0, <1>1, <2>1, <2>2
  <2>5. GoodRoom(Stored(s, m)) BY <2>3, <2>4, StoredGood
  <2>6. ASSUME NEW k \in ToSet(room) \ ToSet(Stored(s, m)), Recent(k)
        PROVE  FullOf(k, Stored(s, m))
    <3>1. k \in Messages
      <4>1. room \in Seq(Messages) BY DEF GoodRoom, InOrder
      <4> QED BY <4>1, Places
    <3>2. CASE k \in ToSet(s) BY <2>3, <2>4, <2>6, <3>2, StoredDrops
    <3>3. CASE k \notin ToSet(s)
      <4>1. FullOf(k, s) BY <2>3, <2>6, <3>3
      <4> QED BY <2>3, <2>4, <2>6, <3>1, <4>1, FullStays
    <3> QED BY <3>2, <3>3
  <2>7. Fine(Stored(s, m)) BY <2>5, <2>6
  <2>8. n \in 0..Len(page) BY <1>0
  <2> HIDE DEF Fine
  <2> QED BY <2>4, <2>7, <2>8
<1>5. P = 0..Len(page)
  <2>1. P \in SUBSET (0..Len(page)) OBVIOUS
  <2> HIDE DEF P
  <2> QED BY <1>0, <1>3, <1>4, <2>1, UpTo
<1>6. Fine(f(Len(page)))
  <2>1. Len(page) \in P BY <1>0, <1>5
  <2> HIDE DEF Fine
  <2> QED BY <2>1
<1> QED BY <1>2, <1>6

-----------------------------------------------------------------------------
(* The steps of the context *)

ContextInv ==
  /\ now \in 1..MaxTime /\ sent \in [Messages -> 0..MaxTime]
  /\ GoodRoom(room)
  /\ recalled \in Seq([id : Messages, until : Nat]) /\ Len(recalled) <= Capacity
  /\ recalls \in Seq([id : Messages, at : 1..MaxTime])
  /\ Aligned

\* No message leaves the room that is neither recalled nor old.
NewestStays ==
  \A m \in ToSet(room) \ ToSet(room') :
    \/ \E i \in DOMAIN recalls' : recalls'[i].id = m
    \/ ~Recent(m)
    \/ /\ Len(room') = Buffer
       /\ \A k \in ToSet(room') : sent[k] >= sent[m]

\* What a step of the context may do.
Sound == ContextInv' /\ NewestStays /\ \A m \in Messages : sent[m] # 0 => sent'[m] # 0

\* What the lemmas about the room ask for.
LEMMA ContextFacts ==
  ASSUME ContextInv
  PROVE  /\ Stamps /\ Aligned /\ now \in Nat /\ GoodRoom(room) /\ room \in Seq(Messages)
         /\ ContextTypeOK
<1>1. Stamps /\ now \in Nat BY Sizes DEF ContextInv, Stamps
<1>2. room \in Seq(Messages) BY DEF ContextInv, GoodRoom, InOrder
<1>3. ContextTypeOK BY DEF ContextInv, ContextTypeOK, GoodRoom, InOrder
<1> QED BY <1>1, <1>2, <1>3 DEF ContextInv

\* A step that only replaces the room by a good one that lacks only what is old.
LEMMA RoomStep ==
  ASSUME ContextInv, NEW s, room' = s, GoodRoom(s), UNCHANGED <<now, sent, recalled, recalls>>,
         \A k \in ToSet(room) \ ToSet(s) : Recent(k) => FullOf(k, s)
  PROVE  Sound
<1>1. GoodRoom(room)' BY DEF GoodRoom, InOrder, Sorted, InForce
<1>2. Aligned' BY DEF ContextInv, Aligned
<1>3. ContextInv' BY <1>1, <1>2 DEF ContextInv
<1>4. NewestStays BY DEF NewestStays, FullOf
<1> QED BY <1>3, <1>4 DEF Sound

\* A page of messages that were sent.
LEMMA BackfillStep ==
  ASSUME ContextInv, NEW page \in Seq({m \in Messages : sent[m] # 0}), Backfill(page)
  PROVE  Sound
<1>1. PICK s : s = Filled(page) OBVIOUS
<1>2. room' = s /\ UNCHANGED <<now, sent, recalled, recalls>> BY <1>1 DEF Backfill
<1>3. GoodRoom(s) /\ \A k \in ToSet(room) \ ToSet(s) : Recent(k) => FullOf(k, s)
  BY <1>1, ContextFacts, FilledGood
<1> QED BY <1>2, <1>3, RoomStep

\* A message event.
LEMMA ObserveStep == ASSUME ContextInv, NEW m \in Messages, Observe(m) PROVE Sound
<1>1. PICK s : s = Stored(room, m) OBVIOUS
<1>2. sent[m] # 0 /\ room' = s /\ UNCHANGED <<now, sent, recalled, recalls>> BY <1>1 DEF Observe
<1>3. GoodRoom(s) BY <1>1, <1>2, ContextFacts, StoredGood
<1>4. \A k \in ToSet(room) \ ToSet(s) : Recent(k) => FullOf(k, s) BY <1>1, ContextFacts, StoredDrops
<1> QED BY <1>2, <1>3, <1>4, RoomStep

\* A message is sent: it was not in the room.
LEMMA SendStep == ASSUME ContextInv, NEW m \in Messages, Send(m) PROVE Sound
<1>1. /\ sent[m] = 0 /\ sent' = [sent EXCEPT ![m] = now]
      /\ UNCHANGED <<now, room, recalled, recalls>>
  BY DEF Send
<1>2. sent' \in [Messages -> 0..MaxTime] /\ \A k \in Messages : k # m => sent'[k] = sent[k]
  BY <1>1, Sizes DEF ContextInv
<1>3. \A k \in ToSet(room) : k \in Messages /\ k # m /\ sent'[k] = sent[k] /\ sent[k] # 0 /\ ~InForce(k)
  BY <1>1, <1>2, ContextFacts, Places DEF GoodRoom
<1>4. Sorted(room)'
  <2>1. ASSUME NEW i \in 1..Len(room), NEW j \in 1..Len(room), i < j
        PROVE  sent'[room[i]] <= sent'[room[j]]
    <3>1. sent[room[i]] <= sent[room[j]] BY <2>1 DEF ContextInv, GoodRoom, InOrder, Sorted
    <3>2. room[i] \in ToSet(room) /\ room[j] \in ToSet(room) BY ContextFacts, Places
    <3> QED BY <1>3, <3>1, <3>2
  <2> QED BY <1>1, <2>1 DEF Sorted
<1>5. GoodRoom(room)'
  <2>1. InOrder(room)' BY <1>1, <1>4 DEF ContextInv, GoodRoom, InOrder
  <2>2. Len(room') <= Buffer BY <1>1 DEF ContextInv, GoodRoom
  <2>3. \A k : InForce(k)' <=> InForce(k) BY <1>1 DEF InForce
  <2> QED BY <1>1, <1>3, <2>1, <2>2, <2>3 DEF GoodRoom
<1>6. Aligned' BY <1>1 DEF ContextInv, Aligned
<1>7. ContextInv' BY <1>1, <1>2, <1>5, <1>6 DEF ContextInv
<1>8. NewestStays BY <1>1 DEF NewestStays
<1>9. \A k \in Messages : sent[k] # 0 => sent'[k] # 0 BY <1>1, <1>2
<1> QED BY <1>7, <1>8, <1>9 DEF Sound

\* Time passes: a recall may cease to bind, and none begins to.
LEMMA TickStep == ASSUME ContextInv, Tick PROVE Sound
<1>1. now < MaxTime /\ now' = now + 1 /\ UNCHANGED <<sent, room, recalled, recalls>> BY DEF Tick
<1>2. now' \in 1..MaxTime BY <1>1, Sizes DEF ContextInv
<1>3. \A k : InForce(k)' => InForce(k)
  <2> SUFFICES ASSUME NEW k, InForce(k)' PROVE InForce(k) OBVIOUS
  <2>1. PICK i \in DOMAIN recalls : /\ recalls[i].id = k /\ now + 1 < recalls[i].at + Window
                                    /\ Len(recalls) - i < Capacity
    BY <1>1 DEF InForce
  <2>2. recalls[i].at \in Nat /\ now \in Nat
    <3> DEFINE Notices == [id : Messages, at : Nat]
    <3>1. recalls \in Seq(Notices) BY DEF ContextInv, Aligned
    <3>2. recalls[i] \in Notices
      <4> HIDE DEF Notices
      <4> QED BY <2>1, <3>1, Places
    <3> QED BY <3>2, ContextFacts
  <2>3. now < recalls[i].at + Window BY <2>1, <2>2, Sizes
  <2> QED BY <2>1, <2>3 DEF InForce
<1>4. GoodRoom(room)' BY <1>1, <1>3 DEF ContextInv, GoodRoom, InOrder, Sorted
<1>5. Aligned' BY <1>1 DEF ContextInv, Aligned
<1>6. ContextInv' BY <1>1, <1>2, <1>4, <1>5 DEF ContextInv
<1> QED BY <1>1, <1>6 DEF Sound, NewestStays

\* A recall: its tombstone is the newest, the message leaves the room.
LEMMA RecallStep == ASSUME ContextInv, NEW m \in Messages, Recall(m) PROVE Sound
<1> DEFINE tomb == [id |-> m, until |-> now + Window]
           call == [id |-> m, at |-> now]
           L == Len(recalls)
<1>1. /\ sent[m] # 0 /\ \A i \in DOMAIN recalls : recalls[i].id # m
      /\ recalled' = Bury(m) /\ room' = Kept(Pruned(room), Messages \ {m})
      /\ recalls' = Append(recalls, call) /\ UNCHANGED <<now, sent>>
  BY DEF Recall
<1>2. /\ recalls \in Seq([id : Messages, at : Nat]) /\ recalls \in Seq([id : Messages, at : 1..MaxTime])
      /\ recalled \in Seq([id : Messages, until : Nat]) /\ now \in 1..MaxTime
      /\ Len(recalled) <= Len(recalls) /\ Len(recalled) <= Capacity
      /\ Len(recalled) = Capacity \/ Len(recalled) = Len(recalls)
  BY DEF ContextInv, Aligned
<1>3. L \in Nat /\ Len(recalled) \in Nat /\ now \in Nat /\ DOMAIN recalls = 1..L
  BY <1>2, Sizes
<1>4. call \in [id : Messages, at : 1..MaxTime] /\ call \in [id : Messages, at : Nat]
      /\ tomb \in [id : Messages, until : Nat]
  BY <1>2, <1>3, Sizes
<1>5. /\ recalls' \in Seq([id : Messages, at : 1..MaxTime]) /\ recalls' \in Seq([id : Messages, at : Nat])
      /\ Len(recalls') = L + 1 /\ recalls'[L + 1] = call
      /\ \A i \in 1..L : recalls'[i] = recalls[i]
  BY <1>1, <1>2, <1>4
\* No tombstone of the message is there yet.
<1>6. Kept(recalled, {e \in ToSet(recalled) : e.id # m}) = recalled
  <2>1. ASSUME NEW n \in 1..Len(recalled) PROVE recalled[n] \in {e \in ToSet(recalled) : e.id # m}
    <3>1. n + (L - Len(recalled)) \in DOMAIN recalls BY <1>2, <1>3
    <3>2. recalled[n].id = recalls[n + (L - Len(recalled))].id BY DEF ContextInv, Aligned
    <3>3. recalled[n] \in ToSet(recalled) BY <1>2, Places
    <3> QED BY <1>1, <3>1, <3>2, <3>3
  <2> QED BY <1>2, <2>1, KeptAll
<1>7. PICK a : a = Append(recalled, tomb) OBVIOUS
<1>8. /\ a \in Seq([id : Messages, until : Nat]) /\ Len(a) = Len(recalled) + 1
      /\ a[Len(recalled) + 1] = tomb
      /\ \A i \in 1..Len(recalled) : a[i] = recalled[i]
  BY <1>2, <1>4, <1>7
<1>9. recalled' = Newest(a, Capacity) BY <1>1, <1>6, <1>7 DEF Bury
<1>10. PICK q : q = Newest(a, Capacity) OBVIOUS
<1>11. q \in Seq([id : Messages, until : Nat]) /\ Len(q) <= Capacity
  BY <1>8, <1>10, Sizes, NewestFacts
<1> DEFINE Tombs == [id : Messages, until : Nat]
<1>12. PICK d \in 0..Len(a) : /\ Len(q) = Len(a) - d /\ (d = 0 \/ Len(q) = Capacity)
                              /\ \A i \in 1..Len(a) - d : q[i] = a[i + d]
  <2>1. \E d \in 0..Len(a) :
          /\ Len(Newest(a, Capacity)) = Len(a) - d
          /\ \A i \in 1..Len(a) - d : Newest(a, Capacity)[i] = a[i + d]
          /\ d = 0 \/ Len(Newest(a, Capacity)) = Capacity
    <3>1. a \in Seq(Tombs) /\ Capacity \in Nat BY <1>8, Sizes
    <3> HIDE DEF Tombs
    <3> QED BY <3>1, NewestFacts
  <2> QED BY <1>10, <2>1
<1>13. Len(q) \in Nat /\ recalled' = q BY <1>9, <1>10, <1>11
<1>14. Aligned'
  <2>1. Len(q) <= L + 1 /\ (Len(q) = Capacity \/ Len(q) = L + 1)
    BY <1>2, <1>3, <1>8, <1>12, <1>11, <1>13, Sizes
  <2>2. ASSUME NEW i \in 1..Len(q)
        PROVE  /\ q[i].id = recalls'[i + (L + 1 - Len(q))].id
               /\ q[i].until = recalls'[i + (L + 1 - Len(q))].at + Window
    <3>1. PICK x : x = i + (L + 1 - Len(q)) OBVIOUS
    <3>2. PICK y : y = i + d OBVIOUS
    <3>3. y \in 1..Len(recalled) + 1 /\ q[i] = a[y] /\ x = y + (L - Len(recalled))
      BY <1>3, <1>8, <1>12, <1>13, <3>1, <3>2
    <3>4. q[i].id = recalls'[x].id /\ q[i].until = recalls'[x].at + Window
      <4>1. CASE y = Len(recalled) + 1
        <5>1. x = L + 1 BY <1>3, <3>3, <4>1
        <5>2. q[i] = tomb /\ recalls'[x] = call BY <1>5, <1>8, <3>3, <4>1, <5>1
        <5> QED BY <5>2
      <4>2. CASE y \in 1..Len(recalled)
        <5>1. x \in 1..L BY <1>2, <1>3, <3>3, <4>2
        <5>2. /\ recalled[y].id = recalls[y + (L - Len(recalled))].id
              /\ recalled[y].until = recalls[y + (L - Len(recalled))].at + Window
          BY <4>2 DEF ContextInv, Aligned
        <5>3. q[i] = recalled[y] /\ recalls'[x] = recalls[x] BY <1>5, <1>8, <3>3, <4>2, <5>1
        <5> QED BY <3>3, <5>2, <5>3
      <4> QED BY <1>3, <3>3, <4>1, <4>2
    <3> QED BY <3>1, <3>4
  <2>3. Len(recalls') = L + 1 BY <1>5
  <2> HIDE DEF L
  <2>4. \A i \in 1..Len(recalled') :
          /\ recalled'[i].id = recalls'[i + (Len(recalls') - Len(recalled'))].id
          /\ recalled'[i].until = recalls'[i + (Len(recalls') - Len(recalled'))].at + Window'
    <3>1. L + 1 - Len(q) = Len(recalls') - Len(recalled')
      <4>1. Len(recalled') = Len(q) BY <1>13
      <4>2. L \in Nat /\ Len(q) \in Nat BY <1>3, <1>13
      <4> QED BY <2>3, <4>1, <4>2
    <3> QED BY <1>13, <2>2, <3>1
  <2>5. /\ recalls' \in Seq([id : Messages, at : Nat]) /\ recalled' \in Seq([id : Messages, until : Nat])
        /\ Len(recalled') <= Len(recalls') /\ (Len(recalled') = Capacity \/ Len(recalled') = Len(recalls'))
    BY <1>5, <1>11, <1>13, <2>1, <2>3
  <2> QED BY <2>4, <2>5 DEF Aligned
\* What is in force afterwards was before, or is what is recalled.
<1>15. \A k : InForce(k)' => k = m \/ InForce(k)
  <2> SUFFICES ASSUME NEW k, InForce(k)' PROVE k = m \/ InForce(k) OBVIOUS
  <2>1. PICK i \in 1..L + 1 : /\ recalls'[i].id = k /\ now < recalls'[i].at + Window
                              /\ (L + 1) - i < Capacity
    BY <1>1, <1>5 DEF InForce
  <2>2. CASE i = L + 1 BY <1>5, <2>1, <2>2
  <2>3. CASE i \in 1..L
    <3>1. L - i < Capacity BY <1>3, <2>1, <2>3, Sizes
    <3> QED BY <1>3, <1>5, <2>1, <2>3, <3>1 DEF InForce
  <2> QED BY <1>3, <2>2, <2>3
<1>16. PICK p : p = Pruned(room) OBVIOUS
<1>17. GoodRoom(p) /\ ToSet(p) = ToSet(room) \cap {k \in Messages : Recent(k)}
  BY <1>16, ContextFacts, KeptGood DEF Pruned
<1>18. PICK r : r = Kept(p, Messages \ {m}) OBVIOUS
<1>19. GoodRoom(r) /\ ToSet(r) = ToSet(p) \cap (Messages \ {m}) BY <1>17, <1>18, KeptGood
<1>20. room' = r BY <1>1, <1>16, <1>18
<1>21. GoodRoom(room)'
  <2>1. InOrder(room)' BY <1>1, <1>19, <1>20 DEF GoodRoom, InOrder, Sorted
  <2>2. Len(room') <= Buffer BY <1>19, <1>20 DEF GoodRoom
  <2>3. \A k \in ToSet(room') : sent[k] # 0 /\ ~InForce(k)' BY <1>15, <1>19, <1>20 DEF GoodRoom
  <2> QED BY <1>1, <2>1, <2>2, <2>3 DEF GoodRoom
<1>22. ContextInv'
  <2>1. now' \in 1..MaxTime /\ sent' \in [Messages -> 0..MaxTime] BY <1>1 DEF ContextInv
  <2> QED BY <1>5, <1>11, <1>13, <1>14, <1>21, <2>1 DEF ContextInv
<1>23. NewestStays
  <2> SUFFICES ASSUME NEW k \in ToSet(room) \ ToSet(room'), Recent(k)
               PROVE  \E i \in DOMAIN recalls' : recalls'[i].id = k
    BY DEF NewestStays
  <2>1. k \in Messages BY ContextFacts, Places
  <2>2. k = m BY <1>17, <1>19, <1>20, <2>1
  <2>3. L + 1 \in DOMAIN recalls' /\ recalls'[L + 1].id = m BY <1>3, <1>5
  <2> QED BY <2>2, <2>3
<1> QED BY <1>1, <1>22, <1>23 DEF Sound

\* Every step of the context.
LEMMA ContextStep == ASSUME ContextInv, ContextNext PROVE Sound
<1>1. CASE \E m \in Messages : Send(m) \/ Observe(m) \/ Recall(m)
  BY <1>1, SendStep, ObserveStep, RecallStep
<1>2. CASE Tick BY <1>2, TickStep
<1> QED BY <1>1, <1>2 DEF ContextNext

\* A step that leaves the context alone.
LEMMA ContextSame == ASSUME ContextInv, UNCHANGED contextVars PROVE Sound
<1>1. UNCHANGED <<now, sent, room, recalled, recalls>> BY DEF contextVars
<1>2. PICK s : s = room OBVIOUS
<1>3. room' = s /\ GoodRoom(s) /\ \A k \in ToSet(room) \ ToSet(s) : Recent(k) => FullOf(k, s)
  BY <1>1, <1>2 DEF ContextInv
<1> QED BY <1>1, <1>3, RoomStep

-----------------------------------------------------------------------------
(* The readers *)

ReaderTypes ==
  /\ fetching \in BOOLEAN
  /\ pc \in [Readers -> States]
  /\ about \in [Readers -> Messages \cup {None}] /\ quote \in [Readers -> Messages \cup {None}]
  /\ calls \in [Readers -> 0..MaxNodes]

\* A reader asks NapCat only about messages that were sent.
AskedFor ==
  \A r \in Readers : /\ about[r] # None => sent[about[r]] # 0
                     /\ pc[r] \in {"asked", "asked late", "nested"} => about[r] # None

ShownTypes == shown \subseteq Messages

ReadsInv == ContextInv /\ ReaderTypes /\ AskedFor /\ ShownTypes /\ NothingRecalledShown

\* Everything but what is shown.
GoesOn == Sound /\ ReaderTypes' /\ AskedFor'

\* The constants.
LEMMA Readings ==
  /\ Limit \in Nat \ {0} /\ MaxNodes \in Nat /\ None \notin Messages
  /\ \A t \in Turns : Current[t] \in Messages /\ t \in Readers
  /\ \A q \in Tools : q \in Readers
  /\ \A e \in Expansions : e \in Readers
BY ReadsAssumption DEF Readers

\* The context moves, the readers do not.
LEMMA ReadersRest ==
  ASSUME ReadsInv, Sound, UNCHANGED <<pc, about, quote, calls>>, fetching' \in BOOLEAN
  PROVE  GoesOn
<1>1. ReaderTypes' BY DEF ReadsInv, ReaderTypes
<1>2. AskedFor'
  <2> SUFFICES ASSUME NEW r \in Readers
               PROVE  /\ about'[r] # None => sent'[about'[r]] # 0
                      /\ pc'[r] \in {"asked", "asked late", "nested"} => about'[r] # None
    BY DEF AskedFor
  <2>1. about[r] \in Messages \cup {None} /\ about'[r] = about[r] /\ pc'[r] = pc[r]
    BY DEF ReadsInv, ReaderTypes
  <2> QED BY <2>1 DEF ReadsInv, AskedFor, Sound
<1> QED BY <1>1, <1>2 DEF GoesOn

\* One reader moves.
LEMMA ReaderMoves ==
  ASSUME ReadsInv, Sound, NEW r \in Readers, NEW to \in States, NEW x \in Messages \cup {None},
         pc' = [pc EXCEPT ![r] = to], about' = [about EXCEPT ![r] = x],
         x # None => sent[x] # 0, to \in {"asked", "asked late", "nested"} => x # None,
         fetching' \in BOOLEAN, quote' \in [Readers -> Messages \cup {None}],
         calls' \in [Readers -> 0..MaxNodes]
  PROVE  GoesOn
<1>1. ReaderTypes' BY DEF ReadsInv, ReaderTypes
<1>2. AskedFor'
  <2> SUFFICES ASSUME NEW s \in Readers
               PROVE  /\ about'[s] # None => sent'[about'[s]] # 0
                      /\ pc'[s] \in {"asked", "asked late", "nested"} => about'[s] # None
    BY DEF AskedFor
  <2>1. \A m \in Messages : sent[m] # 0 => sent'[m] # 0 BY DEF Sound
  <2>2. CASE s = r
    <3>1. about'[s] = x /\ pc'[s] = to BY <2>2 DEF ReadsInv, ReaderTypes
    <3> QED BY <2>1, <3>1
  <2>3. CASE s # r
    <3>1. about[s] \in Messages \cup {None} /\ about'[s] = about[s] /\ pc'[s] = pc[s]
      BY <2>3 DEF ReadsInv, ReaderTypes
    <3> QED BY <2>1, <3>1 DEF ReadsInv, AskedFor
  <2> QED BY <2>2, <2>3
<1> QED BY <1>1, <1>2 DEF GoesOn

\* One reader moves and keeps what it asks about.
LEMMA ReaderGoes ==
  ASSUME ReadsInv, Sound, NEW r \in Readers, NEW to \in States, Goto(r, to), about' = about,
         to \in {"asked", "asked late", "nested"} => about[r] # None,
         fetching' \in BOOLEAN, quote' \in [Readers -> Messages \cup {None}],
         calls' \in [Readers -> 0..MaxNodes]
  PROVE  GoesOn
<1>1. PICK x \in Messages \cup {None} : x = about[r] BY DEF ReadsInv, ReaderTypes
<1>2. about' = [about EXCEPT ![r] = x] BY <1>1 DEF ReadsInv, ReaderTypes
<1>3. x # None => sent[x] # 0 BY <1>1 DEF ReadsInv, AskedFor
<1> QED BY <1>1, <1>2, <1>3, ReaderMoves DEF Goto

\* A page, or nothing, arrives.
LEMMA PageStep == ASSUME ReadsInv, PageArrives PROVE Sound
<1>1. ASSUME NEW page \in Pages, Backfill(page) PROVE Sound
  <2>1. PICK n \in 0..PageSize : page \in [1..n -> Sent] BY DEF Pages
  <2>2. n \in Nat BY <2>1, ReadsAssumption
  <2>3. page \in Seq(Sent) BY <2>1, <2>2
  <2> QED BY <1>1, <2>3, BackfillStep DEF ReadsInv, Sent
<1>2. CASE UNCHANGED contextVars BY <1>2, ContextSame DEF ReadsInv
<1> QED BY <1>1, <1>2 DEF PageArrives

\* A reader ends.
LEMMA EndStep ==
  ASSUME ReadsInv, NEW r \in Readers, NEW what, End(r, what), UNCHANGED contextVars
  PROVE  GoesOn
<1>1. Sound BY ContextSame DEF ReadsInv
<1>2. "over" \in States /\ "over" \notin {"asked", "asked late", "nested"} BY DEF States
<1>3. /\ pc' = [pc EXCEPT ![r] = "over"] /\ about' = [about EXCEPT ![r] = None]
      /\ quote' = [quote EXCEPT ![r] = None] /\ calls' = [calls EXCEPT ![r] = 0] /\ fetching' = fetching
  BY DEF End, Goto
<1>4. 0 \in 0..MaxNodes BY Readings
<1>5. /\ fetching' \in BOOLEAN /\ quote' \in [Readers -> Messages \cup {None}]
      /\ calls' \in [Readers -> 0..MaxNodes]
  BY <1>3, <1>4 DEF ReadsInv, ReaderTypes
<1> QED BY <1>1, <1>2, <1>3, <1>5, ReaderMoves

-----------------------------------------------------------------------------
(* The steps of the readers that show nothing *)

\* A turn begins, perhaps with a quote of a message that was sent.
LEMMA BeginTurnStep == ASSUME ReadsInv, NEW t \in Turns, BeginTurn(t) PROVE GoesOn
<1>1. Sound BY ContextSame DEF ReadsInv, BeginTurn
<1>2. PICK q \in (Sent \ {Current[t]}) \cup {None} : about' = [about EXCEPT ![t] = q] BY DEF BeginTurn
<1>3. PICK to \in {"early", "history"} : pc' = [pc EXCEPT ![t] = to] BY DEF BeginTurn, Goto
<1>4. to \in States /\ to \notin {"asked", "asked late", "nested"} BY DEF States
<1>5. t \in Readers /\ q \in Messages \cup {None} /\ (q # None => sent[q] # 0) BY <1>2, Readings DEF Sent
<1>6. fetching' = fetching /\ quote' = quote /\ calls' = calls BY DEF BeginTurn
<1>7. /\ fetching' \in BOOLEAN /\ quote' \in [Readers -> Messages \cup {None}]
      /\ calls' \in [Readers -> 0..MaxNodes]
  BY <1>6 DEF ReadsInv, ReaderTypes
<1> QED BY <1>1, <1>2, <1>3, <1>4, <1>5, <1>7, ReaderMoves

\* Where a turn goes after its quote was looked up.
LEMMA AfterType ==
  ASSUME NEW t
  PROVE  After(t) \in States /\ After(t) \notin {"asked", "asked late", "nested"}
BY DEF After, States

\* A quote is not needed, is at hand, or is asked for.
LEMMA QuoteStep == ASSUME ReadsInv, NEW t \in Turns, Quote(t) PROVE GoesOn
<1>1. Sound BY ContextSame DEF ReadsInv, Quote
<1>2. fetching' = fetching /\ about' = about /\ calls' = calls BY DEF Quote
<1>3. fetching' \in BOOLEAN /\ calls' \in [Readers -> 0..MaxNodes] BY <1>2 DEF ReadsInv, ReaderTypes
<1>4. t \in Readers /\ quote \in [Readers -> Messages \cup {None}] /\ about[t] \in Messages \cup {None}
  BY Readings DEF ReadsInv, ReaderTypes
<1>5. \/ Goto(t, After(t)) /\ quote' = quote
      \/ Goto(t, After(t)) /\ quote' = [quote EXCEPT ![t] = about[t]]
      \/ about[t] # None /\ Goto(t, "asked") /\ quote' = quote
      \/ about[t] # None /\ Goto(t, "asked late") /\ quote' = quote
  BY DEF Quote
<1>6. quote' \in [Readers -> Messages \cup {None}] BY <1>4, <1>5
<1>7. "asked" \in States /\ "asked late" \in States BY DEF States
<1>8. PICK to : to = After(t) OBVIOUS
<1>9. to \in States /\ to \notin {"asked", "asked late", "nested"} BY <1>8, AfterType
<1>10. CASE Goto(t, to) BY <1>1, <1>2, <1>3, <1>4, <1>6, <1>9, <1>10, ReaderGoes
<1>11. CASE about[t] # None /\ Goto(t, "asked") BY <1>1, <1>2, <1>3, <1>4, <1>6, <1>7, <1>11, ReaderGoes
<1>12. CASE about[t] # None /\ Goto(t, "asked late")
  BY <1>1, <1>2, <1>3, <1>4, <1>6, <1>7, <1>12, ReaderGoes
<1> QED BY <1>5, <1>8, <1>10, <1>11, <1>12

\* NapCat returns the quoted message, or fails to.
LEMMA QuoteAnsweredStep == ASSUME ReadsInv, NEW t \in Turns, QuoteAnswered(t) PROVE GoesOn
<1>1. fetching' = fetching /\ about' = about /\ calls' = calls BY DEF QuoteAnswered
<1>2. fetching' \in BOOLEAN /\ calls' \in [Readers -> 0..MaxNodes] BY <1>1 DEF ReadsInv, ReaderTypes
<1>3. t \in Readers /\ quote \in [Readers -> Messages \cup {None}] /\ about[t] \in Messages \cup {None}
  BY Readings DEF ReadsInv, ReaderTypes
<1>4. quote' \in [Readers -> Messages \cup {None}] BY <1>3 DEF QuoteAnswered
<1>5. Sound
  <2>1. CASE Backfill(<<about[t]>>)
    <3>1. about[t] # None BY <1>3 DEF ReadsInv, AskedFor, QuoteAnswered
    <3>2. about[t] \in {m \in Messages : sent[m] # 0} BY <1>3, <3>1 DEF ReadsInv, AskedFor
    <3>3. <<about[t]>> \in Seq({m \in Messages : sent[m] # 0}) BY <3>2
    <3> QED BY <2>1, <3>3, BackfillStep DEF ReadsInv
  <2>2. CASE UNCHANGED contextVars BY <2>2, ContextSame DEF ReadsInv
  <2> QED BY <2>1, <2>2 DEF QuoteAnswered
<1>6. PICK to : to = After(t) OBVIOUS
<1>7. to \in States /\ to \notin {"asked", "asked late", "nested"} BY <1>6, AfterType
<1>8. Goto(t, to) BY <1>6 DEF QuoteAnswered
<1> QED BY <1>1, <1>2, <1>3, <1>4, <1>5, <1>7, <1>8, ReaderGoes

\* A reader joins a fetch, starts one, or goes on.
LEMMA HistoryStep ==
  ASSUME ReadsInv, NEW r \in Readers, NEW next \in {"late", "return"}, EnsureHistory(r, next),
         UNCHANGED <<contextVars, about, quote, calls>>
  PROVE  GoesOn
<1>1. Sound BY ContextSame DEF ReadsInv
<1>2. PICK to \in {"joined", next} : Goto(r, to) BY DEF EnsureHistory
<1>3. to \in States /\ to \notin {"asked", "asked late", "nested"} BY DEF States
<1>4. fetching' \in BOOLEAN BY DEF EnsureHistory, ReadsInv, ReaderTypes
<1>5. about' = about /\ quote' \in [Readers -> Messages \cup {None}] /\ calls' \in [Readers -> 0..MaxNodes]
  BY DEF ReadsInv, ReaderTypes
<1> QED BY <1>1, <1>2, <1>3, <1>4, <1>5, ReaderGoes

\* A reader that asks nothing goes on.
LEMMA KeepStep ==
  ASSUME ReadsInv, Sound, NEW r \in Readers, NEW to \in {"late", "return"}, Goto(r, to), Keep
  PROVE  GoesOn
<1>1. to \in States /\ to \notin {"asked", "asked late", "nested"} BY DEF States
<1>2. about' = about /\ fetching' \in BOOLEAN /\ quote' \in [Readers -> Messages \cup {None}]
      /\ calls' \in [Readers -> 0..MaxNodes]
  BY DEF Keep, ReadsInv, ReaderTypes
<1> QED BY <1>1, <1>2, ReaderGoes

\* A tool call wants history, or a page before an anchor.
LEMMA AskStep == ASSUME ReadsInv, NEW q \in Tools, Ask(q) PROVE GoesOn
<1>1. q \in Readers BY Readings
<1>2. UNCHANGED <<contextVars, quote, calls>> BY DEF Ask
<1>3. CASE EnsureHistory(q, "return") /\ UNCHANGED about BY <1>1, <1>2, <1>3, HistoryStep
<1>4. ASSUME NEW m \in Sent, about' = [about EXCEPT ![q] = m], Goto(q, "page"), UNCHANGED fetching
      PROVE  GoesOn
  <2>1. Sound BY <1>2, ContextSame DEF ReadsInv
  <2>2. "page" \in States /\ "page" \notin {"asked", "asked late", "nested"} BY DEF States
  <2>3. m \in Messages \cup {None} /\ sent[m] # 0 BY DEF Sent
  <2>4. /\ fetching' \in BOOLEAN /\ quote' \in [Readers -> Messages \cup {None}]
        /\ calls' \in [Readers -> 0..MaxNodes]
    BY <1>2, <1>4 DEF ReadsInv, ReaderTypes
  <2>5. pc' = [pc EXCEPT ![q] = "page"] BY <1>4 DEF Goto
  <2> QED BY <1>1, <1>4, <2>1, <2>2, <2>3, <2>4, <2>5, ReaderMoves
<1> QED BY <1>3, <1>4 DEF Ask

\* A message that was sent is verified.
LEMMA VerifyStep == ASSUME ReadsInv, NEW e \in Expansions, Verify(e) PROVE GoesOn
<1>1. e \in Readers /\ UNCHANGED <<contextVars, fetching, quote, calls>> BY Readings DEF Verify
<1>2. Sound BY <1>1, ContextSame DEF ReadsInv
<1>3. PICK m \in Sent : about' = [about EXCEPT ![e] = m] BY DEF Verify
<1>4. m \in Messages \cup {None} /\ sent[m] # 0 /\ m # None BY Readings DEF Sent
<1>5. "nested" \in States /\ pc' = [pc EXCEPT ![e] = "nested"] BY DEF States, Verify, Goto
<1>6. /\ fetching' \in BOOLEAN /\ quote' \in [Readers -> Messages \cup {None}]
      /\ calls' \in [Readers -> 0..MaxNodes]
  BY <1>1 DEF ReadsInv, ReaderTypes
<1> QED BY <1>1, <1>2, <1>3, <1>4, <1>5, <1>6, ReaderMoves

\* A call for nested content counts.
LEMMA NestedStep == ASSUME ReadsInv, NEW e \in Expansions, Nested(e) PROVE GoesOn
<1>1. /\ e \in Readers /\ pc[e] = "nested" /\ calls[e] < MaxNodes
      /\ calls' = [calls EXCEPT ![e] = calls[e] + 1]
      /\ UNCHANGED <<contextVars, fetching, pc, about, quote>>
  BY Readings DEF Nested
<1>2. Sound BY <1>1, ContextSame DEF ReadsInv
<1>3. calls \in [Readers -> 0..MaxNodes] /\ pc \in [Readers -> States] BY DEF ReadsInv, ReaderTypes
<1>4. calls[e] + 1 \in 0..MaxNodes BY <1>1, <1>3, Readings
<1>5. calls' \in [Readers -> 0..MaxNodes] BY <1>1, <1>3, <1>4
<1>6. "nested" \in States /\ Goto(e, "nested") BY <1>1, <1>3 DEF States, Goto
<1>7. about[e] # None /\ about' = about BY <1>1 DEF ReadsInv, AskedFor
<1>8. fetching' \in BOOLEAN /\ quote' \in [Readers -> Messages \cup {None}]
  BY <1>1 DEF ReadsInv, ReaderTypes
<1> QED BY <1>1, <1>2, <1>5, <1>6, <1>7, <1>8, ReaderGoes

\* All of them.
LEMMA QuietStep == ASSUME ReadsInv, Quiet PROVE GoesOn
<1>1. CASE ContextNext /\ UNCHANGED readVars
  <2>1. Sound BY <1>1, ContextStep DEF ReadsInv
  <2>2. UNCHANGED <<pc, about, quote, calls>> /\ fetching' \in BOOLEAN
    BY <1>1 DEF readVars, ReadsInv, ReaderTypes
  <2> QED BY <2>1, <2>2, ReadersRest
<1>2. CASE FetchEnds
  <2>1. Sound BY <1>2, PageStep DEF FetchEnds
  <2>2. UNCHANGED <<pc, about, quote, calls>> /\ fetching' \in BOOLEAN BY <1>2 DEF FetchEnds
  <2> QED BY <2>1, <2>2, ReadersRest
<1>3. ASSUME NEW t \in Turns, BeginTurn(t) \/ Quote(t) \/ QuoteAnswered(t) \/ TurnHistory(t)
      PROVE  GoesOn
  <2>1. CASE BeginTurn(t) BY <2>1, BeginTurnStep
  <2>2. CASE Quote(t) BY <2>2, QuoteStep
  <2>3. CASE QuoteAnswered(t) BY <2>3, QuoteAnsweredStep
  <2>4. CASE TurnHistory(t)
    <3>1. t \in Readers /\ EnsureHistory(t, "late") /\ UNCHANGED <<contextVars, about, quote, calls>>
      BY <2>4, Readings DEF TurnHistory
    <3> QED BY <3>1, HistoryStep
  <2> QED BY <1>3, <2>1, <2>2, <2>3, <2>4
<1>4. ASSUME NEW q \in Tools, Ask(q) \/ OwnPage(q) PROVE GoesOn
  <2>1. CASE Ask(q) BY <2>1, AskStep
  <2>2. CASE OwnPage(q)
    <3>1. q \in Readers /\ Goto(q, "return") /\ Keep BY <2>2, Readings DEF OwnPage
    <3>2. Sound BY <2>2, PageStep DEF OwnPage
    <3> QED BY <3>1, <3>2, KeepStep
  <2> QED BY <1>4, <2>1, <2>2
<1>5. ASSUME NEW e \in Expansions, Verify(e) \/ Nested(e) PROVE GoesOn
  BY <1>5, VerifyStep, NestedStep
<1>6. ASSUME NEW r \in Turns \cup Tools, Joined(r) PROVE GoesOn
  <2>1. r \in Readers /\ Keep /\ UNCHANGED contextVars BY <1>6 DEF Joined, Readers
  <2>2. PICK to \in {"late", "return"} : Goto(r, to) BY <1>6 DEF Joined
  <2>3. Sound BY <2>1, ContextSame DEF ReadsInv
  <2> QED BY <2>1, <2>2, <2>3, KeepStep
<1> QED BY <1>1, <1>2, <1>3, <1>4, <1>5, <1>6 DEF Quiet

-----------------------------------------------------------------------------
(* What the readers show *)

Harmless(S) == S \subseteq Messages /\ \A m \in S : ~InForce(m)

\* The newest of what was taken from the room were in the room.
LEMMA NewestOfRoom ==
  ASSUME ReadsInv, NEW s \in Seq(Messages), ToSet(s) \subseteq ToSet(room), NEW n \in Nat
  PROVE  /\ Newest(s, n) \in Seq(Messages) /\ ToSet(Newest(s, n)) \subseteq ToSet(room)
         /\ Harmless(ToSet(Newest(s, n)))
<1>1. Newest(s, n) \in Seq(Messages) /\ ToSet(Newest(s, n)) \subseteq ToSet(s) BY NewestFacts
<1>2. \A m \in ToSet(room) : m \in Messages /\ ~InForce(m)
  BY ContextFacts, Places DEF ReadsInv, ContextInv, GoodRoom
<1> QED BY <1>1, <1>2 DEF Harmless

\* What is left of the room by a filter was in the room.
LEMMA KeptOfRoom ==
  ASSUME NEW s \in Seq(Messages), ToSet(s) \subseteq ToSet(room), NEW S
  PROVE  Kept(s, S) \in Seq(Messages) /\ ToSet(Kept(s, S)) \subseteq ToSet(room)
BY KeptFacts

\* A quote in hand is checked again.
LEMMA QuotedHarmless ==
  ASSUME ReadsInv, NEW t \in Turns
  PROVE  Harmless(Quoted(t)) /\ Cardinality(Quoted(t)) \in {0, 1}
<1>1. quote[t] \in Messages \cup {None} BY Readings DEF ReadsInv, ReaderTypes
<1>2. \A m : ~IsRecalled(m) => ~InForce(m) BY InForceIsRecalled DEF ReadsInv, ContextInv
<1>3. Quoted(t) = {} \/ (Quoted(t) = {quote[t]} /\ quote[t] # None /\ ~IsRecalled(quote[t])) BY DEF Quoted
<1>4. Harmless(Quoted(t)) BY <1>1, <1>2, <1>3 DEF Harmless
<1> QED BY <1>3, <1>4, FS_EmptySet, FS_Singleton

\* The context of a turn.
LEMMA RowsHarmless == ASSUME ReadsInv, NEW t \in Turns PROVE Harmless(Rows(t))
<1>1. room \in Seq(Messages) BY ContextFacts DEF ReadsInv
<1>2. PICK p : p = Pruned(room) OBVIOUS
<1>3. p \in Seq(Messages) /\ ToSet(p) \subseteq ToSet(room) BY <1>1, <1>2, KeptOfRoom DEF Pruned
<1>4. PICK u : u = Kept(p, {m \in Messages \ {Current[t]} : sent[m] <= sent[Current[t]]}) OBVIOUS
<1>5. u \in Seq(Messages) /\ ToSet(u) \subseteq ToSet(room) BY <1>3, <1>4, KeptOfRoom
<1>6. PICK n : n = Newest(u, Limit) OBVIOUS
<1>7. n \in Seq(Messages) /\ ToSet(n) \subseteq ToSet(room) BY <1>5, <1>6, Readings, NewestOfRoom
<1>8. PICK r : r = Kept(n, Messages \ Quoted(t)) OBVIOUS
<1>9. r \in Seq(Messages) /\ ToSet(r) \subseteq ToSet(room) BY <1>7, <1>8, KeptOfRoom
<1>10. Limit - Cardinality(Quoted(t)) \in Nat BY QuotedHarmless, Readings
<1>11. Harmless(ToSet(Newest(r, Limit - Cardinality(Quoted(t))))) BY <1>9, <1>10, NewestOfRoom
<1>12. Rows(t) = ToSet(Newest(r, Limit - Cardinality(Quoted(t)))) \cup Quoted(t)
  BY <1>2, <1>4, <1>6, <1>8 DEF Rows
<1> QED BY <1>11, <1>12, QuotedHarmless DEF Harmless

\* What stands before the anchor.
LEMMA BeforeFacts ==
  ASSUME NEW s \in Seq(Messages), NEW m
  PROVE  Before(m, s) \in Seq(Messages) /\ ToSet(Before(m, s)) \subseteq ToSet(s)
<1> DEFINE I == {i \in 1..Len(s) : s[i] = m}
           x == SelectInSeq(s, LAMBDA k : k = m)
<1>1. Len(s) \in Nat /\ \A i \in 1..Len(s) : s[i] \in Messages /\ s[i] \in ToSet(s) BY Places
<1>2. x = IF I # {} THEN Min(I) ELSE 0 BY DEF SelectInSeq
<1>3. x \in 0..Len(s)
  <2>1. CASE I # {}
    <3>1. I \in SUBSET Nat BY <1>1
    <3>2. \E i \in I : \A j \in I : i <= j
      <4> HIDE DEF I
      <4> QED BY <2>1, <3>1, Smallest
    <3>3. Min(I) \in I BY <3>2 DEF Min
    <3> QED BY <1>1, <1>2, <2>1, <3>3
  <2>2. CASE I = {} BY <1>1, <1>2, <2>2
  <2> QED BY <2>1, <2>2
<1>4. PICK n : n = x - 1 OBVIOUS
<1>5. Before(m, s) = SubSeq(s, 1, n) BY <1>4 DEF Before
<1> HIDE DEF x
<1>6. n \in Int /\ n <= Len(s) BY <1>1, <1>3, <1>4
<1>7. PICK q : q = SubSeq(s, 1, n) OBVIOUS
<1>8. q = [i \in 1..n |-> s[i]] BY <1>6, <1>7
<1>9. \A i \in 1..n : i \in 1..Len(s) BY <1>1, <1>6
<1>10. q \in Seq(Messages)
  <2>1. CASE n \in Nat BY <1>1, <1>8, <1>9, <2>1
  <2>2. CASE n \notin Nat
    <3>1. 1..n = {} BY <1>6, <2>2
    <3>2. q = <<>> BY <1>8, <3>1
    <3> QED BY <3>2
  <2> QED BY <2>1, <2>2
<1>11. ASSUME NEW k \in ToSet(q) PROVE k \in ToSet(s)
  <2>1. PICK i \in DOMAIN q : k = q[i] BY <1>11 DEF ToSet
  <2>2. i \in 1..n /\ k = s[i] BY <1>8, <2>1
  <2> QED BY <1>1, <1>9, <2>2
<1> QED BY <1>5, <1>7, <1>10, <1>11

\* Nothing that a step shows was recalled.
LEMMA ShownStep ==
  ASSUME ReadsInv, [ReadsNext]_conversationVars
  PROVE  GoesOn /\ ShownTypes' /\ NothingRecalledShown'
<1>0. \A m : ~IsRecalled(m) => ~InForce(m) BY InForceIsRecalled DEF ReadsInv, ContextInv
<1>1. ASSUME NEW r \in Readers, NEW what, End(r, what), UNCHANGED contextVars, Harmless(what)
      PROVE  GoesOn /\ ShownTypes' /\ NothingRecalledShown'
  <2>1. GoesOn BY <1>1, EndStep
  <2>2. shown' = what BY <1>1 DEF End
  <2>3. now' = now /\ recalls' = recalls BY <1>1 DEF contextVars
  <2> QED BY <1>1, <2>1, <2>2, <2>3 DEF Harmless, ShownTypes, NothingRecalledShown, InForce
<1>2. CASE Quiet /\ shown' = {} BY <1>2, QuietStep DEF ShownTypes, NothingRecalledShown
<1>3. ASSUME NEW t \in Turns, Dispatch(t) PROVE GoesOn /\ ShownTypes' /\ NothingRecalledShown'
  <2> DEFINE what == IF IsRecalled(Current[t]) THEN {} ELSE Rows(t) \cup {Current[t]}
  <2>1. t \in Readers /\ End(t, what) /\ UNCHANGED contextVars BY <1>3, Readings DEF Dispatch
  <2>2. Harmless(what) BY <1>0, RowsHarmless, Readings DEF Harmless
  <2> HIDE DEF what
  <2> QED BY <1>1, <2>1, <2>2
<1>4. ASSUME NEW q \in Tools, Return(q) PROVE GoesOn /\ ShownTypes' /\ NothingRecalledShown'
  <2> DEFINE rows == IF about[q] = None THEN Pruned(room) ELSE Before(about[q], Pruned(room))
  <2>1. q \in Readers /\ End(q, ToSet(Newest(rows, Limit))) /\ UNCHANGED contextVars
    BY <1>4, Readings DEF Return
  <2>2. room \in Seq(Messages) BY ContextFacts DEF ReadsInv
  <2>3. PICK p : p = Pruned(room) OBVIOUS
  <2>4. p \in Seq(Messages) /\ ToSet(p) \subseteq ToSet(room) BY <2>2, <2>3, KeptOfRoom DEF Pruned
  <2>5. Before(about[q], p) \in Seq(Messages) /\ ToSet(Before(about[q], p)) \subseteq ToSet(room)
    BY <2>4, BeforeFacts
  <2>6. rows \in Seq(Messages) /\ ToSet(rows) \subseteq ToSet(room) BY <2>3, <2>4, <2>5
  <2> HIDE DEF rows
  <2>7. Harmless(ToSet(Newest(rows, Limit))) BY <2>6, Readings, NewestOfRoom
  <2> QED BY <1>1, <2>1, <2>7
<1>5. ASSUME NEW e \in Expansions, Expanded(e) PROVE GoesOn /\ ShownTypes' /\ NothingRecalledShown'
  <2> DEFINE what == IF Readable(e) THEN {about[e]} ELSE {}
  <2>1. e \in Readers /\ pc[e] = "nested" /\ End(e, what) /\ UNCHANGED contextVars
    BY <1>5, Readings DEF Expanded
  <2>2. about[e] \in Messages BY <2>1 DEF ReadsInv, AskedFor, ReaderTypes
  <2>3. Harmless(what) BY <1>0, <2>2 DEF Harmless, Readable
  <2> HIDE DEF what
  <2> QED BY <1>1, <2>1, <2>3
<1>6. ASSUME NEW r \in Readers, Cancelled(r) PROVE GoesOn /\ ShownTypes' /\ NothingRecalledShown'
  <2>1. End(r, {}) /\ UNCHANGED contextVars BY <1>6 DEF Cancelled
  <2>2. Harmless({}) BY DEF Harmless
  <2> QED BY <1>1, <2>1, <2>2
<1>7. CASE UNCHANGED conversationVars
  <2>1. UNCHANGED contextVars /\ UNCHANGED <<pc, about, quote, calls>> /\ fetching' = fetching /\ shown' = shown
    BY <1>7 DEF conversationVars, readVars
  <2>2. fetching' \in BOOLEAN BY <2>1 DEF ReadsInv, ReaderTypes
  <2>3. Sound BY <2>1, ContextSame DEF ReadsInv
  <2>4. GoesOn BY <2>1, <2>2, <2>3, ReadersRest
  <2>5. now' = now /\ recalls' = recalls BY <2>1 DEF contextVars
  <2> QED BY <2>1, <2>4, <2>5 DEF ReadsInv, ShownTypes, NothingRecalledShown, InForce
<1> QED BY <1>2, <1>3, <1>4, <1>5, <1>6, <1>7 DEF ReadsNext

-----------------------------------------------------------------------------
(* The theorems *)

\* The invariant holds at the start.
LEMMA ReadsStart == ReadsInit => ReadsInv
<1> SUFFICES ASSUME ReadsInit PROVE ReadsInv OBVIOUS
<1>1. /\ now = 1 /\ sent = [m \in Messages |-> 0] /\ room = <<>> /\ recalled = <<>> /\ recalls = <<>>
      /\ fetching = FALSE /\ pc = [r \in Readers |-> "idle"] /\ about = [r \in Readers |-> None]
      /\ quote = [r \in Readers |-> None] /\ calls = [r \in Readers |-> 0] /\ shown = {}
  BY DEF ReadsInit, ContextInit
<1>2. GoodRoom(room)
  <2>1. room \in Seq(Messages) /\ DOMAIN room = {} /\ Len(room) = 0 BY <1>1
  <2>2. ToSet(room) = {} BY <2>1 DEF ToSet
  <2> QED BY <2>1, <2>2, Sizes DEF GoodRoom, InOrder, IsInjective, Sorted
<1>3. Aligned BY <1>1 DEF Aligned
<1>4. ContextInv BY <1>1, <1>2, <1>3, Sizes DEF ContextInv
<1>5. ReaderTypes
  <2>1. "idle" \in States /\ 0 \in 0..MaxNodes BY Readings DEF States
  <2> QED BY <1>1, <2>1 DEF ReaderTypes
<1>6. AskedFor BY <1>1 DEF AskedFor
<1> QED BY <1>1, <1>4, <1>5, <1>6 DEF ReadsInv, ShownTypes, NothingRecalledShown

\* ... and always: whatever events, recalls, pages and answers come, and whichever reader
\* waits for them.
THEOREM ReadsInvariant == ReadsSpec => []ReadsInv
<1>1. ReadsInv /\ [ReadsNext]_conversationVars => ReadsInv'
  BY ShownStep DEF ReadsInv, GoesOn, Sound
<1> QED BY <1>1, ReadsStart, PTL DEF ReadsSpec

\* The types, with a bounded room that holds no message twice and a bounded number of
\* tombstones (context.py).
THEOREM ReadsTypesHold == ReadsSpec => []ReadsTypeOK
<1>1. ReadsInv => ReadsTypeOK
  BY ContextFacts DEF ReadsInv, ReaderTypes, ShownTypes, ReadsTypeOK
<1> QED BY <1>1, ReadsInvariant, PTL

\* The room is in the order of the stamps, which render() and records() rely on, without
\* a message that is there twice, was not sent or is recalled by a recall in force.
THEOREM RoomStaysGood == ReadsSpec => []GoodRoom(room)
<1>1. ReadsInv => GoodRoom(room) BY DEF ReadsInv, ContextInv
<1> QED BY <1>1, ReadsInvariant, PTL

\* Nothing that was recalled is shown to the model, whatever the readers waited for
\* (render(), records(), check_parent()).
THEOREM ShownIsNotRecalled == ReadsSpec => []NothingRecalledShown
<1>1. ReadsInv => NothingRecalledShown BY DEF ReadsInv
<1> QED BY <1>1, ReadsInvariant, PTL

\* The newest messages stay, in whatever order events and pages come (put()).
THEOREM NewestAreKept == ReadsSpec => NewestKept
<1>1. ReadsInv /\ [ReadsNext]_conversationVars => [NewestStays]_contextVars
  BY ShownStep DEF GoesOn, Sound
<1> QED BY <1>1, ReadsInvariant, PTL DEF ReadsSpec, NewestKept, NewestStays
===============================================================================
