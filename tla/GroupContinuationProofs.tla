----------------------- MODULE GroupContinuationProofs ------------------------
(***************************************************************************)
(* Theorems about GroupContinuation, for every set of rooms and messages   *)
(* and every limit.                                                        *)
(***************************************************************************)
EXTENDS GroupContinuation, DataFacts

\* Where the worker of a room may be.
Places == {"none", "loop", "ready", "quiet", "lock", "deciding", "slot", "executing"}

\* What recalls and decisions take out of a queue is gone from it; nothing else is.
LEMMA WithoutFacts ==
  ASSUME NEW s \in Seq(Messages), NEW S
  PROVE  /\ Without(s, S) \in Seq(Messages)
         /\ Len(Without(s, S)) <= Len(s)
         /\ ToSet(Without(s, S)) = ToSet(s) \ S
<1>1. ToSet(s) \subseteq Messages BY DEF ToSet
<1>2. /\ Kept(s, Messages \ S) \in Seq(Messages)
      /\ Len(Kept(s, Messages \ S)) <= Len(s)
      /\ ToSet(Kept(s, Messages \ S)) = ToSet(s) \cap (Messages \ S)
  BY KeptFacts
<1> QED BY <1>1, <1>2 DEF Without

\* What a queue gets at its end.
LEMMA AppendSet ==
  ASSUME NEW s \in Seq(Messages), NEW m \in Messages
  PROVE  ToSet(Append(s, m)) = ToSet(s) \cup {m}
<1>1. /\ DOMAIN Append(s, m) = 1..Len(s) + 1 /\ DOMAIN s = 1..Len(s) /\ Len(s) \in Nat
      /\ \A i \in 1..Len(s) : Append(s, m)[i] = s[i]
      /\ Append(s, m)[Len(s) + 1] = m
  OBVIOUS
<1>2. \A i \in 1..Len(s) + 1 : i = Len(s) + 1 \/ i \in 1..Len(s) BY <1>1
<1>3. 1..Len(s) \subseteq 1..Len(s) + 1 /\ Len(s) + 1 \in 1..Len(s) + 1 BY <1>1
<1> QED BY <1>1, <1>2, <1>3 DEF ToSet

\* What a decision leaves in the queue is what arrived after its snapshot.
LEMMA RemainingFacts ==
  ASSUME TypeOK, NEW r \in Rooms
  PROVE  /\ Remaining(r) \in Seq(Messages)
         /\ Len(Remaining(r)) <= MaxPending
         /\ ToSet(Remaining(r)) = ToSet(pending[r]) \ ToSet(batch[r])
<1>1. pending[r] \in Seq(Messages) /\ Len(pending[r]) <= MaxPending /\ Len(pending[r]) \in Nat
  BY DEF TypeOK
<1>2. /\ Remaining(r) \in Seq(Messages) /\ Len(Remaining(r)) <= Len(pending[r])
      /\ ToSet(Remaining(r)) = ToSet(pending[r]) \ ToSet(batch[r])
  BY <1>1, WithoutFacts DEF Remaining
<1>3. Len(Remaining(r)) \in Nat BY <1>2
<1>4. MaxPending \in Nat BY ContinuationAssumption
<1> QED BY <1>1, <1>2, <1>3, <1>4

\* While the queues of all rooms together are not full, none of them is.
LEMMA PendingBound ==
  ASSUME TypeOK, NEW r \in Rooms, TotalPending < MaxPending
  PROVE  Len(pending[r]) < MaxPending
<1> DEFINE f == [q \in Rooms |-> Len(pending[q])]
<1>1. IsFiniteSet(Rooms) /\ MaxPending \in Nat BY ContinuationAssumption
<1>2. \A q \in Rooms : f[q] \in Nat BY DEF TypeOK
<1>3. f[r] <= SumFunctionOnSet(f, Rooms) /\ SumFunctionOnSet(f, Rooms) \in Nat
  <2> HIDE DEF f
  <2> QED BY <1>1, <1>2, SumBounds, SumType
<1>4. SumFunctionOnSet(f, Rooms) < MaxPending BY DEF TotalPending
<1> QED BY <1>1, <1>2, <1>3, <1>4

\* _accept keeps the accepted supplements within the live buffer.
LEMMA AcceptType ==
  ASSUME TypeOK, NEW r \in Rooms, NEW S \in SUBSET Messages, Accept(r, S)
  PROVE  /\ accepted' \in [Rooms -> Seq(Messages)]
         /\ \A q \in Rooms : Len(accepted'[q]) <= MaxAccepted
         /\ cross' \in [Rooms -> BOOLEAN]
         /\ contributors' \in [Rooms -> SUBSET Messages]
<1> DEFINE all == accepted[r] \o Selection(r, S)
           n == IF Len(all) > MaxAccepted THEN MaxAccepted ELSE Len(all)
           newest == SubSeq(all, Len(all) - n + 1, Len(all))
<1>1. MaxAccepted \in Nat BY ContinuationAssumption
<1>2. accepted[r] \in Seq(Messages) /\ batch[r] \in Seq(Messages) BY DEF TypeOK
<1>3. Selection(r, S) \in Seq(Messages) BY <1>2, KeptFacts DEF Selection
<1>4. all \in Seq(Messages) /\ Len(all) \in Nat BY <1>2, <1>3
<1>5. newest \in Seq(Messages) /\ Len(newest) <= MaxAccepted
  <2> HIDE DEF all
  <2>1. n \in 0..Len(all) /\ n <= MaxAccepted BY <1>1, <1>4
  <2>2. newest \in Seq(Messages) BY <1>4, <2>1
  <2>3. Len(newest) = n BY <1>4, <2>1
  <2> QED BY <2>1, <2>2, <2>3
<1>6. accepted' = [accepted EXCEPT ![r] = newest] BY DEF Accept
<1>7. cross' = [cross EXCEPT ![r] = @ /\ S \subseteq ByAdmin] /\ contributors' = [contributors EXCEPT ![r] = @ \cup S]
  BY DEF Accept
<1> HIDE DEF newest
<1>8. accepted' \in [Rooms -> Seq(Messages)] /\ \A q \in Rooms : Len(accepted'[q]) <= MaxAccepted
  BY <1>5, <1>6 DEF TypeOK
<1>9. cross' \in [Rooms -> BOOLEAN] BY <1>7 DEF TypeOK
<1>10. contributors' \in [Rooms -> SUBSET Messages] BY <1>7 DEF TypeOK
<1> QED BY <1>8, <1>9, <1>10

\* The state before any invitation.
LEMMA TypeInit == Init => TypeOK
<1> USE DEF Places
<1> SUFFICES ASSUME Init PROVE TypeOK OBVIOUS
<1>1. {MaxPending, MaxAccepted, MaxBatch} \subseteq Nat /\ MaxInvitations \in Nat
  BY ContinuationAssumption
<1>2. {pending, accepted, batch, turn} \subseteq [Rooms -> Seq(Messages)]
  BY DEF Init
<1>3. \A r \in Rooms : Len(pending[r]) = 0 /\ Len(accepted[r]) = 0 /\ Len(batch[r]) = 0
  BY DEF Init
<1>4. latest \in [Rooms -> Messages \cup {NoMessage}] BY DEF Init
<1>5. /\ invited \in 0..MaxInvitations /\ current \in [Rooms -> 0..invited]
      /\ ready \subseteq 1..invited /\ initial \subseteq (1..invited) \X Rooms
      /\ held \in [Rooms -> 0..invited] /\ executions \in [Messages -> Nat]
  BY <1>1 DEF Init
<1>6. /\ window \in [Rooms -> {"open", "idle", "over"}]
      /\ cross \in [Rooms -> BOOLEAN] /\ contributors \in [Rooms -> SUBSET Messages]
      /\ offered \subseteq Messages /\ recalled \subseteq Messages
      /\ lock \in [Rooms -> {"free", "turn", "worker"}]
      /\ worker \in [Rooms -> Places]
      /\ stranded \in BOOLEAN /\ closed \in BOOLEAN
  BY DEF Init
<1> QED BY <1>1, <1>2, <1>3, <1>4, <1>5, <1>6 DEF TypeOK

\* Names of tuples and of two sets, expanded throughout.
USE DEF Places, Invitations, stateVars, inputVars, workVars

\* end() leaves an empty queue, and a ready event of an invitation that was made.
LEMMA EndType ==
  ASSUME TypeOK, NEW r \in Rooms, End(r)
  PROVE  /\ current' \in [Rooms -> 0..invited]
         /\ ready' \subseteq 1..invited
         /\ pending' \in [Rooms -> Seq(Messages)]
         /\ \A q \in Rooms : Len(pending'[q]) <= MaxPending
<1>1. MaxPending \in Nat BY ContinuationAssumption
<1>2. invited \in Nat /\ current[r] \in 0..invited /\ current \in [Rooms -> 0..invited]
      /\ ready \subseteq 1..invited
  BY DEF TypeOK
<1>3. {current[r]} \ {0} \subseteq 1..invited BY <1>2
<1>4. ready' \subseteq 1..invited BY <1>2, <1>3 DEF End
<1>5. current' \in [Rooms -> 0..invited] BY <1>2 DEF End
<1>6. /\ pending' \in [Rooms -> Seq(Messages)]
      /\ \A q \in Rooms : Len(pending'[q]) <= MaxPending
  BY <1>1 DEF End, TypeOK
<1> QED BY <1>4, <1>5, <1>6

\* What the worker of a room sees has the type of a queue.
LEMMA HeldType ==
  ASSUME TypeOK, NEW r \in Rooms
  PROVE  /\ HeldPending(r) \in Seq(Messages)
         /\ HeldLatest(r) \in Messages \cup {NoMessage}
<1>1. HeldPending(r) \in Seq(Messages) BY DEF HeldPending, TypeOK
<1>2. HeldPending(r) # <<>> => Last(HeldPending(r)) \in Messages
  <2> DEFINE s == HeldPending(r)
  <2> HIDE DEF s
  <2>1. s \in Seq(Messages) BY <1>1 DEF s
  <2>2. s # <<>> => Last(s) \in Messages BY <2>1 DEF Last
  <2> QED BY <2>2 DEF s
<1> QED BY <1>1, <1>2 DEF HeldLatest

\* Members, administrators and the clock keep the types and the limits.
LEMMA InvitationTypes ==
  ASSUME TypeOK, NEW r \in Rooms, InvitationStep(r)
  PROVE  TypeOK'
<1>0. {MaxPending, MaxAccepted, MaxInvitations} \subseteq Nat BY ContinuationAssumption
<1>1. ASSUME NEW byAdmin \in BOOLEAN, Invite(r, byAdmin) PROVE TypeOK'
  <2>1. /\ {pending', accepted', batch'} \subseteq [Rooms -> Seq(Messages)]
        /\ \A q \in Rooms : /\ Len(pending'[q]) <= MaxPending
                            /\ Len(accepted'[q]) <= MaxAccepted
                            /\ Len(batch'[q]) <= MaxBatch
    BY <1>0, <1>1 DEF Invite, TypeOK
  <2>2. /\ invited' \in 0..MaxInvitations /\ current' \in [Rooms -> 0..invited']
        /\ ready' \subseteq 1..invited' /\ initial' \subseteq (1..invited') \X Rooms
        /\ held' \in [Rooms -> 0..invited']
    <3>1. invited \in Nat /\ invited' = invited + 1 /\ invited' \in 0..MaxInvitations
      BY <1>0, <1>1 DEF Invite, TypeOK
    <3>2. 0..invited \subseteq 0..invited' /\ 1..invited \subseteq 1..invited' BY <3>1
    <3>3. held' = held /\ held \in [Rooms -> 0..invited] BY <1>1 DEF Invite, TypeOK
    <3>4. held' \in [Rooms -> 0..invited'] BY <3>2, <3>3
    <3>5. current' \in [Rooms -> 0..invited'] BY <1>1, <3>1, <3>2 DEF Invite, TypeOK
    <3>6. ready' \subseteq 1..invited'
      <4>1. current[r] \in 0..invited /\ ready \subseteq 1..invited BY DEF TypeOK
      <4>2. {current[r]} \ {0} \subseteq 1..invited BY <3>1, <4>1
      <4>3. ready' = ready \cup ({current[r]} \ {0}) BY <1>1 DEF Invite
      <4> QED BY <3>2, <4>1, <4>2, <4>3
    <3>7. initial' \subseteq (1..invited') \X Rooms BY <1>1, <3>1, <3>2 DEF Invite, TypeOK
    <3> QED BY <3>1, <3>4, <3>5, <3>6, <3>7
  <2>3. /\ window' \in [Rooms -> {"open", "idle", "over"}]
        /\ cross' \in [Rooms -> BOOLEAN] /\ contributors' \in [Rooms -> SUBSET Messages]
    BY <1>1 DEF Invite, TypeOK
  <2> QED BY <1>1, <2>1, <2>2, <2>3 DEF Invite, TypeOK
<1>2. CASE TurnBegins(r) BY <1>2 DEF TurnBegins, TypeOK
<1>3. CASE Withdraw(r) BY <1>3, EndType DEF Withdraw, TypeOK
<1>4. ASSUME NEW i \in 1..MaxInvitations, TurnEnds(i, r) PROVE TypeOK'
  BY <1>4 DEF TurnEnds, Oldest, Renewed, TypeOK
<1>5. ASSUME NEW i \in 1..MaxInvitations, TurnCancelled(i, r) PROVE TypeOK'
  BY <1>5 DEF TurnCancelled, Oldest, Renewed, TypeOK
<1>6. ASSUME NEW i \in 1..MaxInvitations, Discard(i, r) PROVE TypeOK'
  <2>1. /\ current' \in [Rooms -> 0..invited]
        /\ ready' \subseteq 1..invited
        /\ pending' \in [Rooms -> Seq(Messages)]
        /\ \A q \in Rooms : Len(pending'[q]) <= MaxPending
    <3>1. CASE current[r] = i BY <1>6, <3>1, EndType DEF Discard
    <3>2. CASE current[r] # i BY <1>6, <3>2 DEF Discard, TypeOK
    <3> QED BY <3>1, <3>2
  <2>2. lock' \in [Rooms -> {"free", "turn", "worker"}] BY <1>6 DEF Discard, TypeOK
  <2>3. initial' \subseteq (1..invited) \X Rooms BY <1>6 DEF Discard, TypeOK
  <2> QED BY <1>6, <2>1, <2>2, <2>3 DEF Discard, TypeOK
<1>7. ASSUME NEW to \in {"idle", "over"}, WindowPasses(r, to) PROVE TypeOK'
  BY <1>7 DEF WindowPasses, TypeOK
<1>8. ASSUME NEW m \in Messages, Offer(r, m) PROVE TypeOK'
  <2>1. CASE TotalPending >= MaxPending /\ UNCHANGED <<pending, worker>>
    BY <1>8, <2>1 DEF Offer, TypeOK
  <2>2. CASE /\ TotalPending < MaxPending
             /\ pending' = [pending EXCEPT ![r] = Append(@, m)]
             /\ worker' = IF worker[r] = "none" THEN [worker EXCEPT ![r] = "loop"] ELSE worker
    <3>1. Len(pending[r]) < MaxPending BY <2>2, PendingBound
    <3>2. pending' \in [Rooms -> Seq(Messages)] /\ \A q \in Rooms : Len(pending'[q]) <= MaxPending
      <4>1. /\ pending[r] \in Seq(Messages) /\ pending \in [Rooms -> Seq(Messages)]
            /\ \A q \in Rooms : Len(pending[q]) <= MaxPending
        BY DEF TypeOK
      <4>2. Append(pending[r], m) \in Seq(Messages) /\ Len(Append(pending[r], m)) <= MaxPending
        BY <1>0, <3>1, <4>1
      <4>3. pending' = [pending EXCEPT ![r] = Append(pending[r], m)] BY <2>2
      <4> QED BY <4>1, <4>2, <4>3
    <3> QED BY <1>8, <2>2, <3>2 DEF Offer, TypeOK
  <2> QED BY <1>8, <2>1, <2>2 DEF Offer
<1> QED BY <1>1, <1>2, <1>3, <1>4, <1>5, <1>6, <1>7, <1>8 DEF InvitationStep

\* The worker of a room keeps the types and the limits.
LEMMA WorkerTypes ==
  ASSUME TypeOK, NEW r \in Rooms, WorkerStep(r)
  PROVE  TypeOK'
<1>0. MaxPending \in Nat /\ MaxBatch \in Nat BY ContinuationAssumption
<1>c. ASSUME NEW pc \in {"none", "loop", "deciding", "slot", "executing"}, Goto(r, pc)
      PROVE  worker' \in [Rooms -> Places]
  BY <1>c DEF Goto, TypeOK
<1>b. ASSUME Release(r)
      PROVE  /\ lock' \in [Rooms -> {"free", "turn", "worker"}]
             /\ batch' \in [Rooms -> Seq(Messages)] /\ \A q \in Rooms : Len(batch'[q]) <= MaxBatch
  BY <1>0, <1>b DEF Release, TypeOK
<1>1. CASE Loop(r)
  <2>1. worker' \in [Rooms -> Places]
    <3>1. \E pc \in {"none", "ready"} : worker' = [worker EXCEPT ![r] = pc] BY <1>1 DEF Loop, Goto
    <3> QED BY <3>1 DEF TypeOK
  <2>2. held' \in [Rooms -> 0..invited]
    <3>1. held \in [Rooms -> 0..invited] /\ current[r] \in 0..invited BY DEF TypeOK
    <3>2. held' = held \/ held' = [held EXCEPT ![r] = current[r]] BY <1>1 DEF Loop
    <3> QED BY <3>1, <3>2
  <2> QED BY <1>1, <2>1, <2>2 DEF Loop, TypeOK
<1>2. CASE Wait(r) BY <1>2, HeldType DEF Wait, Goto, TypeOK
<1>3. CASE Quiet(r) BY <1>3 DEF Quiet, Goto, TypeOK
<1>4. CASE Snapshot(r)
  <2>1. worker' \in [Rooms -> Places]
    BY <1>4, <1>c DEF Snapshot
  <2>2. lock' \in [Rooms -> {"free", "turn", "worker"}] BY <1>4 DEF Snapshot, TypeOK
  <2>3. batch' \in [Rooms -> Seq(Messages)] /\ \A q \in Rooms : Len(batch'[q]) <= MaxBatch
    <3> DEFINE s == IF Len(pending[r]) <= MaxBatch THEN pending[r]
                                                  ELSE SubSeq(pending[r], 1, MaxBatch)
    <3>1. pending[r] \in Seq(Messages) /\ Len(pending[r]) \in Nat BY DEF TypeOK
    <3>2. s \in Seq(Messages) /\ Len(s) <= MaxBatch BY <1>0, <3>1
    <3>3. batch' = batch \/ batch' = [batch EXCEPT ![r] = s] BY <1>4 DEF Snapshot
    <3> HIDE DEF s
    <3> QED BY <3>2, <3>3 DEF TypeOK
  <2> QED BY <1>4, <2>1, <2>2, <2>3 DEF Snapshot, TypeOK
<1>5. CASE BudgetSpent(r)
  <2>1. Goto(r, "none") /\ stranded' \in BOOLEAN BY <1>5 DEF BudgetSpent, Exit, TypeOK
  <2> QED BY <1>5, <1>c, <2>1 DEF BudgetSpent, TypeOK
<1>6. CASE DecisionFails(r)
  <2>1. Release(r) /\ Goto(r, "none") /\ stranded' \in BOOLEAN
    BY <1>6 DEF DecisionFails, Exit, TypeOK
  <2> QED BY <1>6, <1>b, <1>c, <2>1 DEF DecisionFails, TypeOK
<1>7. CASE Reassess(r)
  <2>1. Release(r) /\ Goto(r, "loop") BY <1>7 DEF Reassess
  <2> QED BY <1>7, <1>b, <1>c, <2>1 DEF Reassess, TypeOK
<1>8. CASE Unconvinced(r)
  <2>1. Release(r) /\ Goto(r, "none") /\ stranded' \in BOOLEAN BY <1>8 DEF Unconvinced, Exit, TypeOK
  <2> QED BY <1>8, <1>b, <1>c, <2>1 DEF Unconvinced, TypeOK
<1>a. ASSUME NEW S \in SUBSET Messages, Accept(r, S)
      PROVE  /\ accepted' \in [Rooms -> Seq(Messages)]
             /\ \A q \in Rooms : Len(accepted'[q]) <= MaxAccepted
             /\ cross' \in [Rooms -> BOOLEAN]
             /\ contributors' \in [Rooms -> SUBSET Messages]
  BY <1>a, AcceptType
<1>r. /\ Remaining(r) \in Seq(Messages)
      /\ Len(Remaining(r)) <= MaxPending
  BY RemainingFacts
<1>p. ASSUME pending' = [pending EXCEPT ![r] = Remaining(r)]
      PROVE  /\ pending' \in [Rooms -> Seq(Messages)]
             /\ \A q \in Rooms : Len(pending'[q]) <= MaxPending
  BY <1>p, <1>r DEF TypeOK
<1>9. ASSUME NEW S \in SUBSET Messages, Consume(r, S) PROVE TypeOK'
  <2>1. Release(r) /\ Goto(r, "loop") /\ Accept(r, S) BY <1>9 DEF Consume
  <2>2. window' \in [Rooms -> {"open", "idle", "over"}] BY <1>9 DEF Consume, Renewed, TypeOK
  <2>3. /\ pending' \in [Rooms -> Seq(Messages)]
        /\ \A q \in Rooms : Len(pending'[q]) <= MaxPending
    BY <1>9, <1>p DEF Consume
  <2> QED BY <1>9, <1>a, <1>b, <1>c, <2>1, <2>2, <2>3 DEF Consume, TypeOK
<1>10. ASSUME NEW S \in SUBSET Messages, Conclude(r, S) PROVE TypeOK'
  <2>1. Release(r) /\ Goto(r, "loop") /\ Accept(r, S) BY <1>10 DEF Conclude
  <2>2. /\ current' \in [Rooms -> 0..invited]
        /\ ready' \subseteq 1..invited
        /\ pending' \in [Rooms -> Seq(Messages)]
        /\ \A q \in Rooms : Len(pending'[q]) <= MaxPending
    <3>1. CASE Remaining(r) = <<>> BY <1>10, <3>1, EndType DEF Conclude
    <3>2. CASE Remaining(r) # <<>> BY <1>10, <3>2, <1>p DEF Conclude, TypeOK
    <3> QED BY <3>1, <3>2
  <2> QED BY <1>10, <1>a, <1>b, <1>c, <2>1, <2>2 DEF Conclude, TypeOK
<1>11. ASSUME NEW S \in SUBSET Messages, Execute(r, S) PROVE TypeOK'
  <2>1. Goto(r, "slot") /\ Accept(r, S) BY <1>11 DEF Execute
  <2>2. window' \in [Rooms -> {"open", "idle", "over"}] BY <1>11 DEF Execute, Renewed, TypeOK
  <2>3. /\ pending' \in [Rooms -> Seq(Messages)]
        /\ \A q \in Rooms : Len(pending'[q]) <= MaxPending
    BY <1>11, <1>p DEF Execute
  <2>4. turn' \in [Rooms -> Seq(Messages)]
    <3>1. batch[r] \in Seq(Messages) /\ turn \in [Rooms -> Seq(Messages)] BY DEF TypeOK
    <3>2. Selection(r, S) \in Seq(Messages) BY <3>1, KeptFacts DEF Selection
    <3>3. turn' = [turn EXCEPT ![r] = Selection(r, S)] BY <1>11 DEF Execute
    <3> QED BY <3>1, <3>2, <3>3
  <2>5. executions' \in [Messages -> Nat] BY <1>11 DEF Execute, TypeOK
  <2>6. batch' \in [Rooms -> Seq(Messages)] /\ \A q \in Rooms : Len(batch'[q]) <= MaxBatch
    BY <1>0, <1>11 DEF Execute, TypeOK
  <2> QED BY <1>11, <1>a, <1>c, <2>1, <2>2, <2>3, <2>4, <2>5, <2>6 DEF Execute, TypeOK
<1>w. ASSUME RenewHeld(r) PROVE window' \in [Rooms -> {"open", "idle", "over"}]
  BY <1>w DEF RenewHeld, Renewed, TypeOK
<1>12. CASE Executed(r)
  <2>1. Release(r) /\ Goto(r, "loop") /\ RenewHeld(r) BY <1>12 DEF Executed
  <2>2. turn' \in [Rooms -> Seq(Messages)] BY <1>12 DEF Executed, TypeOK
  <2> QED BY <1>12, <1>b, <1>c, <1>w, <2>1, <2>2 DEF Executed, TypeOK
<1>13. CASE ExecutionCancelled(r)
  <2>1. Release(r) /\ Goto(r, "none") /\ RenewHeld(r) /\ stranded' \in BOOLEAN
    BY <1>13 DEF ExecutionCancelled, Exit, TypeOK
  <2>2. turn' \in [Rooms -> Seq(Messages)] BY <1>13 DEF ExecutionCancelled, TypeOK
  <2> QED BY <1>13, <1>b, <1>c, <1>w, <2>1, <2>2 DEF ExecutionCancelled, TypeOK
<1>14. CASE HandOver(r)
  <2>1. Goto(r, "executing") BY <1>14 DEF HandOver
  <2> QED BY <1>14, <1>c, <2>1 DEF HandOver, TypeOK
<1> QED BY <1>1, <1>2, <1>3, <1>4, <1>5, <1>6, <1>7, <1>8, <1>9, <1>10, <1>11, <1>12, <1>13,
           <1>14
        DEF WorkerStep, Decision

\* So does every step.
LEMMA TypeStep == TypeOK /\ [Next]_vars => TypeOK'
<1> SUFFICES ASSUME TypeOK, [Next]_vars PROVE TypeOK' OBVIOUS
<1>0. MaxPending \in Nat /\ MaxAccepted \in Nat /\ MaxBatch \in Nat BY ContinuationAssumption
<1>1. ASSUME NEW r \in Rooms, InvitationStep(r) \/ WorkerStep(r) PROVE TypeOK'
  BY <1>1, InvitationTypes, WorkerTypes
<1>2. ASSUME NEW m \in Messages, Recall(m) PROVE TypeOK'
  <2>1. \A q \in Rooms : /\ Without(pending[q], {m}) \in Seq(Messages)
                         /\ Len(Without(pending[q], {m})) <= MaxPending
                         /\ Without(accepted[q], {m}) \in Seq(Messages)
                         /\ Len(Without(accepted[q], {m})) <= MaxAccepted
    <3> TAKE q \in Rooms
    <3>1. /\ pending[q] \in Seq(Messages) /\ Len(pending[q]) <= MaxPending
          /\ accepted[q] \in Seq(Messages) /\ Len(accepted[q]) <= MaxAccepted
      BY DEF TypeOK
    <3>2. /\ Without(pending[q], {m}) \in Seq(Messages)
          /\ Len(Without(pending[q], {m})) <= Len(pending[q])
          /\ Without(accepted[q], {m}) \in Seq(Messages)
          /\ Len(Without(accepted[q], {m})) <= Len(accepted[q])
      BY <3>1, WithoutFacts
    <3> QED BY <1>0, <3>1, <3>2
  <2>2. {pending', accepted'} \subseteq [Rooms -> Seq(Messages)]
    BY <1>2, <2>1 DEF Recall
  <2>3. \A q \in Rooms : Len(pending'[q]) <= MaxPending /\ Len(accepted'[q]) <= MaxAccepted
    BY <1>2, <2>1 DEF Recall
  <2>4. recalled' \subseteq Messages BY <1>2 DEF Recall, TypeOK
  <2> QED BY <1>2, <2>2, <2>3, <2>4 DEF Recall, TypeOK
<1>3. CASE Close
  <2>1. /\ {pending', accepted', batch'} \subseteq [Rooms -> Seq(Messages)]
        /\ \A q \in Rooms : /\ Len(pending'[q]) <= MaxPending
                            /\ Len(accepted'[q]) <= MaxAccepted
                            /\ Len(batch'[q]) <= MaxBatch
    BY <1>0, <1>3 DEF Close, TypeOK
  <2>2. current' \in [Rooms -> 0..invited'] /\ ready' \subseteq 1..invited'
    <3>1. /\ invited \in Nat /\ \A q \in Rooms : current[q] \in 0..invited
          /\ ready \subseteq 1..invited
      BY DEF TypeOK
    <3>2. {current[q] : q \in Rooms} \ {0} \subseteq 1..invited BY <3>1
    <3>3. current' = [q \in Rooms |-> 0] /\ ready' = ready \cup ({current[q] : q \in Rooms} \ {0})
          /\ invited' = invited
      BY <1>3 DEF Close
    <3>4. ready' \subseteq 1..invited BY <3>1, <3>2, <3>3
    <3>5. current' \in [Rooms -> 0..invited] BY <3>1, <3>3
    <3> QED BY <3>3, <3>4, <3>5
  <2>3. worker' \in [Rooms -> Places]
    BY <1>3 DEF Close
  <2>4. lock' \in [Rooms -> {"free", "turn", "worker"}] BY <1>3 DEF Close, TypeOK
  <2>5. turn' \in [Rooms -> Seq(Messages)] BY <1>3 DEF Close
  <2> QED BY <1>3, <2>1, <2>2, <2>3, <2>4, <2>5 DEF Close, TypeOK
<1>4. CASE UNCHANGED vars BY <1>4 DEF vars, TypeOK
<1> QED BY <1>1, <1>2, <1>3, <1>4 DEF Next

\* The state of every invitation and worker is well-formed, and the pending, accepted
\* and assessed supplements stay within their limits, in every number of rooms.
THEOREM Types == Spec => []TypeOK
<1>1. Init => TypeOK BY TypeInit
<1>2. TypeOK /\ [Next]_vars => TypeOK' BY TypeStep
<1> QED BY <1>1, <1>2, PTL DEF Spec

-----------------------------------------------------------------------------
(* Executions *)

\* Where a pending message is and what has become of it.
PendingIsNew ==
  /\ \A r \in Rooms : ToSet(pending[r]) \subseteq offered
  /\ \A r, q \in Rooms : r # q => ToSet(pending[r]) \cap ToSet(pending[q]) = {}
  /\ \A r \in Rooms : \A m \in ToSet(pending[r]) : executions[m] = 0
  /\ \A m \in Messages \ offered : executions[m] = 0

ReplayInv == TypeOK /\ PendingIsNew /\ NeverReplayed

\* No more is pending in any room than before.
Shrinks == /\ \A r \in Rooms : ToSet(pending'[r]) \subseteq ToSet(pending[r])
           /\ offered' = offered

\* end() only removes.
LEMMA EndShrinks ==
  ASSUME TypeOK, NEW r \in Rooms, End(r)
  PROVE  \A q \in Rooms : ToSet(pending'[q]) \subseteq ToSet(pending[q])
<1>1. pending' = [pending EXCEPT ![r] = <<>>] /\ pending \in [Rooms -> Seq(Messages)]
  BY DEF End, TypeOK
<1>2. ToSet(<<>>) = {} BY DEF ToSet
<1> QED BY <1>1, <1>2

\* Taking the snapshot off the queue only removes.
LEMMA RemainingShrinks ==
  ASSUME TypeOK, NEW r \in Rooms, pending' = [pending EXCEPT ![r] = Remaining(r)]
  PROVE  \A q \in Rooms : ToSet(pending'[q]) \subseteq ToSet(pending[q])
<1>1. pending \in [Rooms -> Seq(Messages)] BY DEF TypeOK
<1>2. ToSet(Remaining(r)) \subseteq ToSet(pending[r]) BY RemainingFacts
<1> QED BY <1>1, <1>2

\* Only offer() puts a message into a queue.
LEMMA StepShrinks ==
  ASSUME TypeOK, [Next]_vars
  PROVE  Shrinks \/ \E r \in Rooms, m \in Messages : Offer(r, m)
<1> SUFFICES ASSUME ~ \E r \in Rooms, m \in Messages : Offer(r, m)
             PROVE  Shrinks
  OBVIOUS
<1>a. ASSUME pending' = pending, offered' = offered PROVE Shrinks BY <1>a DEF Shrinks
<1>0. ToSet(<<>>) = {} BY DEF ToSet
<1>1. ASSUME NEW r \in Rooms, InvitationStep(r) PROVE Shrinks
  <2>1. ASSUME NEW byAdmin \in BOOLEAN, Invite(r, byAdmin) PROVE Shrinks
    BY <1>0, <2>1 DEF Invite, Shrinks, TypeOK
  <2>2. CASE TurnBegins(r) BY <1>a, <2>2 DEF TurnBegins
  <2>3. CASE Withdraw(r) BY <2>3, EndShrinks DEF Withdraw, Shrinks
  <2>4. ASSUME NEW i \in Invitations, TurnEnds(i, r) PROVE Shrinks BY <1>a, <2>4 DEF TurnEnds
  <2>5. ASSUME NEW i \in Invitations, TurnCancelled(i, r) PROVE Shrinks
    BY <1>a, <2>5 DEF TurnCancelled
  <2>6. ASSUME NEW i \in Invitations, Discard(i, r) PROVE Shrinks
    BY <2>6, EndShrinks DEF Discard, Shrinks
  <2>7. ASSUME NEW to \in {"idle", "over"}, WindowPasses(r, to) PROVE Shrinks
    BY <1>a, <2>7 DEF WindowPasses
  <2> QED BY <1>1, <2>1, <2>2, <2>3, <2>4, <2>5, <2>6, <2>7 DEF InvitationStep
<1>2. ASSUME NEW r \in Rooms, WorkerStep(r) PROVE Shrinks
  <2>1. CASE Loop(r) \/ Wait(r) \/ Quiet(r) \/ Snapshot(r) \/ BudgetSpent(r)
    BY <1>a, <2>1 DEF Loop, Wait, Quiet, Snapshot, BudgetSpent
  <2>2. CASE DecisionFails(r) \/ Reassess(r) \/ Unconvinced(r)
    BY <1>a, <2>2 DEF DecisionFails, Reassess, Unconvinced
  <2>3. CASE HandOver(r) \/ Executed(r) \/ ExecutionCancelled(r)
    BY <1>a, <2>3 DEF HandOver, Executed, ExecutionCancelled
  <2>4. ASSUME NEW S \in SUBSET Messages, Consume(r, S) \/ Execute(r, S) PROVE Shrinks
    BY <2>4, RemainingShrinks DEF Consume, Execute, Shrinks
  <2>5. ASSUME NEW S \in SUBSET Messages, Conclude(r, S) PROVE Shrinks
    BY <2>5, EndShrinks, RemainingShrinks DEF Conclude, Shrinks
  <2> QED BY <1>2, <2>1, <2>2, <2>3, <2>4, <2>5 DEF WorkerStep, Decision
<1>3. ASSUME NEW m \in Messages, Recall(m) PROVE Shrinks
  <2>1. \A q \in Rooms : ToSet(Without(pending[q], {m})) \subseteq ToSet(pending[q])
    <3> TAKE q \in Rooms
    <3>1. pending[q] \in Seq(Messages) BY DEF TypeOK
    <3> QED BY <3>1, WithoutFacts
  <2> QED BY <1>3, <2>1 DEF Recall, Shrinks
<1>4. CASE Close BY <1>0, <1>4 DEF Close, Shrinks
<1>5. CASE UNCHANGED vars BY <1>a, <1>5 DEF vars
<1> QED BY <1>1, <1>2, <1>3, <1>4, <1>5 DEF Next

\* Only the execution of a decision counts as one.
LEMMA OnlyExecuteCounts ==
  ASSUME [Next]_vars
  PROVE  \/ executions' = executions
         \/ \E r \in Rooms, S \in SUBSET Messages : Execute(r, S)
<1> DEFINE Same == executions' = executions
<1>1. ASSUME NEW r \in Rooms, InvitationStep(r) PROVE Same
  BY <1>1 DEF InvitationStep, Invite, TurnBegins, Withdraw, TurnEnds, TurnCancelled, Discard,
              WindowPasses, Offer
<1>2. ASSUME NEW r \in Rooms, WorkerStep(r),
             ~ \E S \in SUBSET Messages : Execute(r, S)
      PROVE  Same
  BY <1>2 DEF WorkerStep, Decision, Loop, Wait, Quiet, Snapshot, BudgetSpent, DecisionFails,
              Reassess, Unconvinced, Consume, Conclude, HandOver, Executed,
              ExecutionCancelled
<1>3. ASSUME NEW m \in Messages, Recall(m) PROVE Same BY <1>3 DEF Recall
<1>4. CASE Close BY <1>4 DEF Close
<1>5. CASE UNCHANGED vars BY <1>5 DEF vars
<1> QED BY <1>1, <1>2, <1>3, <1>4, <1>5 DEF Next

\* The invariant is inductive: an offered message is fresh, and an execution takes
\* its messages out of the only queue they are in.
LEMMA ReplayStep == ReplayInv /\ [Next]_vars => ReplayInv'
<1> SUFFICES ASSUME ReplayInv, [Next]_vars PROVE ReplayInv' OBVIOUS
<1>1. TypeOK /\ TypeOK' BY TypeStep DEF ReplayInv
<1>2. \A r \in Rooms : ToSet(pending[r]) \subseteq Messages
  <2> TAKE r \in Rooms
  <2>1. pending[r] \in Seq(Messages) BY <1>1 DEF TypeOK
  <2> QED BY <2>1 DEF ToSet
<1>3. ASSUME NEW r \in Rooms, NEW m \in Messages, Offer(r, m)
      PROVE  (PendingIsNew /\ NeverReplayed)'
  <2>1. /\ m \notin offered /\ offered' = offered \cup {m} /\ executions' = executions
        /\ pending' = pending \/ pending' = [pending EXCEPT ![r] = Append(pending[r], m)]
    BY <1>3 DEF Offer
  <2>2. ToSet(Append(pending[r], m)) = ToSet(pending[r]) \cup {m}
    <3>1. pending[r] \in Seq(Messages) BY <1>1 DEF TypeOK
    <3> QED BY <3>1, AppendSet
  <2>3. \A q \in Rooms : /\ q # r => ToSet(pending'[q]) = ToSet(pending[q])
                         /\ q = r => ToSet(pending'[q]) \subseteq ToSet(pending[q]) \cup {m}
    BY <1>1, <2>1, <2>2 DEF TypeOK
  <2>4. \A q \in Rooms : m \notin ToSet(pending[q]) BY <2>1 DEF ReplayInv, PendingIsNew
  <2>5. executions[m] = 0 BY <2>1 DEF ReplayInv, PendingIsNew
  <2>6. PendingIsNew'
    <3>1. \A q \in Rooms : ToSet(pending'[q]) \subseteq offered'
      BY <2>1, <2>3 DEF ReplayInv, PendingIsNew
    <3>2. \A p, q \in Rooms : p # q => ToSet(pending'[p]) \cap ToSet(pending'[q]) = {}
      BY <2>3, <2>4 DEF ReplayInv, PendingIsNew
    <3>3. \A q \in Rooms : \A k \in ToSet(pending'[q]) : executions'[k] = 0
      <4> SUFFICES ASSUME NEW q \in Rooms, NEW k \in ToSet(pending'[q]) PROVE executions[k] = 0
        BY <2>1
      <4>1. k = m \/ k \in ToSet(pending[q]) BY <2>3
      <4> QED BY <2>5, <4>1 DEF ReplayInv, PendingIsNew
    <3>4. \A k \in Messages \ offered' : executions'[k] = 0
      BY <2>1 DEF ReplayInv, PendingIsNew
    <3> QED BY <3>1, <3>2, <3>3, <3>4 DEF PendingIsNew
  <2>7. NeverReplayed' BY <2>1 DEF ReplayInv, NeverReplayed
  <2> QED BY <2>6, <2>7
<1>4. ASSUME Shrinks, executions' = executions PROVE (PendingIsNew /\ NeverReplayed)'
  BY <1>2, <1>4 DEF ReplayInv, PendingIsNew, NeverReplayed, Shrinks
<1>5. ASSUME Shrinks, NEW r \in Rooms, NEW S \in SUBSET Messages, Execute(r, S)
      PROVE  (PendingIsNew /\ NeverReplayed)'
  <2>1. /\ S \subseteq ToSet(batch[r]) /\ ToSet(batch[r]) \subseteq ToSet(pending[r])
        /\ pending' = [pending EXCEPT ![r] = Remaining(r)]
        /\ executions' = [m \in Messages |-> executions[m] + (IF m \in S THEN 1 ELSE 0)]
    BY <1>5 DEF Execute, Intact
  <2>2. ToSet(pending'[r]) = ToSet(pending[r]) \ ToSet(batch[r])
    BY <1>1, <2>1, RemainingFacts DEF TypeOK
  <2>3. \A q \in Rooms : q # r => ToSet(pending'[q]) = ToSet(pending[q])
    BY <1>1, <2>1 DEF TypeOK
  <2>4. \A q \in Rooms : ToSet(pending'[q]) \cap S = {}
    BY <2>1, <2>2, <2>3 DEF ReplayInv, PendingIsNew
  <2>5. \A m \in S : executions[m] = 0 BY <2>1 DEF ReplayInv, PendingIsNew
  <2>6. \A m \in Messages : /\ m \notin S => executions'[m] = executions[m]
                            /\ m \in S => executions'[m] = 1
    BY <1>1, <2>1, <2>5 DEF TypeOK
  <2>7. S \subseteq offered /\ offered' = offered
    BY <1>5, <2>1 DEF ReplayInv, PendingIsNew, Shrinks
  <2>8. NeverReplayed' BY <2>6 DEF ReplayInv, NeverReplayed
  <2>9. \A q \in Rooms : \A m \in ToSet(pending'[q]) : executions'[m] = 0
    <3> SUFFICES ASSUME NEW q \in Rooms, NEW m \in ToSet(pending'[q]) PROVE executions'[m] = 0
      OBVIOUS
    <3>1. m \in ToSet(pending[q]) /\ m \notin S BY <1>5, <2>4 DEF Shrinks
    <3>2. m \in Messages /\ executions[m] = 0 BY <1>2, <3>1 DEF ReplayInv, PendingIsNew
    <3> QED BY <2>6, <3>1, <3>2
  <2>10. \A m \in Messages \ offered' : executions'[m] = 0
    BY <2>6, <2>7 DEF ReplayInv, PendingIsNew
  <2>11. \A q \in Rooms : ToSet(pending'[q]) \subseteq offered'
    BY <1>5 DEF Shrinks, ReplayInv, PendingIsNew
  <2>12. \A p, q \in Rooms : p # q => ToSet(pending'[p]) \cap ToSet(pending'[q]) = {}
    BY <1>5 DEF Shrinks, ReplayInv, PendingIsNew
  <2> QED BY <2>8, <2>9, <2>10, <2>11, <2>12 DEF PendingIsNew
<1>6. (PendingIsNew /\ NeverReplayed)'
  <2>1. CASE \E r \in Rooms, m \in Messages : Offer(r, m) BY <1>3, <2>1
  <2>2. CASE Shrinks BY <1>4, <1>5, <2>2, OnlyExecuteCounts
  <2> QED BY <1>1, <2>1, <2>2, StepShrinks
<1> QED BY <1>1, <1>6 DEF ReplayInv

\* A supplement is handed to Hermes at most once, however recalls, decisions,
\* failures and cancellations fall: its snapshot leaves the queue with the decision.
THEOREM AtMostOnce == Spec => []NeverReplayed
<1>1. Init => ReplayInv
  <2> SUFFICES ASSUME Init PROVE PendingIsNew /\ NeverReplayed BY TypeInit DEF ReplayInv
  <2>1. ToSet(<<>>) = {} BY DEF ToSet
  <2>2. (\A r \in Rooms : ToSet(pending[r]) = {}) /\ \A m \in Messages : executions[m] = 0
    BY <2>1 DEF Init
  <2> QED BY <2>2 DEF PendingIsNew, NeverReplayed
<1>2. ReplayInv /\ [Next]_vars => ReplayInv' BY ReplayStep
<1>3. ReplayInv => NeverReplayed BY DEF ReplayInv
<1> QED BY <1>1, <1>2, <1>3, PTL DEF Spec

-----------------------------------------------------------------------------
(* The cross-chat privilege *)

\* Only an invitation sets the privilege, and it has no contributors yet; only
\* _accept adds some, and it looks at all it adds.
LEMMA PrivilegeStep == TypeOK /\ PrivilegeNeverReturns /\ [Next]_vars => PrivilegeNeverReturns'
<1> SUFFICES ASSUME TypeOK, PrivilegeNeverReturns, [Next]_vars PROVE PrivilegeNeverReturns'
  OBVIOUS
<1>a. ASSUME cross' = cross, contributors' = contributors PROVE PrivilegeNeverReturns'
  BY <1>a DEF PrivilegeNeverReturns
<1>1. ASSUME NEW r \in Rooms, InvitationStep(r) PROVE PrivilegeNeverReturns'
  <2>1. ASSUME NEW byAdmin \in BOOLEAN, Invite(r, byAdmin) PROVE PrivilegeNeverReturns'
    BY <2>1 DEF Invite, PrivilegeNeverReturns, TypeOK
  <2>2. CASE cross' = cross /\ contributors' = contributors BY <1>a, <2>2
  <2> QED BY <1>1, <2>1, <2>2 DEF InvitationStep, TurnBegins, Withdraw, TurnEnds, TurnCancelled,
                                  Discard, WindowPasses, Offer
<1>2. ASSUME NEW r \in Rooms, WorkerStep(r) PROVE PrivilegeNeverReturns'
  <2>1. ASSUME NEW S \in SUBSET Messages, Accept(r, S) PROVE PrivilegeNeverReturns'
    <3>1. /\ cross' = [cross EXCEPT ![r] = @ /\ S \subseteq ByAdmin]
          /\ contributors' = [contributors EXCEPT ![r] = @ \cup S]
          /\ r \in DOMAIN cross /\ r \in DOMAIN contributors
          /\ DOMAIN cross = Rooms /\ DOMAIN contributors = Rooms
      BY <2>1 DEF Accept, TypeOK
    <3>2. cross'[r] => contributors'[r] \subseteq ByAdmin BY <3>1 DEF PrivilegeNeverReturns
    <3>3. \A q \in Rooms \ {r} : cross'[q] = cross[q] /\ contributors'[q] = contributors[q]
      BY <3>1
    <3> QED BY <3>2, <3>3 DEF PrivilegeNeverReturns
  <2>2. CASE cross' = cross /\ contributors' = contributors BY <1>a, <2>2
  <2>3. \/ cross' = cross /\ contributors' = contributors
        \/ \E S \in SUBSET Messages : Accept(r, S)
    BY <1>2 DEF WorkerStep, Decision, Loop, Wait, Quiet, Snapshot, BudgetSpent, DecisionFails,
                Reassess, Unconvinced, Consume, Conclude, Execute, HandOver, Executed,
                ExecutionCancelled
  <2> QED BY <2>1, <2>2, <2>3
<1>3. ASSUME NEW m \in Messages, Recall(m) PROVE PrivilegeNeverReturns' BY <1>a, <1>3 DEF Recall
<1>4. CASE Close BY <1>a, <1>4 DEF Close
<1>5. CASE UNCHANGED vars BY <1>a, <1>5 DEF vars
<1> QED BY <1>1, <1>2, <1>3, <1>4, <1>5 DEF Next

\* The cross-chat privilege never survives a contributor who is no admin: neither
\* recall nor eviction gives it back.
THEOREM PrivilegeIsLost == Spec => []PrivilegeNeverReturns
<1>1. Init => PrivilegeNeverReturns BY DEF Init, PrivilegeNeverReturns
<1>2. TypeOK /\ PrivilegeNeverReturns /\ [Next]_vars => PrivilegeNeverReturns' BY PrivilegeStep
<1> QED BY <1>1, <1>2, Types, PTL DEF Spec

-----------------------------------------------------------------------------
(* Decisions *)

\* How a worker leaves a decision: with its queue as it was, or without its snapshot.
LEMMA DecisionEnds ==
  ASSUME TypeOK, [Next]_vars, NEW r \in Rooms, worker[r] = "deciding", worker'[r] # "deciding"
  PROVE  \/ Close
         \/ pending' = pending
         \/ \E S \in SUBSET Messages : Consume(r, S) \/ Conclude(r, S) \/ Execute(r, S)
<1>1. ASSUME NEW q \in Rooms, InvitationStep(q) PROVE FALSE
  <2>1. \/ worker' = worker
        \/ worker[q] = "none" /\ worker' = [worker EXCEPT ![q] = "loop"]
    BY <1>1 DEF InvitationStep, Invite, TurnBegins, Withdraw, TurnEnds, TurnCancelled, Discard,
                WindowPasses, Offer, stateVars, inputVars, workVars
  <2> QED BY <2>1 DEF TypeOK
<1>2. ASSUME NEW q \in Rooms, WorkerStep(q)
      PROVE  \/ pending' = pending
             \/ \E S \in SUBSET Messages : Consume(r, S) \/ Conclude(r, S) \/ Execute(r, S)
  <2>1. q = r
    <3>1. \E pc \in Places : Goto(q, pc)
      BY <1>2 DEF WorkerStep, Decision, Loop, Wait, Quiet, Snapshot, BudgetSpent, DecisionFails,
                  Reassess, Unconvinced, Consume, Conclude, Execute, HandOver, Executed,
                  ExecutionCancelled, Exit
    <3> QED BY <3>1 DEF Goto, TypeOK
  <2>2. CASE Loop(r) \/ Wait(r) \/ Quiet(r) \/ Snapshot(r) \/ BudgetSpent(r)
             \/ HandOver(r) \/ Executed(r) \/ ExecutionCancelled(r)
    BY <2>2 DEF Loop, Wait, Quiet, Snapshot, BudgetSpent, HandOver, Executed,
                ExecutionCancelled
  <2>3. CASE DecisionFails(r) \/ Reassess(r) \/ Unconvinced(r)
    BY <2>3 DEF DecisionFails, Reassess, Unconvinced, Exit, Goto, TypeOK, stateVars
  <2> QED BY <1>2, <2>1, <2>2, <2>3 DEF WorkerStep, Decision
<1>3. ASSUME NEW m \in Messages, Recall(m) PROVE FALSE BY <1>3 DEF Recall, workVars
<1>5. CASE UNCHANGED vars BY <1>5 DEF vars, workVars
<1> QED BY <1>1, <1>2, <1>3, <1>5 DEF Next

\* A decision consumes its snapshot and nothing else, the end of the discussion
\* included.
THEOREM SnapshotOnly == Spec => LaterInputSurvives
<1>1. ASSUME TypeOK, [Next]_vars
      PROVE  \A r \in Rooms : worker[r] = "deciding" /\ worker'[r] # "deciding" /\ ~closed'
               => \A m \in ToSet(pending[r]) \ ToSet(batch[r]) : m \in ToSet(pending'[r])
  <2> SUFFICES ASSUME NEW r \in Rooms, worker[r] = "deciding", worker'[r] # "deciding", ~closed'
               PROVE  ToSet(pending[r]) \ ToSet(batch[r]) \subseteq ToSet(pending'[r])
    OBVIOUS
  <2>1. CASE Close BY <2>1 DEF Close
  <2>2. CASE pending' = pending BY <2>2
  <2>3. ASSUME pending' = [pending EXCEPT ![r] = Remaining(r)]
        PROVE  ToSet(pending[r]) \ ToSet(batch[r]) \subseteq ToSet(pending'[r])
    <3>1. pending'[r] = Remaining(r) BY <1>1, <2>3 DEF TypeOK
    <3> QED BY <1>1, <3>1, RemainingFacts
  <2>4. ASSUME NEW S \in SUBSET Messages, Conclude(r, S), Remaining(r) = <<>>
        PROVE  ToSet(pending[r]) \ ToSet(batch[r]) = {}
    <3>1. ToSet(Remaining(r)) = ToSet(pending[r]) \ ToSet(batch[r]) BY <1>1, RemainingFacts
    <3>2. ToSet(<<>>) = {} BY DEF ToSet
    <3> QED BY <2>4, <3>1, <3>2
  <2>5. ASSUME NEW S \in SUBSET Messages, Consume(r, S) \/ Conclude(r, S) \/ Execute(r, S)
        PROVE  ToSet(pending[r]) \ ToSet(batch[r]) \subseteq ToSet(pending'[r])
    BY <2>3, <2>4, <2>5 DEF Consume, Conclude, Execute
  <2> QED BY <1>1, <2>1, <2>2, <2>5, DecisionEnds
<1> QED BY <1>1, Types, PTL DEF Spec, LaterInputSurvives

-----------------------------------------------------------------------------
(* Recalls *)

\* _accept takes its supplements from those it had and from the selection.
LEMMA AcceptFrom ==
  ASSUME TypeOK, NEW r \in Rooms, NEW S \in SUBSET Messages, Accept(r, S)
  PROVE  /\ \A q \in Rooms \ {r} : accepted'[q] = accepted[q]
         /\ ToSet(accepted'[r]) \subseteq ToSet(accepted[r]) \cup ToSet(batch[r])
<1> DEFINE all == accepted[r] \o Selection(r, S)
           n == IF Len(all) > MaxAccepted THEN MaxAccepted ELSE Len(all)
           newest == SubSeq(all, Len(all) - n + 1, Len(all))
<1>1. MaxAccepted \in Nat BY ContinuationAssumption
<1>2. accepted[r] \in Seq(Messages) /\ batch[r] \in Seq(Messages) BY DEF TypeOK
<1>3. Selection(r, S) \in Seq(Messages) /\ ToSet(Selection(r, S)) \subseteq ToSet(batch[r])
  <2>1. ToSet(batch[r]) \subseteq Messages BY <1>2 DEF ToSet
  <2> QED BY <1>2, <2>1, KeptFacts DEF Selection
<1>4. all \in Seq(Messages) /\ Len(all) \in Nat BY <1>2, <1>3
<1>5. ToSet(all) \subseteq ToSet(accepted[r]) \cup ToSet(Selection(r, S))
  <2> DEFINE s == accepted[r]
             t == Selection(r, S)
  <2>1. s \in Seq(Messages) /\ t \in Seq(Messages) BY <1>2, <1>3
  <2> HIDE DEF s, t
  <2>2. \A i \in 1..Len(s \o t) : \/ i \in 1..Len(s) /\ (s \o t)[i] = s[i]
                                  \/ i - Len(s) \in 1..Len(t) /\ (s \o t)[i] = t[i - Len(s)]
    BY <2>1
  <2>3. /\ DOMAIN (s \o t) = 1..Len(s \o t)
        /\ DOMAIN s = 1..Len(s) /\ DOMAIN t = 1..Len(t)
    BY <2>1
  <2>4. ToSet(s \o t) \subseteq ToSet(s) \cup ToSet(t) BY <2>2, <2>3 DEF ToSet
  <2> QED BY <2>4 DEF s, t
<1>6. ToSet(newest) \subseteq ToSet(all)
  <2> HIDE DEF all
  <2>1. n \in 0..Len(all) BY <1>1, <1>4
  <2> HIDE DEF n
  <2>2. /\ DOMAIN newest = 1..n /\ DOMAIN all = 1..Len(all)
        /\ \A i \in 1..n : newest[i] = all[Len(all) - n + i] /\ Len(all) - n + i \in 1..Len(all)
    BY <1>4, <2>1
  <2> QED BY <2>2 DEF ToSet
<1>7. accepted' = [accepted EXCEPT ![r] = newest] BY DEF Accept
<1> HIDE DEF newest, all
<1>8. accepted'[r] = newest /\ \A q \in Rooms \ {r} : accepted'[q] = accepted[q]
  BY <1>7 DEF TypeOK
<1> QED BY <1>3, <1>5, <1>6, <1>8

\* Only fresh messages are queued, a recall takes its message out everywhere, and a
\* decision accepts nothing of a snapshot that a recall has touched.
LEMMA ForgottenStep == TypeOK /\ RecalledIsForgotten /\ [Next]_vars => RecalledIsForgotten'
<1> SUFFICES ASSUME TypeOK, RecalledIsForgotten, [Next]_vars PROVE RecalledIsForgotten'
  OBVIOUS
<1>a. ASSUME accepted' = accepted, recalled' = recalled, Shrinks PROVE RecalledIsForgotten'
  BY <1>a DEF RecalledIsForgotten, Shrinks
<1>0. ToSet(<<>>) = {} BY DEF ToSet
<1>1. ASSUME NEW r \in Rooms, NEW m \in Messages, Offer(r, m) PROVE RecalledIsForgotten'
  <2>1. /\ m \notin recalled /\ recalled' = recalled /\ accepted' = accepted
        /\ pending' = pending \/ pending' = [pending EXCEPT ![r] = Append(pending[r], m)]
    BY <1>1 DEF Offer
  <2>2. pending[r] \in Seq(Messages) /\ pending \in [Rooms -> Seq(Messages)] BY DEF TypeOK
  <2>3. ToSet(Append(pending[r], m)) = ToSet(pending[r]) \cup {m} BY <2>2, AppendSet
  <2>4. \A q \in Rooms : ToSet(pending'[q]) \subseteq ToSet(pending[q]) \cup {m}
    BY <2>1, <2>2, <2>3
  <2> QED BY <2>1, <2>4 DEF RecalledIsForgotten
<1>2. ASSUME NEW r \in Rooms, InvitationStep(r), Shrinks PROVE RecalledIsForgotten'
  <2>1. ASSUME NEW byAdmin \in BOOLEAN, Invite(r, byAdmin) PROVE RecalledIsForgotten'
    <3>1. /\ accepted' = [accepted EXCEPT ![r] = <<>>] /\ recalled' = recalled
          /\ accepted \in [Rooms -> Seq(Messages)]
      BY <2>1 DEF Invite, TypeOK
    <3>2. \A q \in Rooms : ToSet(accepted'[q]) \subseteq ToSet(accepted[q]) BY <1>0, <3>1
    <3> QED BY <1>2, <3>1, <3>2 DEF RecalledIsForgotten, Shrinks
  <2>2. CASE accepted' = accepted /\ recalled' = recalled BY <1>2, <1>a, <2>2
  <2> QED BY <1>2, <2>1, <2>2 DEF InvitationStep, TurnBegins, Withdraw, TurnEnds, TurnCancelled,
                                  Discard, WindowPasses, Offer
<1>3. ASSUME NEW r \in Rooms, WorkerStep(r), Shrinks PROVE RecalledIsForgotten'
  <2>1. CASE accepted' = accepted /\ recalled' = recalled BY <1>3, <1>a, <2>1
  <2>2. ASSUME NEW S \in SUBSET Messages, Accept(r, S), Intact(r), recalled' = recalled
        PROVE  RecalledIsForgotten'
    <3>1. /\ \A q \in Rooms \ {r} : accepted'[q] = accepted[q]
          /\ ToSet(accepted'[r]) \subseteq ToSet(accepted[r]) \cup ToSet(batch[r])
      BY <2>2, AcceptFrom
    <3>2. ToSet(batch[r]) \cap recalled = {} BY <2>2 DEF Intact
    <3> QED BY <1>3, <2>2, <3>1, <3>2 DEF RecalledIsForgotten, Shrinks
  <2>3. \/ accepted' = accepted /\ recalled' = recalled
        \/ \E S \in SUBSET Messages : Accept(r, S) /\ Intact(r) /\ recalled' = recalled
    BY <1>3 DEF WorkerStep, Decision, Loop, Wait, Quiet, Snapshot, BudgetSpent, DecisionFails,
                Reassess, Unconvinced, Consume, Conclude, Execute, HandOver, Executed,
                ExecutionCancelled
  <2> QED BY <2>1, <2>2, <2>3
<1>4. ASSUME NEW m \in Messages, Recall(m) PROVE RecalledIsForgotten'
  <2>1. \A q \in Rooms : /\ ToSet(Without(pending[q], {m})) = ToSet(pending[q]) \ {m}
                         /\ ToSet(Without(accepted[q], {m})) = ToSet(accepted[q]) \ {m}
    <3> TAKE q \in Rooms
    <3>1. pending[q] \in Seq(Messages) /\ accepted[q] \in Seq(Messages) BY DEF TypeOK
    <3> QED BY <3>1, WithoutFacts
  <2>2. /\ \A q \in Rooms : /\ pending'[q] = Without(pending[q], {m})
                            /\ accepted'[q] = Without(accepted[q], {m})
        /\ recalled' = recalled \cup {m}
    BY <1>4 DEF Recall
  <2>3. \A q \in Rooms : ToSet(pending'[q]) \cup ToSet(accepted'[q])
                           = (ToSet(pending[q]) \cup ToSet(accepted[q])) \ {m}
    BY <2>1, <2>2
  <2> QED BY <2>2, <2>3 DEF RecalledIsForgotten
<1>5. CASE Close /\ Shrinks BY <1>5, <1>a DEF Close
<1>6. CASE UNCHANGED vars BY <1>6 DEF vars, RecalledIsForgotten
<1>7. CASE \E r \in Rooms, m \in Messages : Offer(r, m) BY <1>1, <1>7
<1> QED BY <1>2, <1>3, <1>4, <1>5, <1>6, <1>7, StepShrinks DEF Next

\* RecalledIsForgotten: a recalled supplement is neither queued nor among the accepted
\* ones again, whatever decision was under way when the recall came.
THEOREM RecallsLast == Spec => []RecalledIsForgotten
<1>1. Init => RecalledIsForgotten BY DEF Init, RecalledIsForgotten
<1>2. TypeOK /\ RecalledIsForgotten /\ [Next]_vars => RecalledIsForgotten' BY ForgottenStep
<1> QED BY <1>1, <1>2, Types, PTL DEF Spec
===============================================================================
