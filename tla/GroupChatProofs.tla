-------------------------- MODULE GroupChatProofs --------------------------
(***************************************************************************)
(* What GroupChat guarantees for any rooms and messages and every number   *)
(* of model slots: the account of the queues is exact and within its       *)
(* bound, the answers of a room exclude one another, nothing outdated,     *)
(* recalled or reopened is answered, and no request waits in a circle.     *)
(***************************************************************************)
EXTENDS GroupChat, SequenceTheorems, DataFacts

\* Who holds the lock of a room: at most one of its request, the evaluation of an
\* unasked answer, that answer itself, and the invited conversation.
LockInv ==
  \A r \in Rooms :
    /\ drain[r] \in {"slot", "history", "media", "running"} => lock[r] = "request"
    /\ Evaluating(r) => lock[r] = "timer" /\ reply[r] = Nobody
    /\ reply[r] # Nobody => lock[r] = "timer"
    /\ followup[r] # "none" => lock[r] = "followup"

\* Timers and unasked answers are about messages of their own room; a recall ends
\* the timer of the message it recalls.
CandidateInv ==
  \A r \in Rooms :
    /\ timer[r] # "none" => /\ candidate[r] \in Messages \ recalled
                            /\ room[candidate[r]] = r
    /\ reply[r] # Nobody => room[reply[r]] = r

\* As long as the revision is the one the evaluation read, the message it is about
\* is the last one.
FreshInv ==
  \A r \in Rooms : ~changed[r] =>
    /\ Evaluating(r) => tail[r] = candidate[r]
    /\ reply[r] # Nobody => tail[r] = reply[r] /\ reply[r] \notin recalled

\* The task that drains a room has a request unless it is looking for the next one.
CurrentInv == \A r \in Rooms : drain[r] \notin {"none", "next"} => current[r] \in Messages

\* No request is left without the task that drains its room.
DrainInv ==
  \A r \in Rooms : /\ queue[r] # <<>> => drain[r] # "none"
                   /\ current[r] # Nobody => drain[r] \notin {"none", "next"}

\* A lock that is taken has an owner who will give it back.
OwnerInv ==
  \A r \in Rooms :
    /\ lock[r] = "request" => drain[r] \in {"slot", "history", "media", "running"}
    /\ lock[r] = "timer" => Evaluating(r) \/ reply[r] # Nobody
    /\ lock[r] = "followup" => followup[r] # "none"

\* The account is exact and within its bound.
PendingInv == PendingExact /\ pending <= MaxPending

IInv == /\ TypesFit /\ PendingInv /\ CurrentInv /\ DrainInv
        /\ LockInv /\ OwnerInv /\ CandidateInv /\ FreshInv

-----------------------------------------------------------------------------
\* Every step keeps the variables in their types.
LEMMA TypeStep == TypesFit /\ CurrentInv /\ [Next]_vars => TypesFit'
<1> SUFFICES ASSUME TypesFit, CurrentInv, [Next]_vars PROVE TypesFit'
  OBVIOUS
<1> USE DEF TypesFit, vars, requestVars, timerVars, runVars, roomVars, Put
<1>1. CASE UNCHANGED vars
  BY <1>1
<1>2. CASE Close
  BY <1>2 DEF Close
<1>3. ASSUME NEW r \in Rooms, Receive(r) PROVE TypesFit'
  <2> USE DEF Heard, CancelTimer
  <2>1. ASSUME NEW m \in Messages, Overhear(r, m) PROVE TypesFit'
    BY <2>1 DEF Overhear
  <2>2. ASSUME NEW m \in Messages, Chat(r, m) PROVE TypesFit'
    BY <2>2 DEF Chat
  <2>3. ASSUME NEW m \in Messages, Control(r, m) PROVE TypesFit'
    BY <2>3 DEF Control
  <2>4. ASSUME NEW m \in Messages, Recall(r, m) PROVE TypesFit'
    BY <2>4 DEF Recall
  <2>5. ASSUME NEW m \in Messages, NEW k \in {"request", "command", "reply"}, Address(r, m, k)
        PROVE TypesFit'
    <3>1. CASE UNCHANGED requestVars
      BY <2>5, <3>1 DEF Address
    <3>2. CASE Enqueue(r, m, k)
      <4>1. /\ serial' \in Nat /\ order' \in [Messages -> 0..serial']
            /\ kind' \in [Messages -> {"none", "request", "command", "reply"}]
        BY <3>2 DEF Enqueue
      <4>2. latest' \in [Rooms -> 0..serial'] /\ invitation' \in [Rooms -> 0..serial']
        <5>1. /\ serial' = serial + 1 /\ serial + 1 \in 0..serial' /\ 0 \in 0..serial'
              /\ 0..serial \subseteq 0..serial'
          BY <3>2 DEF Enqueue
        <5>2. CASE k = "reply"
          BY <3>2, <5>1, <5>2 DEF Enqueue
        <5>3. CASE k # "reply"
          <6>1. latest \in [Rooms -> 0..serial] /\ invitation \in [Rooms -> 0..serial] OBVIOUS
          <6>2. /\ latest' \in [Rooms -> 0..serial'] /\ latest' = Put(latest, r, serial + 1)
                /\ invitation' \in {invitation, Put(invitation, r, 0), Put(invitation, r, serial + 1)}
            BY <3>2, <5>1, <5>3, <6>1 DEF Enqueue
          <6> QED BY <5>1, <6>1, <6>2
        <5> QED BY <5>2, <5>3
      <4>3. /\ queue' \in [Rooms -> Seq(Messages)] /\ UNCHANGED current
            /\ drain' \in [Rooms -> {"none", "next", "lock", "slot", "history", "media", "running"}]
        BY <3>2 DEF Enqueue
      <4> QED BY <2>5, <4>1, <4>2, <4>3 DEF Address
    <3> QED BY <2>5, <3>1, <3>2 DEF Address
  <2>6. CASE OwnMessage(r)
    BY <2>6 DEF OwnMessage
  <2> QED BY <1>3, <2>1, <2>2, <2>3, <2>4, <2>5, <2>6 DEF Receive
<1>4. ASSUME NEW r \in Rooms, RequestStep(r) PROVE TypesFit'
  <2>1. CASE Pop(r)
    <3>1. queue[r] \in Seq(Messages) /\ queue[r] # <<>>
      BY <2>1 DEF Pop
    <3>2. Head(queue[r]) \in Messages /\ Tail(queue[r]) \in Seq(Messages)
      BY <3>1, HeadTailProperties
    <3> DEFINE m == Head(queue[r])
    <3>3. CASE Dismiss(r, m)
      BY <2>1, <3>2, <3>3 DEF Pop, Dismiss
    <3>4. CASE /\ drain' = Put(drain, r, "lock") /\ current' = Put(current, r, m)
               /\ UNCHANGED <<kind, order, serial, latest, invitation>>
      BY <2>1, <3>2, <3>4 DEF Pop
    <3> QED BY <2>1, <3>3, <3>4 DEF Pop
  <2>2. CASE Drained(r) \/ LockRoom(r) \/ TakeSlot(r)
    BY <2>2 DEF Drained, LockRoom, TakeSlot
  <2>3. ASSUME NEW slash \in BOOLEAN, Dispatch(r, slash) PROVE TypesFit'
    <3> DEFINE m == current[r]
    <3>a. drain[r] = "history"
      BY <2>3 DEF Dispatch
    <3>b. m \in Messages
      BY <3>a DEF CurrentInv
    <3>0. order[m] \in 0..serial /\ 0 \in 0..serial
      BY <3>b
    <3>1. CASE Dismiss(r, m) /\ lock' = Put(lock, r, "free")
      BY <2>3, <3>1 DEF Dispatch, Dismiss
    <3>2. CASE /\ drain' = Put(drain, r, "media")
               /\ UNCHANGED <<current, kind, order, serial, lock>>
               /\ latest' \in [Rooms -> 0..serial] /\ invitation' \in [Rooms -> 0..serial]
      BY <2>3, <3>2 DEF Dispatch
    <3>3. ~StillWanted(m) \/ /\ latest' \in {latest, Put(latest, r, order[m])}
                              /\ invitation' \in {invitation, Put(invitation, r, 0),
                                                  Put(invitation, r, order[m])}
      BY <2>3 DEF Dispatch
    <3>4. ~StillWanted(m) \/ /\ latest' \in [Rooms -> 0..serial]
                              /\ invitation' \in [Rooms -> 0..serial]
      <4>1. \A f \in [Rooms -> 0..serial], n \in 0..serial : Put(f, r, n) \in [Rooms -> 0..serial]
        OBVIOUS
      <4>2. latest \in [Rooms -> 0..serial] /\ invitation \in [Rooms -> 0..serial] OBVIOUS
      <4> HIDE DEF TypesFit, Put
      <4> QED BY <3>0, <3>3, <4>1, <4>2
    <3> QED BY <2>3, <3>1, <3>2, <3>4 DEF Dispatch
  <2>4. CASE HandOver(r)
    BY <2>4 DEF HandOver
  <2>5. CASE TurnEnds(r)
    BY <2>5 DEF TurnEnds
  <2>6. CASE TurnCancelled(r)
    BY <2>6 DEF TurnCancelled
  <2> QED BY <1>4, <2>1, <2>2, <2>3, <2>4, <2>5, <2>6 DEF RequestStep
<1>5. ASSUME NEW r \in Rooms, TimerStep(r) PROVE TypesFit'
  <2> USE DEF Silent
  <2>1. CASE WakeUp(r)
    BY <2>1 DEF WakeUp
  <2>2. CASE Evaluate(r)
    BY <2>2 DEF Evaluate
  <2>3. CASE Classify(r)
    BY <2>3 DEF Classify
  <2>4. CASE Decide(r)
    BY <2>4 DEF Decide
  <2>5. CASE StartAnswer(r)
    <3>1. /\ timer' = Put(timer, r, "none") /\ candidate' = Put(candidate, r, Nobody)
          /\ reply' \in {reply, Put(reply, r, candidate[r])}
          /\ begun' \in {begun, Put(begun, r, FALSE)} /\ lock' \in {lock, Put(lock, r, "free")}
          /\ UNCHANGED <<requestVars, roomVars, followup, closed>>
      BY <2>5 DEF StartAnswer
    <3>2. reply' \in [Rooms -> Messages \cup {Nobody}]
      <4>1. candidate[r] \in Messages \cup {Nobody} /\ reply \in [Rooms -> Messages \cup {Nobody}]
        OBVIOUS
      <4> HIDE DEF TypesFit
      <4> QED BY <3>1, <4>1
    <3>3. begun' \in [Rooms -> BOOLEAN]
      <4>1. begun \in [Rooms -> BOOLEAN]
        OBVIOUS
      <4> HIDE DEF TypesFit
      <4> QED BY <3>1, <4>1, Zenon
    <3>4. /\ timer' \in [Rooms -> {"none", "sleeping", "lock", "history", "deciding", "slot"}]
          /\ candidate' \in [Rooms -> Messages \cup {Nobody}]
          /\ lock' \in [Rooms -> {"free", "request", "timer", "followup"}]
      BY <3>1
    <3> QED BY <3>1, <3>2, <3>3, <3>4
  <2>6. CASE FirstSend(r)
    BY <2>6 DEF FirstSend
  <2>7. CASE AnswerEnds(r)
    BY <2>7 DEF AnswerEnds
  <2> QED BY <1>5, <2>1, <2>2, <2>3, <2>4, <2>5, <2>6, <2>7 DEF TimerStep
<1>6. ASSUME NEW r \in Rooms, FollowupStep(r) PROVE TypesFit'
  <2>1. CASE InvitationEnds(r)
    BY <2>1 DEF InvitationEnds
  <2>2. CASE FollowupLocks(r)
    BY <2>2 DEF FollowupLocks
  <2>3. CASE FollowupDecided(r)
    BY <2>3 DEF FollowupDecided
  <2>4. CASE FollowupRuns(r)
    BY <2>4 DEF FollowupRuns
  <2>5. CASE FollowupEnds(r)
    BY <2>5 DEF FollowupEnds
  <2> QED BY <1>6, <2>1, <2>2, <2>3, <2>4, <2>5 DEF FollowupStep
<1> QED BY <1>1, <1>2, <1>3, <1>4, <1>5, <1>6 DEF Next

\* When the queue of one room changes, the account changes by the difference.
LEMMA AccountStep ==
  ASSUME TypesFit, PendingExact, NEW r \in Rooms, NEW s \in Seq(Messages),
         queue' = Put(queue, r, s), pending' + Len(queue[r]) = pending + Len(s), pending' \in Int
  PROVE  PendingExact' /\ Len(queue[r]) <= pending /\ pending \in Nat
<1>1. PICK f : f = [q \in Rooms |-> Len(queue[q])] OBVIOUS
<1>2. PICK g : g = [q \in Rooms |-> Len(queue'[q])] OBVIOUS
<1>3. queue \in [Rooms -> Seq(Messages)] /\ IsFiniteSet(Rooms)
  BY GroupChatAssumption DEF TypesFit
<1>4. \A q \in Rooms : queue'[q] = IF q = r THEN s ELSE queue[q] BY <1>3 DEF Put
<1>5. \A q \in Rooms : f[q] \in Nat /\ g[q] \in Nat
  <2> TAKE q \in Rooms
  <2>1. queue[q] \in Seq(Messages) /\ queue'[q] \in Seq(Messages) BY <1>3, <1>4
  <2> QED BY <1>1, <1>2, <2>1
<1>6. \A q \in Rooms \ {r} : f[q] = g[q] BY <1>1, <1>2, <1>4
<1>7. SumFunctionOnSet(g, Rooms) + f[r] = SumFunctionOnSet(f, Rooms) + g[r]
  <2>1. IsFiniteSet(Rooms) BY <1>3
  <2> QED BY ONLY <2>1, <1>5, <1>6, SumUpdate, r \in Rooms
<1>8. f[r] = Len(queue[r]) /\ g[r] = Len(s) BY <1>1, <1>2, <1>4
<1>9. /\ SumFunctionOnSet(g, Rooms) \in Nat /\ SumFunctionOnSet(f, Rooms) \in Nat
      /\ f[r] <= SumFunctionOnSet(f, Rooms)
  BY <1>3, <1>5, SumType, SumBounds
<1>10. pending = SumFunctionOnSet(f, Rooms) BY <1>1 DEF PendingExact
<1>11. pending' = SumFunctionOnSet(g, Rooms) BY <1>5, <1>7, <1>8, <1>9, <1>10
<1>12. PendingExact' BY <1>2, <1>11 DEF PendingExact
<1> QED BY <1>8, <1>9, <1>10, <1>12

\* The account follows every change of the queues: an arrival, the drain, its
\* cancellation and close().
LEMMA PendingStep == TypesFit /\ PendingInv /\ [Next]_vars => PendingInv'
<1> SUFFICES ASSUME TypesFit, PendingInv, [Next]_vars PROVE PendingInv'
  OBVIOUS
<1>0. PendingExact /\ pending <= MaxPending /\ MaxPending \in Nat /\ IsFiniteSet(Rooms)
  BY GroupChatAssumption DEF PendingInv
<1>q. queue \in [Rooms -> Seq(Messages)] BY DEF TypesFit
<1>n. pending \in Nat
  <2>1. PICK f : f = [r \in Rooms |-> Len(queue[r])] OBVIOUS
  <2>2. \A r \in Rooms : f[r] \in Nat BY <1>q, <2>1
  <2> QED BY <1>0, <2>1, <2>2, SumType DEF PendingExact
<1>1. CASE UNCHANGED <<queue, pending>>
  BY <1>0, <1>1 DEF PendingInv, PendingExact
<1>2. CASE Close
  <2>1. PICK g : g = [r \in Rooms |-> Len(queue'[r])] OBVIOUS
  <2>2. \A r \in Rooms : g[r] = 0 BY <1>2, <2>1 DEF Close
  <2>3. SumFunctionOnSet(g, Rooms) = 0 BY <1>0, <2>2, SumZero
  <2>4. pending' = 0 BY <1>2 DEF Close
  <2> QED BY <1>0, <2>1, <2>3, <2>4 DEF PendingInv, PendingExact
<1>3. ASSUME NEW r \in Rooms, NEW m \in Messages, NEW k \in {"request", "command", "reply"},
             Address(r, m, k)
      PROVE  PendingInv'
  <2>1. CASE UNCHANGED requestVars BY <1>1, <2>1 DEF requestVars
  <2>2. CASE pending < MaxPending /\ Enqueue(r, m, k)
    <3>1. queue' = Put(queue, r, Append(queue[r], m)) /\ pending' = pending + 1
      BY <2>2 DEF Enqueue
    <3>2. /\ queue[r] \in Seq(Messages) /\ Append(queue[r], m) \in Seq(Messages)
          /\ Len(Append(queue[r], m)) = Len(queue[r]) + 1 /\ Len(queue[r]) \in Nat
      BY <1>q
    <3>3. PICK s : s = Append(queue[r], m) OBVIOUS
    <3>4. /\ s \in Seq(Messages) /\ queue' = Put(queue, r, s) /\ pending' \in Int
          /\ pending' + Len(queue[r]) = pending + Len(s)
      <4>1. s \in Seq(Messages) /\ queue' = Put(queue, r, s) /\ Len(s) = Len(queue[r]) + 1
        BY <3>1, <3>2, <3>3, Zenon
      <4>2. PICK n \in Nat : n = Len(queue[r]) BY <3>2
      <4>3. pending' = pending + 1 BY <3>1
      <4>4. PICK l : l = Len(s) OBVIOUS
      <4>5. l = n + 1 BY <4>1, <4>2, <4>4
      <4>6. pending' \in Int /\ pending' + n = pending + l BY <1>n, <4>3, <4>5
      <4> QED BY <4>1, <4>2, <4>4, <4>6
    <3>5. PendingExact' BY <1>0, <3>4, AccountStep
    <3> QED BY <1>0, <1>n, <2>2, <3>1, <3>5 DEF PendingInv
  <2> QED BY <1>3, <2>1, <2>2 DEF Address
<1>4. ASSUME NEW r \in Rooms, Pop(r) PROVE PendingInv'
  <2>1. /\ queue' = Put(queue, r, Tail(queue[r])) /\ pending' = pending - 1
        /\ queue[r] # <<>> /\ queue[r] \in Seq(Messages)
    BY <1>q, <1>4 DEF Pop
  <2>2. /\ Tail(queue[r]) \in Seq(Messages) /\ Len(queue[r]) \in Nat
        /\ Len(Tail(queue[r])) = Len(queue[r]) - 1
    BY <2>1, HeadTailProperties
  <2>3. PICK s : s = Tail(queue[r]) OBVIOUS
  <2>4. /\ s \in Seq(Messages) /\ queue' = Put(queue, r, s) /\ pending' \in Int
        /\ pending' + Len(queue[r]) = pending + Len(s)
    BY <1>n, <2>1, <2>2, <2>3
  <2>5. PendingExact' BY <1>0, <2>4, AccountStep
  <2> QED BY <1>0, <1>n, <2>1, <2>5 DEF PendingInv
<1>5. ASSUME NEW r \in Rooms, TurnCancelled(r) PROVE PendingInv'
  <2>1. /\ queue' = Put(queue, r, <<>>) /\ pending' = pending - Len(queue[r])
        /\ queue[r] \in Seq(Messages) /\ Len(queue[r]) \in Nat
    BY <1>q, <1>5 DEF TurnCancelled
  <2>2. <<>> \in Seq(Messages) /\ Len(<<>>) = 0 OBVIOUS
  <2>3. /\ pending' \in Int
        /\ pending' + Len(queue[r]) = pending + Len(<<>>)
    BY <1>n, <2>1, <2>2
  <2>4. PendingExact' BY <1>0, <2>1, <2>2, <2>3, AccountStep
  <2> QED BY <1>0, <1>n, <2>1, <2>4 DEF PendingInv
<1>6. ASSUME NEW r \in Rooms, NEW m \in Messages,
             Overhear(r, m) \/ Chat(r, m) \/ Control(r, m) \/ Recall(r, m) \/ OwnMessage(r)
      PROVE  UNCHANGED <<queue, pending>>
  BY <1>6 DEF Overhear, Chat, Control, Recall, OwnMessage, requestVars
<1>7. ASSUME NEW r \in Rooms, OwnMessage(r) PROVE UNCHANGED <<queue, pending>>
  BY <1>7 DEF OwnMessage, requestVars
<1>8. ASSUME NEW r \in Rooms, Drained(r) \/ LockRoom(r) \/ TakeSlot(r) \/ HandOver(r) \/ TurnEnds(r)
      PROVE  UNCHANGED <<queue, pending>>
  BY <1>8 DEF Drained, LockRoom, TakeSlot, HandOver, TurnEnds
<1>9. ASSUME NEW r \in Rooms, NEW slash \in BOOLEAN, Dispatch(r, slash)
      PROVE  UNCHANGED <<queue, pending>>
  BY <1>9 DEF Dispatch
<1>10. ASSUME NEW r \in Rooms, TimerStep(r) \/ FollowupStep(r) PROVE UNCHANGED <<queue, pending>>
  BY <1>10 DEF TimerStep, WakeUp, Evaluate, Classify, Decide, StartAnswer, FirstSend, AnswerEnds,
     FollowupStep, InvitationEnds, FollowupLocks, FollowupDecided, FollowupRuns, FollowupEnds, requestVars
<1>11. CASE UNCHANGED vars BY <1>1, <1>11 DEF vars, requestVars
<1> QED BY <1>1, <1>2, <1>3, <1>4, <1>5, <1>6, <1>7, <1>8, <1>9, <1>10, <1>11
        DEF Next, Receive, RequestStep

\* The task that drains a room takes its request along.
LEMMA CurrentStep == TypesFit /\ CurrentInv /\ [Next]_vars => CurrentInv'
<1> SUFFICES ASSUME TypesFit, CurrentInv, [Next]_vars PROVE CurrentInv'
  OBVIOUS
<1> USE DEF CurrentInv, Put
<1>t. /\ drain \in [Rooms -> {"none", "next", "lock", "slot", "history", "media", "running"}]
      /\ current \in [Rooms -> Messages \cup {Nobody}]
      /\ queue \in [Rooms -> Seq(Messages)]
  BY DEF TypesFit
<1>1. CASE UNCHANGED <<drain, current>>
  BY <1>1
<1>2. CASE Close
  BY <1>2 DEF Close
<1>3. ASSUME NEW r \in Rooms, Receive(r) PROVE CurrentInv'
  <2>1. ASSUME NEW m \in Messages, NEW k \in {"request", "command", "reply"}, Address(r, m, k)
        PROVE UNCHANGED current /\ drain' \in {drain, Put(drain, r, "next")}
    BY <2>1 DEF Address, Enqueue, requestVars
  <2>2. ASSUME NEW m \in Messages, Overhear(r, m) \/ Chat(r, m) \/ Control(r, m) \/ Recall(r, m)
        PROVE UNCHANGED <<drain, current>>
    BY <2>2 DEF Overhear, Chat, Control, Recall, requestVars
  <2>3. OwnMessage(r) => UNCHANGED <<drain, current>>
    BY DEF OwnMessage, requestVars
  <2>4. UNCHANGED current /\ drain' \in {drain, Put(drain, r, "next")}
    BY <1>3, <2>1, <2>2, <2>3 DEF Receive
  <2> QED BY <1>t, <2>4
<1>4. ASSUME NEW r \in Rooms, RequestStep(r) PROVE CurrentInv'
  <2>1. CASE Pop(r)
    <3>1. queue[r] # <<>> => Head(queue[r]) \in Messages
      BY <1>t, HeadTailProperties
    <3> QED BY <1>t, <2>1, <3>1 DEF Pop, Dismiss
  <2>2. CASE Drained(r) \/ LockRoom(r) \/ TakeSlot(r)
    BY <1>t, <2>2 DEF Drained, LockRoom, TakeSlot
  <2>3. ASSUME NEW slash \in BOOLEAN, Dispatch(r, slash) PROVE CurrentInv'
    BY <1>t, <2>3 DEF Dispatch, Dismiss
  <2>4. CASE HandOver(r) \/ TurnEnds(r) \/ TurnCancelled(r)
    BY <1>t, <2>4 DEF HandOver, TurnEnds, TurnCancelled
  <2> QED BY <1>4, <2>1, <2>2, <2>3, <2>4 DEF RequestStep
<1>5. ASSUME NEW r \in Rooms, TimerStep(r) \/ FollowupStep(r) PROVE UNCHANGED <<drain, current>>
  BY <1>5 DEF TimerStep, WakeUp, Evaluate, Classify, Decide, StartAnswer, FirstSend, AnswerEnds,
     FollowupStep, InvitationEnds, FollowupLocks, FollowupDecided, FollowupRuns, FollowupEnds, requestVars
<1>6. CASE UNCHANGED vars
  BY <1>6 DEF vars, requestVars
<1> QED BY <1>1, <1>2, <1>3, <1>4, <1>5, <1>6 DEF Next

\* A request is queued only if a task drains its room, and the task ends only when
\* nothing is queued; it keeps no request when it looks for the next one.
LEMMA DrainStep == TypesFit /\ DrainInv /\ [Next]_vars => DrainInv'
<1> SUFFICES ASSUME TypesFit, DrainInv, [Next]_vars PROVE DrainInv'
  OBVIOUS
<1> USE DEF DrainInv, Put
<1>t. /\ drain \in [Rooms -> {"none", "next", "lock", "slot", "history", "media", "running"}]
      /\ current \in [Rooms -> Messages \cup {Nobody}]
      /\ queue \in [Rooms -> Seq(Messages)]
  BY DEF TypesFit
<1>1. CASE UNCHANGED <<queue, drain, current>>
  BY <1>1
<1>2. CASE Close
  BY <1>2 DEF Close
<1>3. ASSUME NEW r \in Rooms, NEW m \in Messages, NEW k \in {"request", "command", "reply"},
             Address(r, m, k)
      PROVE  DrainInv'
  <2>1. CASE UNCHANGED requestVars
    BY <1>1, <2>1 DEF requestVars
  <2>2. CASE Enqueue(r, m, k)
    <3>1. PICK s : queue' = Put(queue, r, s)
      BY <2>2 DEF Enqueue
    <3>2. drain'[r] # "none" /\ UNCHANGED current /\ drain' \in {drain, Put(drain, r, "next")}
          /\ (drain' # drain => drain[r] = "none")
      BY <1>t, <2>2 DEF Enqueue
    <3> QED BY <1>t, <3>1, <3>2
  <2> QED BY <1>3, <2>1, <2>2 DEF Address
<1>4. ASSUME NEW r \in Rooms, NEW m \in Messages,
             Overhear(r, m) \/ Chat(r, m) \/ Control(r, m) \/ Recall(r, m)
      PROVE  UNCHANGED <<queue, drain, current>>
  BY <1>4 DEF Overhear, Chat, Control, Recall, requestVars
<1>5. ASSUME NEW r \in Rooms, OwnMessage(r) PROVE UNCHANGED <<queue, drain, current>>
  BY <1>5 DEF OwnMessage, requestVars
<1>6. ASSUME NEW r \in Rooms, RequestStep(r) PROVE DrainInv'
  <2>1. CASE Pop(r)
    <3>1. PICK s : queue' = Put(queue, r, s)
      BY <2>1 DEF Pop
    <3>2. PICK m : \/ drain' = Put(drain, r, "next") /\ current' = Put(current, r, Nobody)
                   \/ drain' = Put(drain, r, "lock") /\ current' = Put(current, r, m)
      BY <2>1 DEF Pop, Dismiss
    <3> QED BY <1>t, <3>1, <3>2
  <2>2. CASE Drained(r)
    BY <1>t, <2>2 DEF Drained
  <2>3. CASE LockRoom(r) \/ TakeSlot(r)
    BY <1>t, <2>3 DEF LockRoom, TakeSlot
  <2>4. ASSUME NEW slash \in BOOLEAN, Dispatch(r, slash) PROVE DrainInv'
    BY <1>t, <2>4 DEF Dispatch, Dismiss
  <2>5. CASE HandOver(r) \/ TurnEnds(r)
    BY <1>t, <2>5 DEF HandOver, TurnEnds
  <2>6. CASE TurnCancelled(r)
    BY <1>t, <2>6 DEF TurnCancelled
  <2> QED BY <1>6, <2>1, <2>2, <2>3, <2>4, <2>5, <2>6 DEF RequestStep
<1>7. ASSUME NEW r \in Rooms, TimerStep(r) \/ FollowupStep(r)
      PROVE  UNCHANGED <<queue, drain, current>>
  BY <1>7 DEF TimerStep, WakeUp, Evaluate, Classify, Decide, StartAnswer, FirstSend, AnswerEnds,
     FollowupStep, InvitationEnds, FollowupLocks, FollowupDecided, FollowupRuns, FollowupEnds, requestVars
<1>8. CASE UNCHANGED vars
  BY <1>1, <1>8 DEF vars, requestVars
<1> QED BY <1>1, <1>2, <1>3, <1>4, <1>5, <1>6, <1>7, <1>8 DEF Next, Receive

\* The functions that the remaining lemmas update.
LEMMA Shapes ==
  TypesFit => /\ drain \in [Rooms -> {"none", "next", "lock", "slot", "history", "media", "running"}]
              /\ timer \in [Rooms -> {"none", "sleeping", "lock", "history", "deciding", "slot"}]
              /\ candidate \in [Rooms -> Messages \cup {Nobody}]
              /\ reply \in [Rooms -> Messages \cup {Nobody}] /\ begun \in [Rooms -> BOOLEAN]
              /\ changed \in [Rooms -> BOOLEAN] /\ tail \in [Rooms -> Messages \cup {Nobody}]
              /\ room \in [Messages -> Rooms \cup {Nobody}]
              /\ lock \in [Rooms -> {"free", "request", "timer", "followup"}]
              /\ followup \in [Rooms -> {"none", "assessing", "slot", "running"}]
  BY DEF TypesFit

\* The lock of a room passes from hand to hand: whoever takes it finds it free, and
\* whoever gives it up held it.
LEMMA LockStep == TypesFit /\ LockInv /\ [Next]_vars => LockInv'
<1> SUFFICES ASSUME TypesFit, LockInv, [Next]_vars PROVE LockInv'
  OBVIOUS
<1> USE Shapes DEF LockInv, Evaluating, Put
<1>1. CASE UNCHANGED vars
  BY <1>1 DEF vars, requestVars, timerVars, runVars
<1>2. CASE Close
  BY <1>2 DEF Close
<1>3. ASSUME NEW r \in Rooms, Receive(r) PROVE LockInv'
  <2> USE DEF Heard, CancelTimer, runVars
  <2>1. ASSUME NEW m \in Messages, Overhear(r, m) \/ Control(r, m) \/ Recall(r, m) PROVE LockInv'
    BY <2>1 DEF Overhear, Control, Recall, requestVars
  <2>2. ASSUME NEW m \in Messages, Chat(r, m) PROVE LockInv'
    BY <2>2 DEF Chat, requestVars
  <2>3. ASSUME NEW m \in Messages, NEW k \in {"request", "command", "reply"}, Address(r, m, k)
        PROVE LockInv'
    <3>1. drain' = drain \/ (drain[r] = "none" /\ drain' = Put(drain, r, "next"))
      BY <2>3 DEF Address, Enqueue, requestVars
    <3> QED BY <2>3, <3>1 DEF Address
  <2>4. CASE OwnMessage(r)
    BY <2>4 DEF OwnMessage, requestVars, timerVars
  <2> QED BY <1>3, <2>1, <2>2, <2>3, <2>4 DEF Receive
<1>4. ASSUME NEW r \in Rooms, RequestStep(r) PROVE LockInv'
  <2> USE DEF timerVars, runVars
  <2>1. CASE Pop(r)
    BY <2>1 DEF Pop, Dismiss
  <2>2. CASE Drained(r) \/ LockRoom(r) \/ TakeSlot(r)
    BY <2>2 DEF Drained, LockRoom, TakeSlot
  <2>3. ASSUME NEW slash \in BOOLEAN, Dispatch(r, slash) PROVE LockInv'
    BY <2>3 DEF Dispatch, Dismiss
  <2>4. CASE HandOver(r) \/ TurnEnds(r) \/ TurnCancelled(r)
    BY <2>4 DEF HandOver, TurnEnds, TurnCancelled
  <2> QED BY <1>4, <2>1, <2>2, <2>3, <2>4 DEF RequestStep
<1>5. ASSUME NEW r \in Rooms, TimerStep(r) PROVE LockInv'
  <2> USE DEF Silent, requestVars, timerVars, runVars
  <2>1. CASE WakeUp(r) \/ Evaluate(r)
    BY <2>1 DEF WakeUp, Evaluate
  <2>2. CASE Classify(r) \/ Decide(r)
    BY <2>2 DEF Classify, Decide, Fresh
  <2>3. CASE StartAnswer(r)
    BY <2>3 DEF StartAnswer, Fresh
  <2>4. CASE FirstSend(r) \/ AnswerEnds(r)
    BY <2>4 DEF FirstSend, AnswerEnds
  <2> QED BY <1>5, <2>1, <2>2, <2>3, <2>4 DEF TimerStep
<1>6. ASSUME NEW r \in Rooms, FollowupStep(r) PROVE LockInv'
  <2> USE DEF requestVars, timerVars, runVars
  <2>1. CASE InvitationEnds(r) \/ FollowupLocks(r)
    BY <2>1 DEF InvitationEnds, FollowupLocks
  <2>2. CASE FollowupDecided(r) \/ FollowupRuns(r) \/ FollowupEnds(r)
    BY <2>2 DEF FollowupDecided, FollowupRuns, FollowupEnds
  <2> QED BY <1>6, <2>1, <2>2 DEF FollowupStep
<1> QED BY <1>1, <1>2, <1>3, <1>4, <1>5, <1>6 DEF Next

\* A message belongs to the room it was received in for ever, and only a recall in
\* that room recalls it.
LEMMA CandidateStep == TypesFit /\ CandidateInv /\ [Next]_vars => CandidateInv'
<1> SUFFICES ASSUME TypesFit, CandidateInv, [Next]_vars PROVE CandidateInv'
  OBVIOUS
<1> USE Shapes, GroupChatAssumption DEF CandidateInv, Put
<1>1. CASE UNCHANGED vars
  BY <1>1 DEF vars, timerVars, runVars, roomVars
<1>2. CASE Close
  BY <1>2 DEF Close, roomVars
<1>3. ASSUME NEW r \in Rooms, Receive(r) PROVE CandidateInv'
  <2> USE DEF CancelTimer
  <2>1. ASSUME NEW m \in Messages, Heard(r, m), CancelTimer(r) PROVE CandidateInv'
    BY <2>1 DEF Heard, runVars
  <2>2. ASSUME NEW m \in Messages, Chat(r, m) PROVE CandidateInv'
    BY <2>2 DEF Chat, Heard, runVars
  <2>3. ASSUME NEW m \in Messages, Recall(r, m) PROVE CandidateInv'
    BY <2>3 DEF Recall, runVars
  <2>4. CASE OwnMessage(r)
    BY <2>4 DEF OwnMessage, timerVars, runVars
  <2> QED BY <1>3, <2>1, <2>2, <2>3, <2>4 DEF Receive, Overhear, Control, Address
<1>4. ASSUME NEW r \in Rooms, RequestStep(r) PROVE UNCHANGED <<timerVars, runVars, roomVars>>
  BY <1>4 DEF RequestStep, Pop, Drained, LockRoom, TakeSlot, Dispatch, HandOver, TurnEnds, TurnCancelled
<1>5. ASSUME NEW r \in Rooms, FollowupStep(r) PROVE UNCHANGED <<timerVars, runVars, roomVars>>
  BY <1>5 DEF FollowupStep, InvitationEnds, FollowupLocks, FollowupDecided, FollowupRuns, FollowupEnds
<1>6. ASSUME NEW r \in Rooms, TimerStep(r) PROVE CandidateInv'
  <2> USE DEF Silent, timerVars, runVars, roomVars
  <2>1. CASE WakeUp(r) \/ Evaluate(r)
    BY <2>1 DEF WakeUp, Evaluate
  <2>2. CASE Classify(r) \/ Decide(r)
    BY <2>2 DEF Classify, Decide, Fresh
  <2>3. CASE StartAnswer(r)
    BY <2>3 DEF StartAnswer, Fresh
  <2>4. CASE FirstSend(r) \/ AnswerEnds(r)
    BY <2>4 DEF FirstSend, AnswerEnds
  <2> QED BY <1>6, <2>1, <2>2, <2>3, <2>4 DEF TimerStep
<1>7. UNCHANGED <<timerVars, runVars, roomVars>> => CandidateInv'
  BY DEF timerVars, runVars, roomVars
<1> QED BY <1>1, <1>2, <1>3, <1>4, <1>5, <1>6, <1>7 DEF Next

\* Whatever ends the owner of a lock gives the lock back, a cancellation too.
LEMMA OwnerStep == TypesFit /\ OwnerInv /\ CandidateInv /\ [Next]_vars => OwnerInv'
<1> SUFFICES ASSUME TypesFit, OwnerInv, CandidateInv, [Next]_vars PROVE OwnerInv'
  OBVIOUS
<1> USE Shapes DEF OwnerInv, Evaluating, Put
<1>1. CASE UNCHANGED vars
  BY <1>1 DEF vars, requestVars, timerVars, runVars
<1>2. CASE Close
  BY <1>2 DEF Close
<1>3. ASSUME NEW r \in Rooms, Receive(r) PROVE OwnerInv'
  <2> USE DEF Heard, CancelTimer, runVars
  <2>1. ASSUME NEW m \in Messages, Overhear(r, m) \/ Control(r, m) \/ Recall(r, m) PROVE OwnerInv'
    BY <2>1 DEF Overhear, Control, Recall, requestVars
  <2>2. ASSUME NEW m \in Messages, Chat(r, m) PROVE OwnerInv'
    BY <2>2 DEF Chat, requestVars
  <2>3. ASSUME NEW m \in Messages, NEW k \in {"request", "command", "reply"}, Address(r, m, k)
        PROVE OwnerInv'
    <3>1. drain' = drain \/ (drain[r] = "none" /\ drain' = Put(drain, r, "next"))
      BY <2>3 DEF Address, Enqueue, requestVars
    <3> QED BY <2>3, <3>1 DEF Address
  <2>4. CASE OwnMessage(r)
    BY <2>4 DEF OwnMessage, requestVars, timerVars
  <2> QED BY <1>3, <2>1, <2>2, <2>3, <2>4 DEF Receive
<1>4. ASSUME NEW r \in Rooms, RequestStep(r) PROVE OwnerInv'
  <2> USE DEF timerVars, runVars
  <2>1. CASE Pop(r)
    BY <2>1 DEF Pop, Dismiss
  <2>2. CASE Drained(r) \/ LockRoom(r) \/ TakeSlot(r)
    BY <2>2 DEF Drained, LockRoom, TakeSlot
  <2>3. ASSUME NEW slash \in BOOLEAN, Dispatch(r, slash) PROVE OwnerInv'
    BY <2>3 DEF Dispatch, Dismiss
  <2>4. CASE HandOver(r) \/ TurnEnds(r) \/ TurnCancelled(r)
    BY <2>4 DEF HandOver, TurnEnds, TurnCancelled
  <2> QED BY <1>4, <2>1, <2>2, <2>3, <2>4 DEF RequestStep
<1>5. ASSUME NEW r \in Rooms, TimerStep(r) PROVE OwnerInv'
  <2> USE DEF Silent, requestVars, timerVars, runVars
  <2>1. CASE WakeUp(r) \/ Evaluate(r)
    BY <2>1 DEF WakeUp, Evaluate
  <2>2. CASE Classify(r) \/ Decide(r)
    BY <2>2 DEF Classify, Decide, Fresh
  <2>3. CASE StartAnswer(r)
    BY <2>3, GroupChatAssumption DEF StartAnswer, Fresh, CandidateInv
  <2>4. CASE FirstSend(r) \/ AnswerEnds(r)
    BY <2>4 DEF FirstSend, AnswerEnds
  <2> QED BY <1>5, <2>1, <2>2, <2>3, <2>4 DEF TimerStep
<1>6. ASSUME NEW r \in Rooms, FollowupStep(r) PROVE OwnerInv'
  <2> USE DEF requestVars, timerVars, runVars
  <2>1. CASE InvitationEnds(r) \/ FollowupLocks(r)
    BY <2>1 DEF InvitationEnds, FollowupLocks
  <2>2. CASE FollowupDecided(r) \/ FollowupRuns(r) \/ FollowupEnds(r)
    BY <2>2 DEF FollowupDecided, FollowupRuns, FollowupEnds
  <2> QED BY <1>6, <2>1, <2>2 DEF FollowupStep
<1> QED BY <1>1, <1>2, <1>3, <1>4, <1>5, <1>6 DEF Next

\* Whatever becomes the last message of a room changes its revision, and so does a
\* recall; an evaluation starts over only when no answer is under way.
LEMMA FreshStep ==
  TypesFit /\ LockInv /\ CandidateInv /\ FreshInv /\ [Next]_vars => FreshInv'
<1> SUFFICES ASSUME TypesFit, LockInv, CandidateInv, FreshInv, [Next]_vars PROVE FreshInv'
  OBVIOUS
<1> USE Shapes, GroupChatAssumption DEF FreshInv, Evaluating, Put
<1>1. CASE UNCHANGED vars
  BY <1>1 DEF vars, timerVars, runVars, roomVars
<1>2. CASE Close
  BY <1>2 DEF Close, roomVars
<1>3. ASSUME NEW r \in Rooms, Receive(r) PROVE FreshInv'
  <2> USE DEF CancelTimer
  <2>1. ASSUME NEW m \in Messages, Heard(r, m), CancelTimer(r) PROVE FreshInv'
    BY <2>1 DEF Heard, runVars
  <2>2. ASSUME NEW m \in Messages, Chat(r, m) PROVE FreshInv'
    BY <2>2 DEF Chat, Heard, runVars
  <2>3. ASSUME NEW m \in Messages, Recall(r, m) PROVE FreshInv'
    BY <2>3 DEF Recall, runVars, CandidateInv
  <2>4. CASE OwnMessage(r)
    BY <2>4 DEF OwnMessage, timerVars, runVars
  <2> QED BY <1>3, <2>1, <2>2, <2>3, <2>4 DEF Receive, Overhear, Control, Address
<1>4. ASSUME NEW r \in Rooms, RequestStep(r) PROVE UNCHANGED <<timerVars, runVars, roomVars>>
  BY <1>4 DEF RequestStep, Pop, Drained, LockRoom, TakeSlot, Dispatch, HandOver, TurnEnds, TurnCancelled
<1>5. ASSUME NEW r \in Rooms, FollowupStep(r) PROVE UNCHANGED <<timerVars, runVars, roomVars>>
  BY <1>5 DEF FollowupStep, InvitationEnds, FollowupLocks, FollowupDecided, FollowupRuns, FollowupEnds
<1>6. ASSUME NEW r \in Rooms, TimerStep(r) PROVE FreshInv'
  <2> USE DEF Silent, timerVars, runVars, roomVars
  <2>1. CASE WakeUp(r)
    BY <2>1 DEF WakeUp
  <2>2. CASE Evaluate(r)
    <3>1. reply[r] = Nobody
      BY <2>2 DEF Evaluate, LockInv
    <3> QED BY <2>2, <3>1 DEF Evaluate
  <2>3. CASE Classify(r) \/ Decide(r)
    BY <2>3 DEF Classify, Decide, Fresh
  <2>4. CASE StartAnswer(r)
    BY <2>4 DEF StartAnswer, Fresh
  <2>5. CASE FirstSend(r) \/ AnswerEnds(r)
    BY <2>5 DEF FirstSend, AnswerEnds
  <2> QED BY <1>6, <2>1, <2>2, <2>3, <2>4, <2>5 DEF TimerStep
<1>7. UNCHANGED <<timerVars, runVars, roomVars>> => FreshInv'
  BY DEF timerVars, runVars, roomVars
<1> QED BY <1>1, <1>2, <1>3, <1>4, <1>5, <1>6, <1>7 DEF Next

-----------------------------------------------------------------------------
LEMMA Inductive == Spec => []IInv
<1>1. Init => IInv
  <2> SUFFICES ASSUME Init PROVE IInv
    OBVIOUS
  <2>1. TypesFit
    <3>1. /\ serial \in Nat /\ order \in [Messages -> 0..serial]
          /\ latest \in [Rooms -> 0..serial] /\ invitation \in [Rooms -> 0..serial]
      BY DEF Init
    <3>2. /\ queue \in [Rooms -> Seq(Messages)] /\ current \in [Rooms -> Messages \cup {Nobody}]
          /\ drain \in [Rooms -> {"none", "next", "lock", "slot", "history", "media", "running"}]
          /\ kind \in [Messages -> {"none", "request", "command", "reply"}]
      BY DEF Init
    <3>3. begun \in [Rooms -> BOOLEAN] /\ changed \in [Rooms -> BOOLEAN] /\ closed \in BOOLEAN
      BY DEF Init
    <3>4. /\ timer \in [Rooms -> {"none", "sleeping", "lock", "history", "deciding", "slot"}]
          /\ candidate \in [Rooms -> Messages \cup {Nobody}]
          /\ reply \in [Rooms -> Messages \cup {Nobody}] /\ tail \in [Rooms -> Messages \cup {Nobody}]
          /\ room \in [Messages -> Rooms \cup {Nobody}] /\ recalled \subseteq Messages
          /\ lock \in [Rooms -> {"free", "request", "timer", "followup"}]
          /\ followup \in [Rooms -> {"none", "assessing", "slot", "running"}]
      BY DEF Init
    <3> QED BY <3>1, <3>2, <3>3, <3>4 DEF TypesFit
  <2>2. CurrentInv /\ DrainInv /\ LockInv /\ OwnerInv /\ CandidateInv /\ FreshInv
    BY DEF Init, CurrentInv, DrainInv, LockInv, OwnerInv, CandidateInv, FreshInv, Evaluating
  <2>3. PendingInv
    <3>1. PICK f : f = [r \in Rooms |-> Len(queue[r])] OBVIOUS
    <3>2. \A r \in Rooms : f[r] = 0 BY <3>1 DEF Init
    <3>3. SumFunctionOnSet(f, Rooms) = 0 BY <3>2, SumZero, GroupChatAssumption
    <3>4. pending = 0 /\ 0 <= MaxPending BY GroupChatAssumption DEF Init
    <3> QED BY <3>1, <3>3, <3>4 DEF PendingInv, PendingExact
  <2> QED BY <2>1, <2>2, <2>3 DEF IInv
<1>2. IInv /\ [Next]_vars => IInv'
  BY TypeStep, PendingStep, CurrentStep, DrainStep, LockStep, OwnerStep, CandidateStep, FreshStep DEF IInv
<1> QED BY <1>1, <1>2, PTL DEF Spec

\* The variables keep their types, and the account of the queues of all rooms
\* (self._pending, group_chat.py) is exact and within its bound, for any rooms,
\* messages and bounds.
THEOREM TypesCorrect == Spec => []TypeOK
<1>1. IInv => TypeOK
  BY DEF IInv, PendingInv, TypeOK
<1> QED BY <1>1, Inductive, PTL

\* At most one answer is under way in a room: its request's, an unasked one or the
\* invited conversation's (self._turn_locks).
OneAnswerPerRoom ==
  \A r \in Rooms :
    /\ drain[r] = "running" => reply[r] = Nobody /\ followup[r] # "running"
    /\ reply[r] # Nobody => followup[r] # "running"

\* The answers of a room exclude one another.
THEOREM Exclusive == Spec => []OneAnswerPerRoom
<1>1. IInv => OneAnswerPerRoom
  BY DEF IInv, LockInv, OneAnswerPerRoom
<1> QED BY <1>1, Inductive, PTL

\* When no slot is free, some answer holds one.
LEMMA SlotHeld == FreeSlot \/ \E q \in Rooms : Answering(q)
<1> SUFFICES ASSUME \A q \in Rooms : ~Answering(q) PROVE FreeSlot
  OBVIOUS
<1>1. /\ {r \in Rooms : drain[r] \in {"history", "media", "running"}} = {}
      /\ {r \in Rooms : followup[r] = "running"} = {}
      /\ {r \in Rooms : reply[r] # Nobody} = {}
  BY DEF Answering
<1>2. /\ Cardinality({r \in Rooms : drain[r] \in {"history", "media", "running"}}) = 0
      /\ Cardinality({r \in Rooms : followup[r] = "running"}) = 0
      /\ Cardinality({r \in Rooms : reply[r] # Nobody}) = 0
  BY <1>1, FS_EmptySet, Zenon
<1>3. 0 + 0 + 0 < Slots
  BY GroupChatAssumption
<1> QED BY <1>2, <1>3, Zenon DEF FreeSlot

\* Requests, unasked answers and invited conversations never wait for one another in
\* a circle, and no lock is lost (_turn_locks and _model_slots).
THEOREM NeverStuck == Spec => []NoCircle
<1>1. IInv => NoCircle
  <2> SUFFICES ASSUME IInv, NEW r \in Rooms, queue[r] # <<>> \/ current[r] # Nobody, ~GoesOn(r)
               PROVE  "slot" \in {drain[r], timer[r], followup[r]}
    BY SlotHeld DEF NoCircle
  <2>1. TypesFit /\ DrainInv /\ OwnerInv
    BY DEF IInv
  <2>2. drain[r] \in {"lock", "slot"}
    BY <2>1, Shapes DEF DrainInv, GoesOn, Answering
  <2>3. CASE drain[r] = "lock"
    <3>1. lock[r] \in {"timer", "followup"}
      BY <2>1, <2>3, Shapes DEF OwnerInv, GoesOn
    <3> QED BY <2>1, <3>1, Shapes DEF OwnerInv, Evaluating, GoesOn, Answering
  <2> QED BY <2>2, <2>3
<1> QED BY <1>1, Inductive, PTL

\* An unasked answer is started and first speaks only while it is still wanted.
LEMMA UnaskedStep == ASSUME IInv, Next, NEW s \in Rooms PROVE UnaskedIsFresh(s)
<1> USE Shapes, GroupChatAssumption DEF IInv, FreshInv, Evaluating, Put, UnaskedIsFresh
<1>1. CASE UNCHANGED runVars
  BY <1>1 DEF runVars
<1>2. ASSUME NEW r \in Rooms, StartAnswer(r) PROVE UnaskedIsFresh(s)
  <2>1. CASE UNCHANGED runVars
    BY <2>1 DEF runVars
  <2>2. CASE /\ reply' = Put(reply, r, candidate[r]) /\ begun' = Put(begun, r, FALSE)
             /\ Fresh(r)
    <3>1. ~begun'[s] \/ (s # r /\ begun'[s] = begun[s])
      BY <2>2
    <3>2. reply'[s] # reply[s] => s = r /\ reply'[s] = candidate[r]
      BY <2>2
    <3>3. candidate[r] = tail[r] /\ candidate[r] \notin recalled
      BY <1>2, <2>2 DEF StartAnswer, Fresh
    <3> QED BY <3>1, <3>2, <3>3
  <2> QED BY <1>2, <2>1, <2>2 DEF StartAnswer
<1>3. ASSUME NEW r \in Rooms, FirstSend(r) PROVE UnaskedIsFresh(s)
  BY <1>3 DEF FirstSend
<1>4. ASSUME NEW r \in Rooms, AnswerEnds(r) PROVE UnaskedIsFresh(s)
  BY <1>4 DEF AnswerEnds
<1>5. CASE Close
  BY <1>5 DEF Close
<1>6. ASSUME NEW r \in Rooms, Receive(r) PROVE UNCHANGED runVars
  BY <1>6 DEF Receive, Overhear, Chat, Control, Address, Heard, Recall, OwnMessage
<1>7. ASSUME NEW r \in Rooms, RequestStep(r) \/ FollowupStep(r) PROVE UNCHANGED runVars
  BY <1>7 DEF RequestStep, Pop, Drained, LockRoom, TakeSlot, Dispatch, HandOver, TurnEnds, TurnCancelled,
     FollowupStep, InvitationEnds, FollowupLocks, FollowupDecided, FollowupRuns, FollowupEnds
<1>8. ASSUME NEW r \in Rooms, WakeUp(r) \/ Evaluate(r) \/ Classify(r) \/ Decide(r)
      PROVE UNCHANGED runVars
  BY <1>8 DEF WakeUp, Evaluate, Classify, Decide
<1> QED BY <1>1, <1>2, <1>3, <1>4, <1>5, <1>6, <1>7, <1>8 DEF Next, TimerStep

\* Nothing that was recalled is handed to Hermes as a request.
LEMMA RequestedStep == ASSUME TypesFit, Next, NEW s \in Rooms PROVE RequestIsWanted(s)
<1> USE Shapes DEF Put, RequestIsWanted
<1>1. ASSUME NEW r \in Rooms, HandOver(r) PROVE RequestIsWanted(s)
  BY <1>1 DEF HandOver, StillWanted
<1>2. ASSUME NEW r \in Rooms, NEW m \in Messages, NEW k \in {"request", "command", "reply"},
             Address(r, m, k)
      PROVE RequestIsWanted(s)
  BY <1>2 DEF Address, Enqueue, requestVars
<1>3. ASSUME NEW r \in Rooms, NEW m \in Messages,
             Overhear(r, m) \/ Chat(r, m) \/ Control(r, m) \/ Recall(r, m) \/ OwnMessage(r)
      PROVE RequestIsWanted(s)
  BY <1>3 DEF Overhear, Chat, Control, Recall, OwnMessage, requestVars
<1>4. ASSUME NEW r \in Rooms, Pop(r) \/ Drained(r) \/ LockRoom(r) \/ TakeSlot(r) PROVE RequestIsWanted(s)
  BY <1>4 DEF Pop, Dismiss, Drained, LockRoom, TakeSlot
<1>5. ASSUME NEW r \in Rooms, NEW slash \in BOOLEAN, Dispatch(r, slash) PROVE RequestIsWanted(s)
  BY <1>5 DEF Dispatch, Dismiss
<1>6. ASSUME NEW r \in Rooms, TurnEnds(r) \/ TurnCancelled(r) PROVE RequestIsWanted(s)
  BY <1>6 DEF TurnEnds, TurnCancelled
<1>7. ASSUME NEW r \in Rooms, TimerStep(r) \/ FollowupStep(r) PROVE UNCHANGED drain
  BY <1>7 DEF TimerStep, WakeUp, Evaluate, Classify, Decide, StartAnswer, FirstSend, AnswerEnds,
     FollowupStep, InvitationEnds, FollowupLocks, FollowupDecided, FollowupRuns, FollowupEnds, requestVars
<1>8. CASE Close
  BY <1>8 DEF Close
<1>9. ASSUME NEW r \in Rooms, OwnMessage(r) PROVE UNCHANGED drain
  BY <1>9 DEF OwnMessage, requestVars
<1> QED BY <1>1, <1>2, <1>3, <1>4, <1>5, <1>6, <1>7, <1>8, <1>9 DEF Next, Receive, RequestStep

\* Whatever Hermes is given, or begins to answer, is still wanted: no recalled request,
\* and unasked only the last message in the room.
THEOREM Wanted == Spec => OnlyWanted
<1> DEFINE P(r) == RequestIsWanted(r) /\ UnaskedIsFresh(r)
<1>1. IInv /\ [Next]_vars => [\A r \in Rooms : P(r)]_vars
  BY UnaskedStep, RequestedStep DEF IInv
<1> QED BY <1>1, Inductive, PTL DEF Spec, OnlyWanted

\* A conversation that was ended or replaced is not reopened by an older request.
THEOREM NotReopened == Spec => NoReopening
<1> DEFINE P(r) == /\ latest'[r] >= latest[r]
                   /\ invitation'[r] \notin {0, invitation[r]} => invitation'[r] > latest[r]
<1>1. IInv /\ [Next]_vars => [\A r \in Rooms : P(r)]_vars
  <2> SUFFICES ASSUME IInv, Next, NEW s \in Rooms PROVE P(s)
    BY DEF IInv
  <2>t. /\ serial \in Nat /\ order \in [Messages -> 0..serial] /\ current \in [Rooms -> Messages \cup {Nobody}]
        /\ latest \in [Rooms -> 0..serial] /\ invitation \in [Rooms -> 0..serial]
    BY DEF IInv, TypesFit
  <2> USE <2>t DEF Put
  <2>0. CASE UNCHANGED latest /\ invitation'[s] \in {0, invitation[s]}
    BY <2>0
  <2>1. ASSUME NEW r \in Rooms, NEW m \in Messages, Control(r, m) PROVE P(s)
    BY <2>1 DEF Control
  <2>2. ASSUME NEW r \in Rooms, NEW m \in Messages, NEW k \in {"request", "command", "reply"},
               Address(r, m, k)
        PROVE P(s)
    <3>1. CASE UNCHANGED requestVars
      BY <3>1 DEF requestVars
    <3>2. CASE Enqueue(r, m, k)
      BY <3>2 DEF Enqueue
    <3> QED BY <2>2, <3>1, <3>2 DEF Address
  <2>3. ASSUME NEW r \in Rooms, NEW m \in Messages,
               Overhear(r, m) \/ Chat(r, m) \/ Recall(r, m)
        PROVE UNCHANGED latest /\ invitation'[s] \in {0, invitation[s]}
    BY <2>3 DEF Overhear, Chat, Recall, requestVars
  <2>4. ASSUME NEW r \in Rooms,
               Pop(r) \/ Drained(r) \/ LockRoom(r) \/ TakeSlot(r) \/ HandOver(r) \/ TurnEnds(r) \/ TurnCancelled(r)
        PROVE UNCHANGED latest /\ invitation'[s] \in {0, invitation[s]}
    BY <2>4 DEF Pop, Dismiss, Drained, LockRoom, TakeSlot, HandOver, TurnEnds, TurnCancelled
  <2>5. ASSUME NEW r \in Rooms, NEW slash \in BOOLEAN, Dispatch(r, slash) PROVE P(s)
    <3> DEFINE m == current[r]
    <3>1. m \in Messages /\ order[m] \in 0..serial
      <4>1. drain[r] = "history"
        BY <2>5 DEF Dispatch
      <4>2. m \in Messages
        BY <4>1 DEF IInv, CurrentInv
      <4> QED BY <4>2
    <3>2. \/ UNCHANGED latest /\ invitation'[s] \in {0, invitation[s]}
          \/ /\ order[m] >= latest[r] /\ latest' = Put(latest, r, order[m])
             /\ invitation' = Put(invitation, r, 0)
          \/ /\ order[m] > latest[r] /\ latest' = Put(latest, r, order[m])
             /\ invitation' = Put(invitation, r, order[m])
      BY <2>5 DEF Dispatch, Dismiss, MayInvite
    <3> QED BY <3>1, <3>2
  <2>6. ASSUME NEW r \in Rooms, TimerStep(r) PROVE UNCHANGED <<latest, invitation>>
    BY <2>6 DEF TimerStep, WakeUp, Evaluate, Classify, Decide, StartAnswer, FirstSend, AnswerEnds, requestVars
  <2>7. ASSUME NEW r \in Rooms, FollowupStep(r)
        PROVE UNCHANGED latest /\ invitation'[s] \in {0, invitation[s]}
    BY <2>7 DEF FollowupStep, InvitationEnds, FollowupLocks, FollowupDecided, FollowupRuns, FollowupEnds, requestVars
  <2>8. ASSUME NEW r \in Rooms, OwnMessage(r) PROVE UNCHANGED <<latest, invitation>>
    BY <2>8 DEF OwnMessage, requestVars
  <2>9. CASE Close
    BY <2>9 DEF Close
  <2> QED BY <2>0, <2>1, <2>2, <2>3, <2>4, <2>5, <2>6, <2>7, <2>8, <2>9 DEF Next, Receive, RequestStep
<1> QED BY <1>1, Inductive, PTL DEF Spec, NoReopening
=============================================================================
