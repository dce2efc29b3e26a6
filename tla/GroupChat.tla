------------------------------ MODULE GroupChat ------------------------------
(***************************************************************************)
(* GroupChatController (group_chat.py): messages that address the bot are  *)
(* queued and answered by one task per room; an unanswered open question   *)
(* may be answered unasked after a quiet moment.  Answers of a room        *)
(* exclude one another by its lock, answers of all rooms share the model   *)
(* slots.  The worker of the invited conversation (module                  *)
(* GroupContinuation) appears here only as another holder of both.         *)
(*                                                                         *)
(* The continuation is enabled, as proactive_assist needs it for invited   *)
(* conversations.  The revision of a room is a flag: did it change since   *)
(* the evaluation under way read it.  Messages are model values and arrive *)
(* once (the controller drops what it has seen).                           *)
(***************************************************************************)
EXTENDS Naturals, Sequences, FiniteSets, SequencesExt

CONSTANTS Rooms, Messages,
          MaxPending, \* max_pending_messages, over all rooms
          Slots       \* event_workers: answers at a time

Nobody == "nobody"

ASSUME GroupChatAssumption == /\ {MaxPending, Slots} \subseteq Nat \ {0}
                              /\ Nobody \notin Rooms \cup Messages
                              /\ IsFiniteSet(Rooms)  \* the groups of the configuration

VARIABLES
  queue,      \* self._queues
  pending,    \* self._pending
  drain,      \* where the task in self._workers is, "none" if there is none
  current,    \* the request it answers
  kind,       \* of each queued message: "request", "command", "reply"
  order,      \* the serial number of each queued message, 0 if none
  serial,     \* self._request_serial
  latest,     \* self._latest_invitation
  invitation, \* the order of the request whose invitation is open, 0 if none
  timer,      \* where the task in self._timers is, "none" if there is none
  candidate,  \* the message it is about
  reply,      \* self._proactive_runs: the message that is answered unasked
  begun,      \* its ticket's first_send_started
  changed,    \* the revision is not the one the evaluation read
  tail,       \* the last message in the room, Nobody if it is the bot's
  room,       \* self.seen: the room of each message received
  recalled,   \* the context's tombstones
  lock,       \* self._turn_locks: "free", "request", "timer", "followup"
  followup,   \* the continuation's worker, "none" while it holds no lock
  closed      \* self._closed

requestVars == <<queue, pending, drain, current, kind, order, serial, latest, invitation>>
timerVars == <<timer, candidate>>
runVars == <<reply, begun>>
roomVars == <<changed, tail, room, recalled>>
vars == <<requestVars, timerVars, runVars, roomVars, lock, followup, closed>>

TypesFit ==
  /\ queue \in [Rooms -> Seq(Messages)]
  /\ drain \in [Rooms -> {"none", "next", "lock", "slot", "history", "media", "running"}]
  /\ current \in [Rooms -> Messages \cup {Nobody}]
  /\ kind \in [Messages -> {"none", "request", "command", "reply"}]
  /\ serial \in Nat /\ order \in [Messages -> 0..serial]
  /\ latest \in [Rooms -> 0..serial] /\ invitation \in [Rooms -> 0..serial]
  /\ timer \in [Rooms -> {"none", "sleeping", "lock", "history", "deciding", "slot"}]
  /\ candidate \in [Rooms -> Messages \cup {Nobody}]
  /\ reply \in [Rooms -> Messages \cup {Nobody}] /\ begun \in [Rooms -> BOOLEAN]
  /\ changed \in [Rooms -> BOOLEAN] /\ tail \in [Rooms -> Messages \cup {Nobody}]
  /\ room \in [Messages -> Rooms \cup {Nobody}] /\ recalled \subseteq Messages
  /\ lock \in [Rooms -> {"free", "request", "timer", "followup"}]
  /\ followup \in [Rooms -> {"none", "assessing", "slot", "running"}]
  /\ closed \in BOOLEAN

\* The account that bounds the queues of all rooms (_pending, checked by _enqueue)
\* is exact, also when a turn is cancelled and its room's queue dropped.
PendingExact == pending = SumFunctionOnSet([r \in Rooms |-> Len(queue[r])], Rooms)

\* The variables have their types, and the account is exact and within its bound.
TypeOK == TypesFit /\ PendingExact /\ pending <= MaxPending

Init ==
  /\ queue = [r \in Rooms |-> <<>>] /\ pending = 0
  /\ drain = [r \in Rooms |-> "none"] /\ current = [r \in Rooms |-> Nobody]
  /\ kind = [m \in Messages |-> "none"] /\ order = [m \in Messages |-> 0] /\ serial = 0
  /\ latest = [r \in Rooms |-> 0] /\ invitation = [r \in Rooms |-> 0]
  /\ timer = [r \in Rooms |-> "none"] /\ candidate = [r \in Rooms |-> Nobody]
  /\ reply = [r \in Rooms |-> Nobody] /\ begun = [r \in Rooms |-> FALSE]
  /\ changed = [r \in Rooms |-> FALSE] /\ tail = [r \in Rooms |-> Nobody]
  /\ room = [m \in Messages |-> Nobody] /\ recalled = {}
  /\ lock = [r \in Rooms |-> "free"] /\ followup = [r \in Rooms |-> "none"]
  /\ closed = FALSE

Put(f, r, v) == [f EXCEPT ![r] = v]

-----------------------------------------------------------------------------
(* Receiving *)

\* The evaluation holds the lock of the room.
Evaluating(r) == timer[r] \in {"history", "deciding", "slot"}

\* Mutant: the cancelled evaluation keeps the lock.
MutCancelTimer(r) ==
  /\ timer' = Put(timer, r, "none") /\ candidate' = Put(candidate, r, Nobody)
  /\ UNCHANGED lock

\* _cancel_timer(): the evaluation is cancelled wherever it waits, and gives back
\* the lock.  An answer that has been handed over is no longer in _timers.
CancelTimer(r) ==
  /\ timer' = Put(timer, r, "none") /\ candidate' = Put(candidate, r, Nobody)
  /\ lock' = IF Evaluating(r) THEN Put(lock, r, "free") ELSE lock

\* Somebody spoke.
Heard(r, m) ==
  /\ ~closed /\ room[m] = Nobody /\ m \notin recalled
  /\ room' = Put(room, m, r)
  /\ changed' = Put(changed, r, TRUE) /\ tail' = Put(tail, r, m)
  /\ UNCHANGED <<runVars, recalled, followup, closed>>

\* Nothing for the bot: somebody who may not address it, a file, or a supplement
\* that the open invitation takes.
Overhear(r, m) ==
  /\ Heard(r, m) /\ CancelTimer(r)
  /\ UNCHANGED requestVars

\* An untriggered message replaces the timer by its own.
Chat(r, m) ==
  /\ Heard(r, m)
  /\ timer' = Put(timer, r, "sleeping") /\ candidate' = Put(candidate, r, m)
  /\ lock' = IF Evaluating(r) THEN Put(lock, r, "free") ELSE lock
  /\ UNCHANGED requestVars

\* A command of an administrator bypasses the queue and ends the invitation.
Control(r, m) ==
  /\ Heard(r, m) /\ CancelTimer(r)
  /\ serial' = serial + 1 /\ latest' = Put(latest, r, serial + 1)
  /\ invitation' = Put(invitation, r, 0)
  /\ UNCHANGED <<queue, pending, drain, current, kind, order>>

\* _enqueue(): a request opens an invitation and a command ends it; what a reply to
\* the bot is turns out only when its turn comes.
Enqueue(r, m, k) ==
  /\ serial' = serial + 1 /\ order' = Put(order, m, serial + 1) /\ kind' = Put(kind, m, k)
  /\ IF k = "reply" THEN UNCHANGED <<latest, invitation>>
     ELSE /\ latest' = Put(latest, r, serial + 1)
          /\ invitation' = Put(invitation, r, IF k = "request" THEN serial + 1 ELSE 0)
  /\ queue' = Put(queue, r, Append(queue[r], m)) /\ pending' = pending + 1
  /\ drain' = IF drain[r] = "none" THEN Put(drain, r, "next") ELSE drain
  /\ UNCHANGED current

\* A message that addresses the bot is queued, or dropped if the queues are full
\* (if it is dropped for too many active rooms it is as if it were overheard).
Address(r, m, k) ==
  /\ Heard(r, m) /\ CancelTimer(r)
  /\ \/ pending < MaxPending /\ Enqueue(r, m, k)
     \/ pending >= MaxPending /\ UNCHANGED requestVars

\* A recall, possibly before the message itself.  Queued requests stay queued.
Recall(r, m) ==
  /\ ~closed /\ m \notin recalled /\ room[m] \in {r, Nobody}
  /\ recalled' = recalled \cup {m} /\ changed' = Put(changed, r, TRUE)
  /\ CancelTimer(r)
  /\ invitation' = IF order[m] # 0 /\ invitation[r] = order[m] THEN Put(invitation, r, 0)
                                                               ELSE invitation
  /\ UNCHANGED <<queue, pending, drain, current, kind, order, serial, latest,
                 runVars, tail, room, followup, closed>>

\* The continuation ends the invitation: it expired, was concluded or failed.
InvitationEnds(r) ==
  /\ invitation[r] # 0 /\ invitation' = Put(invitation, r, 0)
  /\ UNCHANGED <<queue, pending, drain, current, kind, order, serial, latest,
                 timerVars, runVars, roomVars, lock, followup, closed>>

\* sent(): a message of the bot, of whatever turn, becomes part of the room.  The
\* timer goes on.
OwnMessage(r) ==
  /\ ~closed /\ tail[r] # Nobody
  /\ changed' = Put(changed, r, TRUE) /\ tail' = Put(tail, r, Nobody)
  /\ UNCHANGED <<requestVars, timerVars, runVars, room, recalled, lock, followup, closed>>

-----------------------------------------------------------------------------
(* Answering requests *)

\* The holders of self._model_slots.
FreeSlot ==
  Cardinality({r \in Rooms : drain[r] \in {"history", "media", "running"}})
    + Cardinality({r \in Rooms : followup[r] = "running"})
    + Cardinality({r \in Rooms : reply[r] # Nobody}) < Slots

\* _addressed(): a request that is not answered ends its own invitation.
Dismiss(r, m) ==
  /\ drain' = Put(drain, r, "next") /\ current' = Put(current, r, Nobody)
  /\ invitation' = IF kind[m] = "request" /\ invitation[r] = order[m]
                     THEN Put(invitation, r, 0) ELSE invitation
  /\ UNCHANGED <<kind, order, serial, latest>>

\* The next request: recalled, not for the bot after all, over the user's rate,
\* or to be answered.
Pop(r) ==
  /\ drain[r] = "next" /\ queue[r] # <<>>
  /\ queue' = Put(queue, r, Tail(queue[r])) /\ pending' = pending - 1
  /\ LET m == Head(queue[r])
     IN \/ Dismiss(r, m)
        \/ /\ m \notin recalled
           /\ drain' = Put(drain, r, "lock") /\ current' = Put(current, r, m)
           /\ UNCHANGED <<kind, order, serial, latest, invitation>>
  /\ UNCHANGED <<timerVars, runVars, roomVars, lock, followup, closed>>

\* The queue is empty: the task ends.
Drained(r) ==
  /\ drain[r] = "next" /\ queue[r] = <<>>
  /\ drain' = Put(drain, r, "none")
  /\ UNCHANGED <<queue, pending, current, kind, order, serial, latest, invitation,
                 timerVars, runVars, roomVars, lock, followup, closed>>

LockRoom(r) ==
  /\ drain[r] = "lock" /\ lock[r] = "free"
  /\ lock' = Put(lock, r, "request") /\ drain' = Put(drain, r, "slot")
  /\ UNCHANGED <<queue, pending, current, kind, order, serial, latest, invitation,
                 timerVars, runVars, roomVars, followup, closed>>

TakeSlot(r) ==
  /\ drain[r] = "slot" /\ FreeSlot
  /\ drain' = Put(drain, r, "history")
  /\ UNCHANGED <<queue, pending, current, kind, order, serial, latest, invitation,
                 timerVars, runVars, roomVars, lock, followup, closed>>

\* Mutant: a recall during the waits is not noticed.
MutStillWanted(m) == TRUE

\* The request has not been recalled while its turn waited.
StillWanted(m) == m \notin recalled

\* Mutant: an older request opens its invitation whatever came later.
MutMayInvite(r, m) == kind[m] = "reply"

\* A reply turns out to be a request of its own, and nothing later has decided
\* about the invitation.
MayInvite(r, m) == kind[m] = "reply" /\ order[m] > latest[r]

\* The history has been fetched: the turn is dispatched, unless the request was
\* recalled in the meantime.
Dispatch(r, slash) ==
  /\ drain[r] = "history"
  /\ LET m == current[r]
     IN \/ /\ ~StillWanted(m)
           /\ Dismiss(r, m) /\ lock' = Put(lock, r, "free")
        \/ /\ StillWanted(m)
           /\ (kind[m] = "command" => slash) /\ (kind[m] = "request" => ~slash)
           /\ drain' = Put(drain, r, "media")
           /\ IF slash /\ order[m] >= latest[r]
                THEN latest' = Put(latest, r, order[m]) /\ invitation' = Put(invitation, r, 0)
              ELSE IF ~slash /\ MayInvite(r, m)
                THEN latest' = Put(latest, r, order[m]) /\ invitation' = Put(invitation, r, order[m])
              ELSE UNCHANGED <<latest, invitation>>
           /\ UNCHANGED <<current, kind, order, serial, lock>>
  /\ UNCHANGED <<queue, pending, timerVars, runVars, roomVars, followup, closed>>

\* _dispatch_group(): with its attachments the request is handed to Hermes, unless it
\* was recalled; or they could not be fetched.  Then the turn is over like any other.
HandOver(r) ==
  /\ drain[r] = "media"
  /\ \/ /\ StillWanted(current[r])
        /\ drain' = Put(drain, r, "running") /\ UNCHANGED <<current, lock>>
     \/ /\ drain' = Put(drain, r, "next") /\ current' = Put(current, r, Nobody)
        /\ lock' = Put(lock, r, "free")
  /\ UNCHANGED <<queue, pending, kind, order, serial, latest, invitation,
                 timerVars, runVars, roomVars, followup, closed>>

\* The turn is over, successfully or not; it is not repeated.
TurnEnds(r) ==
  /\ drain[r] = "running"
  /\ drain' = Put(drain, r, "next") /\ current' = Put(current, r, Nobody)
  /\ lock' = Put(lock, r, "free")
  /\ UNCHANGED <<queue, pending, kind, order, serial, latest, invitation,
                 timerVars, runVars, roomVars, followup, closed>>

\* Mutant: the requests that are dropped stay in the account.
MutTurnCancelled(r) ==
  /\ drain[r] = "running"
  /\ drain' = Put(drain, r, "none") /\ current' = Put(current, r, Nobody)
  /\ lock' = Put(lock, r, "free")
  /\ queue' = Put(queue, r, <<>>)
  /\ UNCHANGED <<pending, kind, order, serial, latest, invitation,
                 timerVars, runVars, roomVars, followup, closed>>

\* Hermes cancelled the turn: the task of the room ends, and with it the requests
\* that are still queued.
TurnCancelled(r) ==
  /\ drain[r] = "running"
  /\ drain' = Put(drain, r, "none") /\ current' = Put(current, r, Nobody)
  /\ lock' = Put(lock, r, "free")
  /\ queue' = Put(queue, r, <<>>) /\ pending' = pending - Len(queue[r])
  /\ UNCHANGED <<kind, order, serial, latest, invitation,
                 timerVars, runVars, roomVars, followup, closed>>

-----------------------------------------------------------------------------
(* Answering unasked *)

\* The quiet window is over.  asyncio's lock may make the task wait although it
\* is not held: others were waiting before.
WakeUp(r) ==
  /\ timer[r] = "sleeping"
  /\ IF drain[r] = "none" /\ lock[r] = "free"
       THEN timer' = Put(timer, r, "lock") /\ UNCHANGED candidate
       ELSE timer' = Put(timer, r, "none") /\ candidate' = Put(candidate, r, Nobody)
  /\ UNCHANGED <<requestVars, runVars, roomVars, lock, followup, closed>>

\* _evaluate() reads the revision; the cooldown, the content of the message and
\* the budget of decisions may end it here.
Evaluate(r) ==
  /\ timer[r] = "lock" /\ lock[r] = "free"
  /\ \/ /\ tail[r] = candidate[r]
        /\ timer' = Put(timer, r, "history") /\ lock' = Put(lock, r, "timer")
        /\ changed' = Put(changed, r, FALSE)
        /\ UNCHANGED candidate
     \/ /\ timer' = Put(timer, r, "none") /\ candidate' = Put(candidate, r, Nobody)
        /\ UNCHANGED <<lock, changed>>
  /\ UNCHANGED <<requestVars, runVars, tail, room, recalled, followup, closed>>

Silent(r) ==
  /\ timer' = Put(timer, r, "none") /\ candidate' = Put(candidate, r, Nobody)
  /\ lock' = Put(lock, r, "free")

\* fresh()
Fresh(r) == ~closed /\ ~changed[r] /\ candidate[r] \notin recalled

\* The history has been fetched and the classifier is free.
Classify(r) ==
  /\ timer[r] = "history"
  /\ IF Fresh(r) THEN timer' = Put(timer, r, "deciding") /\ UNCHANGED <<candidate, lock>>
                 ELSE Silent(r)
  /\ UNCHANGED <<requestVars, runVars, roomVars, followup, closed>>

\* The classifier has decided.
Decide(r) ==
  /\ timer[r] = "deciding"
  /\ \/ Fresh(r) /\ timer' = Put(timer, r, "slot") /\ UNCHANGED <<candidate, lock>>
     \/ Silent(r)
  /\ UNCHANGED <<requestVars, runVars, roomVars, followup, closed>>

\* With a slot the answer is handed to Hermes and leaves _timers, so that from
\* here on nothing but its ticket stops it.
StartAnswer(r) ==
  /\ timer[r] = "slot" /\ FreeSlot
  /\ IF Fresh(r)
       THEN /\ timer' = Put(timer, r, "none") /\ candidate' = Put(candidate, r, Nobody)
            /\ reply' = Put(reply, r, candidate[r]) /\ begun' = Put(begun, r, FALSE)
            /\ UNCHANGED lock
       ELSE Silent(r) /\ UNCHANGED runVars
  /\ UNCHANGED <<requestVars, roomVars, followup, closed>>

\* Mutant: the ticket is checked for its age only.
MutFirstSend(r) ==
  /\ reply[r] # Nobody /\ ~begun[r] /\ ~closed
  /\ begun' = Put(begun, r, TRUE)
  /\ UNCHANGED <<requestVars, timerVars, reply, roomVars, lock, followup, closed>>

\* before_send(): the first message of the answer needs a ticket that is still
\* good.  A refusal, also one for its age, changes nothing.
FirstSend(r) ==
  /\ reply[r] # Nobody /\ ~begun[r]
  /\ ~closed /\ ~changed[r]
  /\ begun' = Put(begun, r, TRUE)
  /\ UNCHANGED <<requestVars, timerVars, reply, roomVars, lock, followup, closed>>

\* The unasked answer is over, whether or not it said anything.
AnswerEnds(r) ==
  /\ reply[r] # Nobody
  /\ reply' = Put(reply, r, Nobody) /\ begun' = Put(begun, r, FALSE)
  /\ lock' = Put(lock, r, "free")
  /\ UNCHANGED <<requestVars, timerVars, roomVars, followup, closed>>

-----------------------------------------------------------------------------
(* The continuation's worker, and the end *)

\* It assesses the supplements with the lock of the room.
FollowupLocks(r) ==
  /\ ~closed /\ followup[r] = "none" /\ invitation[r] # 0 /\ lock[r] = "free"
  /\ followup' = Put(followup, r, "assessing") /\ lock' = Put(lock, r, "followup")
  /\ UNCHANGED <<requestVars, timerVars, runVars, roomVars, closed>>

\* It has nothing to execute, or waits for a slot.
FollowupDecided(r) ==
  /\ followup[r] = "assessing"
  /\ \/ followup' = Put(followup, r, "slot") /\ UNCHANGED lock
     \/ followup' = Put(followup, r, "none") /\ lock' = Put(lock, r, "free")
  /\ UNCHANGED <<requestVars, timerVars, runVars, roomVars, closed>>

\* _execute_followup()
FollowupRuns(r) ==
  /\ followup[r] = "slot" /\ FreeSlot
  /\ followup' = Put(followup, r, "running")
  /\ UNCHANGED <<requestVars, timerVars, runVars, roomVars, lock, closed>>

FollowupEnds(r) ==
  /\ followup[r] = "running"
  /\ followup' = Put(followup, r, "none") /\ lock' = Put(lock, r, "free")
  /\ UNCHANGED <<requestVars, timerVars, runVars, roomVars, closed>>

\* close(): every task is cancelled and awaited; nothing arrives meanwhile.
Close ==
  /\ ~closed /\ closed' = TRUE
  /\ queue' = [r \in Rooms |-> <<>>] /\ pending' = 0
  /\ drain' = [r \in Rooms |-> "none"] /\ current' = [r \in Rooms |-> Nobody]
  /\ timer' = [r \in Rooms |-> "none"] /\ candidate' = [r \in Rooms |-> Nobody]
  /\ reply' = [r \in Rooms |-> Nobody] /\ begun' = [r \in Rooms |-> FALSE]
  /\ lock' = [r \in Rooms |-> "free"] /\ followup' = [r \in Rooms |-> "none"]
  /\ invitation' = [r \in Rooms |-> 0]
  /\ UNCHANGED <<kind, order, serial, latest, roomVars>>

-----------------------------------------------------------------------------
Receive(r) ==
  \/ \E m \in Messages : \/ Overhear(r, m) \/ Chat(r, m) \/ Control(r, m) \/ Recall(r, m)
                         \/ \E k \in {"request", "command", "reply"} : Address(r, m, k)
  \/ OwnMessage(r)

RequestStep(r) ==
  \/ Pop(r) \/ Drained(r) \/ LockRoom(r) \/ TakeSlot(r)
  \/ \E slash \in BOOLEAN : Dispatch(r, slash)
  \/ HandOver(r) \/ TurnEnds(r) \/ TurnCancelled(r)

TimerStep(r) ==
  WakeUp(r) \/ Evaluate(r) \/ Classify(r) \/ Decide(r) \/ StartAnswer(r)
    \/ FirstSend(r) \/ AnswerEnds(r)

FollowupStep(r) ==
  InvitationEnds(r) \/ FollowupLocks(r) \/ FollowupDecided(r) \/ FollowupRuns(r) \/ FollowupEnds(r)

Next == Close \/ \E r \in Rooms : Receive(r) \/ RequestStep(r) \/ TimerStep(r) \/ FollowupStep(r)

Spec == Init /\ [][Next]_vars

\* A task that can go on time and again does: locks and slots go to whoever waits,
\* in turn; the history, the classifier and Hermes' turns take a bounded time.
Fairness ==
  \A r \in Rooms :
    /\ SF_vars(Pop(r) \/ LockRoom(r) \/ TakeSlot(r) \/ HandOver(r) \/ TurnEnds(r)
                 \/ TurnCancelled(r) \/ \E slash \in BOOLEAN : Dispatch(r, slash))
    /\ SF_vars(Classify(r) \/ Decide(r) \/ StartAnswer(r) \/ AnswerEnds(r))
    /\ SF_vars(FollowupDecided(r) \/ FollowupRuns(r) \/ FollowupEnds(r))

FairSpec == Spec /\ Fairness

-----------------------------------------------------------------------------
(* Properties *)

\* A conversation that was ended or replaced stays so: an invitation opens only for
\* a request newer than every request or command that decided about the room's
\* invitation before, also when a reply's turn comes late (_latest_invitation).
NoReopening ==
  [][\A r \in Rooms :
       /\ latest'[r] >= latest[r]
       /\ invitation'[r] \notin {0, invitation[r]} => invitation'[r] > latest[r]]_vars

\* Hermes is given, and begins to answer, only what is still wanted after the waits
\* for lock, history, classifier, slot and attachments: no request that was recalled,
\* and unasked only the last message in the room (fresh, _check_fresh, is_recalled).
RequestIsWanted(r) ==
  drain'[r] = "running" /\ drain[r] # "running" => current'[r] \notin recalled

UnaskedIsFresh(r) ==
  \/ reply'[r] # Nobody /\ reply[r] = Nobody
  \/ begun'[r] /\ ~begun[r]
  => reply'[r] = tail[r] /\ reply'[r] \notin recalled

OnlyWanted == [][\A r \in Rooms : RequestIsWanted(r) /\ UnaskedIsFresh(r)]_vars

\* An answer of the room is under way, which takes a bounded time.
Answering(r) ==
  drain[r] \in {"history", "media", "running"} \/ followup[r] = "running" \/ reply[r] # Nobody

\* Some task of the room waits for no other task.
GoesOn(r) ==
  \/ Answering(r) \/ drain[r] = "next"
  \/ drain[r] = "lock" /\ lock[r] = "free"
  \/ timer[r] \in {"history", "deciding"} \/ followup[r] = "assessing"

\* Locks and slots are never waited for in a circle, and no lock is left behind by a
\* cancelled task: in a room with a request some task goes on, or waits for a slot
\* that is free or held by an answer under way (_turn_locks before _model_slots).
NoCircle ==
  \A r \in Rooms : queue[r] # <<>> \/ current[r] # Nobody =>
    \/ GoesOn(r)
    \/ "slot" \in {drain[r], timer[r], followup[r]} /\ (FreeSlot \/ \E q \in Rooms : Answering(q))

\* Every queued request is answered or given up: rooms, unasked answers and
\* invited conversations do not block one another with their locks and slots.
Concludes(m) ==
  LET Open == \E r \in Rooms : m \in ToSet(queue[r]) \/ current[r] = m IN Open ~> ~Open

RequestsConclude == \A m \in Messages : Concludes(m)
=============================================================================
