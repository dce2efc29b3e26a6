----------------------------- MODULE EventLanes -----------------------------
(***************************************************************************)
(* The event half of OneBotTransport (transport.py): what the reader does  *)
(* with message and recall events, the buffer used before the account is   *)
(* verified, the two bounded queues with their byte budget, the event      *)
(* workers that serialise the handler per chat, the recall worker, and the *)
(* start and stop of all of them.                                          *)
(*                                                                         *)
(* Events are numbered in order of arrival.  Workers belong to the start   *)
(* that created them: <<g, 0>> is the recall worker of the g-th start and  *)
(* <<g, i>>, i > 0, its event workers.                                     *)
(***************************************************************************)
EXTENDS Queues, Naturals, FiniteSets, SequencesExt

CONSTANTS Chats,         \* conversation keys
          Sizes,         \* serialised sizes of message events
          EventWorkers,  \* config.event_workers
          QueueSize,     \* config.event_queue_size
          MaxBytes,      \* config.event_queue_max_bytes
          Forward,       \* config.mode = "forward"
          MaxEvents,     \* bound: events that arrive
          MaxSessions,   \* bound: attachments
          MaxStarts,     \* bound: calls of start()
          None

VARIABLES
  phase,     \* "down", "up", "stopping" (stop awaits ws.close), "cancelling"
  running,   \* self.running
  first,     \* start() has returned: self._first is resolved
  starts,    \* the generation of self._workers
  alive,     \* worker tasks that have not ended
  link,      \* the reader: "off", "preauth" (account not verified), "on"
  session,   \* self._epoch
  authed,    \* history: the sessions whose account was verified
  arrived,   \* events received so far
  preauth,   \* the buffer of the present session
  preBytes,  \* preauth_bytes
  queue,     \* self._queue
  recalls,   \* self._recalls
  bytes,     \* self._queued_event_bytes
  item,      \* the event each worker has taken
  handling,  \* workers inside self.handler
  table,     \* self._chat_locks: the lock of each chat and its count, 0 if absent
  lockOf,    \* the lock object each event worker uses
  line       \* holder and waiters of each lock object, in order

lifeVars == <<phase, running, first, starts, alive>>
linkVars == <<link, session, authed, arrived, preauth, preBytes>>
laneVars == <<queue, recalls, bytes>>
workVars == <<item, handling, table, lockOf, line>>
vars == <<lifeVars, linkVars, laneVars, workVars>>

Workers == (1..MaxStarts) \X (0..EventWorkers)
Locks == 1..MaxEvents   \* a lock object is named after the event it was made for
Event == [id : 1..MaxEvents, session : 1..MaxSessions, lane : {"message", "recall"},
          chat : Chats \cup {None}, size : Sizes \cup {0}]

ASSUME LanesAssumption == /\ {EventWorkers, QueueSize, MaxBytes} \subseteq Nat \ {0}
                          /\ {MaxEvents, MaxSessions, MaxStarts} \cup Sizes \subseteq Nat
                          /\ Forward \in BOOLEAN
                          /\ None \notin Chats \cup Event

Limited(s, n) == s \in Seq(Event) /\ Len(s) <= n

TypeOK ==
  /\ phase \in {"down", "up", "stopping", "cancelling"} /\ {running, first} \subseteq BOOLEAN
  /\ starts \in 0..MaxStarts /\ alive \subseteq Workers
  /\ link \in {"off", "preauth", "on"} /\ session \in 0..MaxSessions
  /\ authed \subseteq 1..session /\ arrived \in 0..MaxEvents
  /\ Limited(preauth, QueueSize) /\ preBytes \in 0..MaxBytes
  /\ Limited(queue, QueueSize) /\ Limited(recalls, QueueSize)
  /\ bytes \in 0..MaxBytes
  /\ item \in [Workers -> Event \cup {None}] /\ handling \subseteq Workers
  /\ table \in [Chats -> [lock : Locks \cup {0}, count : 0..Cardinality(Workers)]]
  /\ lockOf \in [Workers -> Locks \cup {0}]
  /\ line \in [Locks -> Seq(Workers)]

Init ==
  /\ phase = "down" /\ running = FALSE /\ first = FALSE /\ starts = 0 /\ alive = {}
  /\ link = "off" /\ session = 0 /\ authed = {} /\ arrived = 0
  /\ preauth = <<>> /\ preBytes = 0
  /\ queue = <<>> /\ recalls = <<>> /\ bytes = 0
  /\ item = [w \in Workers |-> None] /\ handling = {}
  /\ table = [c \in Chats |-> [lock |-> 0, count |-> 0]]
  /\ lockOf = [w \in Workers |-> 0]
  /\ line = [l \in Locks |-> <<>>]

-----------------------------------------------------------------------------
(* The reader *)

\* _enqueue: recalls have a lane of their own; a message needs a place and its
\* share of the byte budget; what does not fit is dropped.
Admit(lanes, e) ==
  CASE e.lane = "recall" /\ Len(lanes.recalls) < QueueSize ->
         [lanes EXCEPT !.recalls = Append(@, e)]
    [] e.lane = "message" /\ Len(lanes.queue) < QueueSize /\ lanes.bytes + e.size <= MaxBytes ->
         [lanes EXCEPT !.queue = Append(@, e), !.bytes = @ + e.size]
    [] OTHER -> lanes

\* The lanes once the events have been admitted one after the other.
Admitted(events) ==
  LET lanes[n \in 0..Len(events)] ==
        IF n = 0 THEN [queue |-> queue, recalls |-> recalls, bytes |-> bytes]
        ELSE Admit(lanes[n - 1], events[n])
  IN  lanes[Len(events)]

Enqueue(events) == /\ queue' = Admitted(events).queue
                   /\ recalls' = Admitted(events).recalls
                   /\ bytes' = Admitted(events).bytes

\* Mutant: the account check is not awaited.
MutReceive(e, wire) == /\ Enqueue(<<e>>) /\ UNCHANGED <<preauth, preBytes>>

\* An event frame of wire bytes.  Before validation it is buffered within the
\* limits of the queue, afterwards it goes to its lane.
Receive(e, wire) ==
  \/ /\ link = "on"
     /\ Enqueue(<<e>>) /\ UNCHANGED <<preauth, preBytes>>
  \/ /\ link = "preauth" /\ Len(preauth) < QueueSize /\ preBytes + wire <= MaxBytes
     /\ preauth' = Append(preauth, e) /\ preBytes' = preBytes + wire
     /\ UNCHANGED laneVars
  \/ /\ link = "preauth" /\ (Len(preauth) >= QueueSize \/ preBytes + wire > MaxBytes)
     /\ UNCHANGED <<preauth, preBytes, laneVars>>

Arrive(e, wire) ==
  /\ link # "off" /\ arrived < MaxEvents
  /\ arrived' = arrived + 1
  /\ Receive(e, wire)
  /\ UNCHANGED <<lifeVars, link, session, authed, workVars>>

NextEvent(lane, chat, size) ==
  [id |-> arrived + 1, session |-> session, lane |-> lane, chat |-> chat, size |-> size]

\* The size budgeted before validation is that of the frame on the wire.
ArriveMessage(chat, size, wire) == Arrive(NextEvent("message", chat, size), wire)
ArriveRecall(wire) == Arrive(NextEvent("recall", None, 0), wire)

\* A new attachment, with an empty buffer of its own.
Attach ==
  /\ link = "off" /\ session < MaxSessions
  /\ IF Forward THEN phase = "up" /\ running ELSE phase # "down"
  /\ link' = "preauth" /\ session' = session + 1
  /\ preauth' = <<>> /\ preBytes' = 0
  /\ UNCHANGED <<lifeVars, authed, arrived, laneVars, workVars>>

\* The account is the configured one: the buffer is admitted in one go.
LoginAccepted ==
  /\ link = "preauth"
  /\ link' = "on" /\ authed' = authed \cup {session} /\ first' = TRUE
  /\ Enqueue(preauth) /\ preauth' = <<>>
  /\ UNCHANGED <<phase, running, starts, alive, session, arrived, preBytes, workVars>>

\* The attachment ends, with whatever it had buffered.
Detach ==
  /\ link # "off"
  /\ link' = "off" /\ preauth' = <<>> /\ preBytes' = 0
  /\ UNCHANGED <<lifeVars, session, authed, arrived, laneVars, workVars>>

\* Another account: the forward supervisor gives up; the workers stay.
IdentityMismatch ==
  /\ link = "preauth"
  /\ link' = "off" /\ preauth' = <<>> /\ preBytes' = 0
  /\ running' = (running /\ ~Forward)
  /\ UNCHANGED <<phase, first, starts, alive, session, authed, arrived, laneVars, workVars>>

-----------------------------------------------------------------------------
(* The workers *)

Cancelled(w) == phase = "cancelling" /\ w[1] = starts
Ready(w) == w \in alive /\ ~Cancelled(w)

\* The lock of the chat is found or made, counted, and asked for.
Acquire(w, chat, fresh) ==
  LET known == table[chat].count > 0
      l     == IF known THEN table[chat].lock ELSE fresh
  IN  /\ table' = [table EXCEPT ![chat] = [lock |-> l, count |-> @.count + 1]]
      /\ lockOf' = [lockOf EXCEPT ![w] = l]
      /\ line' = [line EXCEPT ![l] = Append(@, w)]

Take(w) ==
  /\ Ready(w) /\ w[2] > 0 /\ item[w] = None /\ queue # <<>>
  /\ LET e == Head(queue)
     IN  /\ item' = [item EXCEPT ![w] = e]
         /\ Acquire(w, e.chat, e.id)
  /\ queue' = Tail(queue)
  /\ UNCHANGED <<lifeVars, linkVars, recalls, bytes, handling>>

\* Mutant: the handler runs without the lock of its chat.
MutBegin(w) ==
  /\ Ready(w) /\ w[2] > 0 /\ item[w] # None /\ w \notin handling
  /\ handling' = handling \cup {w}
  /\ UNCHANGED <<lifeVars, linkVars, laneVars, item, table, lockOf, line>>

\* The lock is granted in the order in which it was asked for.
Begin(w) ==
  /\ Ready(w) /\ w[2] > 0 /\ item[w] # None /\ w \notin handling
  /\ Head(line[lockOf[w]]) = w
  /\ handling' = handling \cup {w}
  /\ UNCHANGED <<lifeVars, linkVars, laneVars, item, table, lockOf, line>>

\* Mutant: the lock is acquired but never released.
MutRelease(w) ==
  /\ table' = [table EXCEPT ![item[w].chat] =
                 IF @.count = 1 THEN [lock |-> 0, count |-> 0]
                                ELSE [lock |-> @.lock, count |-> @.count - 1]]
  /\ item' = [item EXCEPT ![w] = None]
  /\ handling' = handling \ {w}
  /\ lockOf' = [lockOf EXCEPT ![w] = 0]
  /\ bytes' = bytes - item[w].size
  /\ UNCHANGED line

\* Out of the lock and through the finally clause: the count of the lock is
\* lowered, its entry forgotten with the last user, and the bytes given back.
Release(w) ==
  /\ LET chat == item[w].chat
         l    == lockOf[w]
     IN  /\ table' = [table EXCEPT ![chat] =
                        IF @.count = 1 THEN [lock |-> 0, count |-> 0]
                                       ELSE [lock |-> @.lock, count |-> @.count - 1]]
         /\ line' = [line EXCEPT ![l] = Kept(@, Workers \ {w})]
  /\ item' = [item EXCEPT ![w] = None]
  /\ handling' = handling \ {w}
  /\ lockOf' = [lockOf EXCEPT ![w] = 0]
  /\ bytes' = bytes - item[w].size

\* The handler returned or raised.
Done(w) ==
  /\ Ready(w) /\ w[2] > 0 /\ w \in handling
  /\ Release(w)
  /\ UNCHANGED <<lifeVars, linkVars, queue, recalls>>

\* Mutant: recalls are only handled between messages.
MutTakeRecall(w) ==
  /\ Ready(w) /\ w[2] = 0 /\ item[w] = None /\ recalls # <<>>
  /\ handling = {}
  /\ item' = [item EXCEPT ![w] = Head(recalls)]
  /\ handling' = handling \cup {w}
  /\ recalls' = Tail(recalls)
  /\ UNCHANGED <<lifeVars, linkVars, queue, bytes, table, lockOf, line>>

\* The recall worker asks for no lock.
TakeRecall(w) ==
  /\ Ready(w) /\ w[2] = 0 /\ item[w] = None /\ recalls # <<>>
  /\ item' = [item EXCEPT ![w] = Head(recalls)]
  /\ handling' = handling \cup {w}
  /\ recalls' = Tail(recalls)
  /\ UNCHANGED <<lifeVars, linkVars, queue, bytes, table, lockOf, line>>

RecallDone(w) ==
  /\ Ready(w) /\ w[2] = 0 /\ w \in handling
  /\ item' = [item EXCEPT ![w] = None]
  /\ handling' = handling \ {w}
  /\ UNCHANGED <<lifeVars, linkVars, laneVars, table, lockOf, line>>

-----------------------------------------------------------------------------
(* Lifecycle *)

\* start() is guarded by self.running, which is also false after IdentityMismatch
\* on a reconnection.  A start() that fails or times out before it returned
\* continues with StopBegins.
Start ==
  /\ ~running /\ (phase = "down" \/ (phase = "up" /\ first)) /\ link = "off"
  /\ starts < MaxStarts
  /\ phase' = "up" /\ running' = TRUE /\ first' = ~Forward
  /\ starts' = starts + 1
  /\ alive' = alive \cup ({starts + 1} \X (0..EventWorkers))
  /\ UNCHANGED <<linkVars, laneVars, workVars>>

\* stop() up to the await of ws.close(); events can still arrive.
StopBegins ==
  /\ phase = "up"
  /\ phase' = "stopping" /\ running' = FALSE
  /\ UNCHANGED <<first, starts, alive, linkVars, laneVars, workVars>>

\* The tasks in self._workers are cancelled.
StopCancels ==
  /\ phase = "stopping"
  /\ phase' = "cancelling"
  /\ UNCHANGED <<running, first, starts, alive, linkVars, laneVars, workVars>>

\* The cancellation reaches a worker, wherever it is.
WorkerEnds(w) ==
  /\ w \in alive /\ Cancelled(w)
  /\ alive' = alive \ {w}
  /\ \/ item[w] = None /\ UNCHANGED <<bytes, workVars>>
     \/ item[w] # None /\ w[2] > 0 /\ Release(w)
     \/ /\ item[w] # None /\ w[2] = 0
        /\ item' = [item EXCEPT ![w] = None] /\ handling' = handling \ {w}
        /\ UNCHANGED <<bytes, table, lockOf, line>>
  /\ UNCHANGED <<phase, running, first, starts, linkVars, queue, recalls>>

\* The serialised size of what is queued.
Total(events) == SumFunction([i \in DOMAIN events |-> events[i].size])

\* Mutant: the drained messages keep their share of the budget.
MutDrain == queue' = <<>> /\ recalls' = <<>> /\ UNCHANGED bytes

\* What was never taken is dropped and its bytes are given back.
Drain ==
  /\ queue' = <<>> /\ recalls' = <<>>
  /\ bytes' = bytes - Total(queue)

\* Every task has been joined and the session is gone.
StopEnds ==
  /\ phase = "cancelling" /\ link = "off"
  /\ \A w \in alive : w[1] # starts
  /\ phase' = "down"
  /\ Drain
  /\ UNCHANGED <<running, first, starts, alive, linkVars, workVars>>

-----------------------------------------------------------------------------
ReaderStep == \/ \E chat \in Chats, size \in Sizes, wire \in Sizes :
                    ArriveMessage(chat, size, wire)
              \/ \E wire \in Sizes : ArriveRecall(wire)
              \/ Attach \/ LoginAccepted \/ Detach \/ IdentityMismatch

WorkerStep(w) == \/ Take(w) \/ Begin(w) \/ Done(w)
                 \/ TakeRecall(w) \/ RecallDone(w) \/ WorkerEnds(w)

Next == \/ ReaderStep
        \/ \E w \in Workers : WorkerStep(w)
        \/ Start \/ StopBegins \/ StopCancels \/ StopEnds

Spec == Init /\ [][Next]_vars

\* The event loop runs what is runnable, and recall handlers return (they only
\* edit dictionaries).  Nothing is assumed of message handlers.
FairSpec == /\ Spec
            /\ \A w \in Workers : /\ WF_vars(Take(w)) /\ WF_vars(Begin(w))
                                  /\ WF_vars(TakeRecall(w)) /\ WF_vars(RecallDone(w))

-----------------------------------------------------------------------------
(* Properties *)

Taken(chat) == {w \in Workers : w[2] > 0 /\ item[w] # None /\ item[w].chat = chat}

\* The byte budget counts exactly the messages that are queued or being handled,
\* whatever was cancelled, drained or failed: it neither leaks nor goes negative.
BytesExact ==
  bytes = Total(queue)
          + SumFunction([w \in Workers |-> IF item[w] = None THEN 0 ELSE item[w].size])

\* The messages of one chat are handled one at a time and in the order of their
\* arrival, however many workers there are: what the locks of _worker are for.
\* ChatsAreQueues implies it; the proofs need it on its own.
InOrderPerChat ==
  \A chat \in Chats : \A w \in Taken(chat) \cap handling :
    /\ \A v \in Taken(chat) \ {w} : item[w].id < item[v].id
    /\ \A i \in DOMAIN queue : queue[i].chat = chat => item[w].id < queue[i].id

\* Arrivals in the buffer are not decided yet; a message waits in the queue or in the
\* hands of a worker that has not called the handler.
Decided == IF preauth = <<>> THEN arrived ELSE preauth[1].id - 1
Messages(ws) == {item[w] : w \in {v \in ws : v[2] > 0 /\ item[v] # None}}
Fifo == INSTANCE ChatFifo WITH decided <- Decided,
                               waiting <- ToSet(queue) \cup Messages(Workers \ handling),
                               busy <- Messages(handling)

\* Seen from outside, each chat is a queue with losses (_worker, _enqueue, stop): a
\* message is handled at most once, alone in its chat, and after every earlier one of
\* the chat that is handled at all, through buffering, cancellation, reconnection and
\* restart.
ChatsAreQueues == Fifo!Spec

\* The lock table holds a chat exactly as long as some worker uses its lock, and
\* all of them use the same one: it does not grow with the chats ever seen.
LocksInUse ==
  \A chat \in Chats :
    /\ table[chat].count = Cardinality(Taken(chat))
    /\ \A w \in Taken(chat) : lockOf[w] = table[chat].lock

\* No handler sees an event of a session whose account was not verified.
OnlyAuthenticated ==
  /\ \A w \in Workers : item[w] # None => item[w].session \in authed
  /\ \A i \in DOMAIN queue : queue[i].session \in authed
  /\ \A i \in DOMAIN recalls : recalls[i].session \in authed

\* The state is well-formed: typed and within the bounds of the queues, the lock
\* table is in step with the workers, and nothing of an unverified session is near a
\* handler.
Consistent == TypeOK /\ LocksInUse /\ OnlyAuthenticated

\* A recall is handled although message handlers never return: it can overtake
\* the work it must invalidate.
RecallsDoNotWait == recalls # <<>> /\ phase = "up" ~> recalls = <<>> \/ phase # "up"

\* If message handlers return, every admitted message is handled, unless stopped.
MessagesAreHandled ==
  (\A w \in Workers : []<>(w \notin handling)) =>
    \A i \in 1..MaxEvents :
      (\E k \in DOMAIN queue : queue[k].id = i) ~>
        ((\E w \in handling : item[w].id = i) \/ phase # "up")

\* "At most event_workers in parallel across chats."
AtMostEventWorkers == Cardinality({w \in handling : w[2] > 0}) <= EventWorkers
=============================================================================
