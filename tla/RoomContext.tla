------------------------------ MODULE RoomContext ------------------------------
(***************************************************************************)
(* What the adapter keeps of one group (context.py, RecentIDs of           *)
(* policy.py): the newest messages of a time window, which come from live  *)
(* events and from history that NapCat is asked for, and the tombstones of *)
(* recalled ones.  Messages are told apart by their ID; QQ stamps each     *)
(* with the time of its sending, which is never ahead of the local clock.  *)
(***************************************************************************)
EXTENDS Queues, Integers, FiniteSets, SequencesExt

CONSTANTS
  Messages,
  Window,      \* history_window_seconds, also the life of a tombstone; where a
               \* reader asks the media references too, the smaller of both lives
  Buffer,      \* live_buffer_messages
  Capacity,    \* dedup_capacity, of the tombstones; the smaller of both likewise
  MaxTime      \* bound: the clock

ASSUME ContextAssumption == {Window, Buffer, Capacity, MaxTime} \subseteq Nat \ {0}

VARIABLES
  now,
  sent,       \* time at which QQ stamped a message, 0 before it is sent
  room,       \* room.messages in their order
  recalled,   \* the tombstones, oldest first
  recalls     \* history: every recall that the adapter was told of

contextVars == <<now, sent, room, recalled, recalls>>

ContextInit ==
  /\ now = 1 /\ sent = [m \in Messages |-> 0]
  /\ room = <<>>
  /\ recalled = <<>> /\ recalls = <<>>

-----------------------------------------------------------------------------
Newest(s, n) == SubSeq(s, IF Len(s) > n THEN Len(s) - n + 1 ELSE 1, Len(s))

\* RecentIDs.contains() and add().
IsRecalled(m) == \E i \in DOMAIN recalled : recalled[i].id = m /\ now < recalled[i].until
Bury(m) == Newest(Append(Kept(recalled, {e \in ToSet(recalled) : e.id # m}),
                       [id |-> m, until |-> now + Window]), Capacity)

\* The cutoff of put() and room().
Recent(m) == sent[m] >= now - Window
Pruned(s) == Kept(s, {m \in Messages : Recent(m)})

\* Equal stamps keep the order in which they came.
Insert(m, s) == Append(Kept(s, {k \in Messages : sent[k] <= sent[m]}), m)
                  \o Kept(s, {k \in Messages : sent[k] > sent[m]})

\* Mutant: a message that is there already is stored again.
MutStoredTwice(s, m) ==
  IF IsRecalled(m) \/ ~Recent(m) THEN s ELSE Newest(Insert(m, Pruned(s)), Buffer)

\* Mutant: the last to come is kept, not the newest.
MutStoredLast(s, m) ==
  IF IsRecalled(m) \/ ~Recent(m) \/ Contains(Pruned(s), m) THEN s
  ELSE Newest(Append(Pruned(s), m), Buffer)

\* put(): the room with the message in its place, unless it is recalled, too old or
\* there already; the newest by their stamps are kept, not the last to come.
Stored(s, m) ==
  IF IsRecalled(m) \/ ~Recent(m) THEN s
  ELSE IF Contains(Pruned(s), m) THEN Pruned(s)
       ELSE Newest(Insert(m, Pruned(s)), Buffer)

\* put(history=True) of the messages of a page, one after the other.
Filled(page) ==
  LET filled[n \in 0..Len(page)] ==
        IF n = 0 THEN room ELSE Stored(filled[n - 1], page[n])
  IN  filled[Len(page)]

Backfill(page) ==
  /\ room' = Filled(page)
  /\ UNCHANGED <<now, sent, recalled, recalls>>

\* lookup().
Known(m) == ~IsRecalled(m) /\ Contains(Pruned(room), m)

-----------------------------------------------------------------------------
Send(m) ==
  /\ sent[m] = 0
  /\ sent' = [sent EXCEPT ![m] = now]
  /\ UNCHANGED <<now, room, recalled, recalls>>

\* A message event, perhaps late or never.
Observe(m) ==
  /\ sent[m] # 0 /\ ~Contains(room, m)
  /\ room' = Stored(room, m)
  /\ UNCHANGED <<now, sent, recalled, recalls>>

\* recall(): the notice of a recall; the message may not have been seen yet.
Recall(m) ==
  /\ sent[m] # 0 /\ \A i \in DOMAIN recalls : recalls[i].id # m
  /\ recalled' = Bury(m)
  /\ room' = Kept(Pruned(room), Messages \ {m})
  /\ recalls' = Append(recalls, [id |-> m, at |-> now])
  /\ UNCHANGED <<now, sent>>

Tick == /\ now < MaxTime
        /\ now' = now + 1
        /\ UNCHANGED <<sent, room, recalled, recalls>>

ContextNext == (\E m \in Messages : Send(m) \/ Observe(m) \/ Recall(m)) \/ Tick

-----------------------------------------------------------------------------
ContextTypeOK ==
  /\ now \in 1..MaxTime /\ sent \in [Messages -> 0..MaxTime]
  /\ room \in Seq(Messages) /\ IsInjective(room) /\ Len(room) <= Buffer
  /\ recalled \in Seq([id : Messages, until : Nat]) /\ Len(recalled) <= Capacity
  /\ recalls \in Seq([id : Messages, at : 1..MaxTime])

\* A recall binds for the window, unless Capacity later ones have pushed it out.
InForce(m) ==
  \E i \in DOMAIN recalls : /\ recalls[i].id = m /\ now < recalls[i].at + Window
                            /\ Len(recalls) - i < Capacity

\* A message leaves the room only because it is recalled, because it is out of the
\* window, or because the room is full of messages that are no older, however late
\* and in whatever order live events and pages of history came.
NewestKept ==
  [][\A m \in ToSet(room) \ ToSet(room') :
       \/ \E i \in DOMAIN recalls' : recalls'[i].id = m
       \/ ~Recent(m)
       \/ /\ Len(room') = Buffer
          /\ \A k \in ToSet(room') : sent[k] >= sent[m]]_contextVars
=============================================================================
