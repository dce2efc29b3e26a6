--------------------------- MODULE MediaReferences ---------------------------
(***************************************************************************)
(* The short-lived media handles of media_refs.py: who may still be handed *)
(* a locator of an attachment, after expiry, recall and overflow.          *)
(*                                                                         *)
(* An attachment is a message with a node path; a message carries at most  *)
(* one per path (per_message = 1).  A handle is a random identifier of the *)
(* code and here the number of its issue, which is also its place in the   *)
(* ordered dictionary.  QQ stamps a message on its own clock, Skew ticks   *)
(* ahead of the host's, and what it stamped arrives later than it was      *)
(* sent.  Entries made in one tick are evicted in any order.               *)
(***************************************************************************)
EXTENDS Integers, FiniteSets

CONSTANTS
  Messages, Attachments,
  MessageOf,      \* the message of each attachment
  Locators,       \* usable file identifiers or URLs; 0 is an unusable one
  Ttl, MaxEntries, Ahead,
  Skew,           \* how far the clock of QQ is ahead
  MaxTime, MaxIds \* bounds of the model

ASSUME HandleAssumption ==
  /\ MessageOf \in [Attachments -> Messages]
  /\ 0 \notin Locators
  /\ Ttl \in Nat \ {0} /\ MaxEntries \in Nat \ {0}
  /\ Ahead \in Nat /\ Skew \in 0..Ahead
  /\ MaxTime \in Nat /\ MaxIds \in Nat

Ids == 1..MaxIds
NoItem == [stamp |-> 0]
Item == [att : Attachments, stamp : Nat \ {0}, locator : Locators]

VARIABLES
  now,        \* time.time() of the host
  stampOf,    \* QQ's time stamp of each message, 0 before it is sent
  items,      \* _items (and _keys): the handles issued
  lastId,
  seenStamp, seenAt,      \* _seen: first accepted stamp, and when it was entered
  tombExpiry, tombAt,     \* _recalled: expiry of the tombstone, and its first entry
  floor,      \* _history_floor
  withdrawn   \* messages recalled since the adapter connected (for the properties)

refVars == <<now, stampOf, items, lastId, seenStamp, seenAt, tombExpiry, tombAt,
             floor, withdrawn>>

RefInit ==
  /\ now = 1
  /\ stampOf = [m \in Messages |-> 0]
  /\ items = [i \in Ids |-> NoItem] /\ lastId = 0
  /\ seenStamp = [m \in Messages |-> 0] /\ seenAt = [m \in Messages |-> 0]
  /\ tombExpiry = [m \in Messages |-> 0] /\ tombAt = [m \in Messages |-> 0]
  /\ floor = 0
  /\ withdrawn = {}

-----------------------------------------------------------------------------
Held(table) == {i \in Ids : table[i] # NoItem}

\* What _prune leaves of the handles and of the tombstones.
Unexpired == [i \in Ids |-> IF items[i] # NoItem /\ items[i].stamp + Ttl > now
                            THEN items[i] ELSE NoItem]
LiveTombs == [m \in Messages |-> IF tombExpiry[m] > now THEN tombExpiry[m] ELSE 0]

IsRecalled(m) == tombExpiry[m] > now

\* The entry an overflowing ordered dictionary gives up: the oldest one present.
IsOldest(m, table, at) == /\ table[m] # 0
                          /\ \A n \in Messages : table[n] # 0 => at[m] <= at[n]
Overflows(table) == Cardinality({m \in Messages : table[m] # 0}) > MaxEntries

\* At most MaxEntries handles survive, the latest ones.
Newest(table) ==
  [i \in Ids |-> IF Cardinality({j \in Held(table) : j >= i}) <= MaxEntries
                 THEN table[i] ELSE NoItem]

Arrived(m) == stampOf[m] # 0 /\ stampOf[m] - Skew < now
Clamped(m) == IF stampOf[m] < now THEN stampOf[m] ELSE now

\* The time stamp under which remember() would file the message: the first one it
\* accepted for it, or the one it carries.
FiledStamp(m) == IF seenStamp[m] # 0 THEN seenStamp[m] ELSE Clamped(m)

\* Mutant: the floor is not consulted.
MutAcceptable(m) ==
  /\ stampOf[m] <= now + Ahead
  /\ Clamped(m) + Ttl > now
  /\ ~IsRecalled(m)
  /\ FiledStamp(m) + Ttl > now

Acceptable(m) ==
  /\ stampOf[m] <= now + Ahead
  /\ Clamped(m) + Ttl > now
  /\ Clamped(m) >= floor
  /\ ~IsRecalled(m)
  /\ FiledStamp(m) + Ttl > now

\* An event, a history row, a quote or a forward node brings attachment a: a known
\* one is brought up to date, a new one with a usable locator gets a handle.
File(a, l) ==
  LET known == {i \in Held(Unexpired) : Unexpired[i].att = a}
  IN  \/ /\ known # {}
         /\ items' = [i \in Ids |->
              IF i \notin known \/ l = 0 \/ Unexpired[i].locator = l THEN Unexpired[i]
              ELSE [Unexpired[i] EXCEPT !.locator = l]]
         /\ UNCHANGED lastId
      \/ /\ known = {} /\ l = 0
         /\ items' = Unexpired
         /\ UNCHANGED lastId
      \/ /\ known = {} /\ l # 0 /\ lastId < MaxIds
         /\ lastId' = lastId + 1
         /\ items' = Newest([Unexpired EXCEPT ![lastId + 1] =
              [att |-> a, stamp |-> FiledStamp(MessageOf[a]), locator |-> l]])

NoteSeen(m) ==
  \/ /\ seenStamp[m] # 0
     /\ UNCHANGED <<seenStamp, seenAt, floor>>
  \/ /\ seenStamp[m] = 0
     /\ seenAt' = [seenAt EXCEPT ![m] = now]
     /\ LET entered == [seenStamp EXCEPT ![m] = Clamped(m)]
        IN  \/ /\ ~Overflows(entered)
               /\ seenStamp' = entered
               /\ UNCHANGED floor
            \/ /\ Overflows(entered)
               /\ \E old \in Messages \ {m} :
                    /\ IsOldest(old, seenStamp, seenAt)
                    /\ seenStamp' = [entered EXCEPT ![old] = 0]
               /\ floor' = IF now - Ttl > floor THEN now - Ttl ELSE floor

Remember(a, l) ==
  /\ Arrived(MessageOf[a])
  /\ tombExpiry' = LiveTombs
  /\ \/ /\ Acceptable(MessageOf[a])
        /\ NoteSeen(MessageOf[a])
        /\ File(a, l)
     \/ /\ ~Acceptable(MessageOf[a])
        /\ items' = Unexpired
        /\ UNCHANGED <<seenStamp, seenAt, floor, lastId>>
  /\ UNCHANGED <<now, stampOf, tombAt, withdrawn>>

\* get(), for_message() and recent() prune before they look; a handle gives access
\* while it is in force and its message is not recalled.
Get ==
  /\ items' = Unexpired /\ tombExpiry' = LiveTombs
  /\ UNCHANGED <<now, stampOf, lastId, seenStamp, seenAt, tombAt, floor, withdrawn>>

Access(i) == /\ i \in Held(Unexpired)
             /\ ~IsRecalled(MessageOf[items[i].att])

Without(table, m) ==
  [i \in Ids |-> IF table[i] # NoItem /\ MessageOf[table[i].att] = m
                 THEN NoItem ELSE table[i]]

\* A recall notice: the handles of the message go, a tombstone stays; when there
\* are too many of them the oldest goes and the floor rises to the present.
Recall(m) ==
  /\ Arrived(m)
  /\ withdrawn' = withdrawn \cup {m}
  /\ items' = Without(Unexpired, m)
  /\ tombAt' = [n \in Messages |-> IF LiveTombs[n] # 0 THEN tombAt[n]
                                  ELSE IF n = m THEN now ELSE 0]
  /\ LET entered == [LiveTombs EXCEPT ![m] = now + Ttl]
     IN  \/ /\ ~Overflows(entered)
            /\ tombExpiry' = entered
            /\ UNCHANGED floor
         \/ /\ Overflows(entered)
            /\ \E old \in Messages \ {m} :
                 /\ IsOldest(old, LiveTombs, tombAt)
                 /\ tombExpiry' = [entered EXCEPT ![old] = 0]
            /\ floor' = now
  /\ UNCHANGED <<now, stampOf, lastId, seenStamp, seenAt>>

\* The adapter disconnects: the handles go, and with them all knowledge of what was
\* recalled before.
Clear ==
  /\ withdrawn' = {}
  /\ items' = [i \in Ids |-> NoItem]
  /\ seenStamp' = [m \in Messages |-> 0]
  /\ tombExpiry' = [m \in Messages |-> 0]
  /\ floor' = 0
  /\ UNCHANGED <<now, stampOf, lastId, seenAt, tombAt>>

-----------------------------------------------------------------------------
(* The environment: QQ and the clock *)

SendMessage(m) ==
  /\ stampOf[m] = 0
  /\ stampOf' = [stampOf EXCEPT ![m] = now + Skew]
  /\ UNCHANGED <<now, items, lastId, seenStamp, seenAt, tombExpiry, tombAt, floor, withdrawn>>

Tick ==
  /\ now < MaxTime
  /\ now' = now + 1
  /\ UNCHANGED <<stampOf, items, lastId, seenStamp, seenAt, tombExpiry, tombAt, floor, withdrawn>>

RefNext ==
  \/ \E m \in Messages : SendMessage(m) \/ Recall(m)
  \/ \E a \in Attachments, l \in Locators \cup {0} : Remember(a, l)
  \/ Get
  \/ Clear
  \/ Tick

RefSpec == RefInit /\ [][RefNext]_refVars

-----------------------------------------------------------------------------
(* Properties *)

RefTypeOK ==
  /\ now \in Nat \ {0} /\ floor \in Nat
  /\ stampOf \in [Messages -> Nat]
  /\ items \in [Ids -> Item \cup {NoItem}]
  /\ lastId \in 0..MaxIds
  /\ seenStamp \in [Messages -> Nat] /\ seenAt \in [Messages -> Nat]
  /\ tombExpiry \in [Messages -> Nat] /\ tombAt \in [Messages -> Nat]
  /\ withdrawn \subseteq Messages

\* A recalled message never gets a handle again: not when its tombstone expires,
\* not when it is evicted, not when the message itself was evicted from _seen
\* (media_refs.py: "Overflow may reduce history availability, but must not
\* resurrect an old recall").
RecallIsFinal ==
  \A i \in Held(items) : MessageOf[items[i].att] \notin withdrawn
=============================================================================
