-------------------------- MODULE MediaReadsProofs --------------------------
(***************************************************************************)
(* Theorems about the handles of media (MediaReferences), the store        *)
(* (MediaStore) and the reads that use both (MediaReads), for any messages *)
(* and attachments, any readers and threads, every lifetime and every      *)
(* capacity.                                                               *)
(***************************************************************************)
EXTENDS MediaReads, DataFacts

-----------------------------------------------------------------------------
(* The handles *)

\* What keeps a recalled message out: it is older than the recall, and then its
\* tombstone outlives it, or the floor passed it, or it has expired.
Barred(m) ==
  /\ stampOf[m] # 0 /\ stampOf[m] < now
  /\ \/ tombExpiry[m] > stampOf[m] + Ttl
     \/ floor > stampOf[m]
     \/ stampOf[m] + Ttl <= now

Times == /\ now \in Nat \ {0} /\ floor \in Nat /\ floor <= now
         /\ stampOf \in [Messages -> Nat] /\ tombExpiry \in [Messages -> Nat]
         /\ seenStamp \in [Messages -> Nat]
         /\ withdrawn \subseteq Messages
Entries == seenAt \in [Messages -> Nat] /\ tombAt \in [Messages -> Nat]
Handles == /\ items \in [Ids -> Item \cup {NoItem}] /\ lastId \in 0..MaxIds
           /\ \A i \in Held(items) : i <= lastId
RefTypes == Times /\ Entries /\ Handles

\* A step issues a handle under a new number, or none, and moves no other to another
\* attachment.
Issued == /\ lastId <= lastId'
          /\ \A i \in Held(items') : i <= lastId => /\ i \in Held(items)
                                                  /\ items'[i].att = items[i].att

RecallInv == /\ RefTypes
             /\ \A m \in withdrawn : Barred(m)
             /\ RecallIsFinal

USE HandleAssumption

\* A recalled message is not accepted.
LEMMA BarredRefused ==
  ASSUME Times, NEW m \in Messages, Barred(m) PROVE ~Acceptable(m)
  BY DEF Times, Barred, Acceptable, Clamped, IsRecalled

\* Pruning keeps the type of the handles and adds none.
LEMMA PrunedHandles ==
  ASSUME Handles PROVE
    /\ Unexpired \in [Ids -> Item \cup {NoItem}]
    /\ \A i \in Ids : Unexpired[i] \in {items[i], NoItem}
  BY DEF Handles, Unexpired

\* Pruning, with what recalls and disconnections take away, issues nothing.
LEMMA Fewer ==
  ASSUME Handles, lastId' = lastId, items' \in [Ids -> Item \cup {NoItem}],
         \A i \in Ids : items'[i] \in {items[i], NoItem}
  PROVE  Handles' /\ Issued
  BY DEF Handles, Issued, Held, Ids

\* Filing attachment a under an accepted stamp: a handle afterwards is a former one of
\* the same attachment, or the new one of a.
LEMMA FiledHandles ==
  ASSUME Handles, NEW a \in Attachments, NEW l \in Locators \cup {0}, File(a, l),
         FiledStamp(MessageOf[a]) \in Nat \ {0}
  PROVE  /\ Handles' /\ Issued
         /\ \A i \in Held(items') : items'[i].att = a \/
              (i \in Held(items) /\ items'[i].att = items[i].att)
<1>1. /\ Unexpired \in [Ids -> Item \cup {NoItem}]
      /\ \A i \in Ids : Unexpired[i] \in {items[i], NoItem}
  BY PrunedHandles
<1>2. /\ lastId \in 0..MaxIds /\ items \in [Ids -> Item \cup {NoItem}]
      /\ \A i \in Held(items) : i <= lastId
  BY DEF Handles
<1> DEFINE known == {i \in Held(Unexpired) : Unexpired[i].att = a}
<1>3. CASE known # {}
  <2>1. items' = [i \in Ids |->
              IF i \notin known \/ l = 0 \/ Unexpired[i].locator = l THEN Unexpired[i]
              ELSE [Unexpired[i] EXCEPT !.locator = l]] /\ lastId' = lastId
    BY <1>3 DEF File
  <2>2. ASSUME NEW i \in Ids
        PROVE  /\ items'[i] \in Item \cup {NoItem}
               /\ items'[i] # NoItem => /\ Unexpired[i] # NoItem
                                        /\ items'[i].att = Unexpired[i].att
    <3>1. CASE items'[i] = Unexpired[i]
      BY <3>1, <1>1
    <3>2. CASE items'[i] # Unexpired[i]
      <4>1. i \in known /\ l # 0 /\ items'[i] = [Unexpired[i] EXCEPT !.locator = l]
        BY <3>2, <2>1
      <4>2. Unexpired[i] \in Item BY <4>1, <1>1 DEF Held
      <4>3. l \in Locators BY <4>1
      <4> QED BY <4>1, <4>2, <4>3 DEF Item, Held
    <3> QED BY <3>1, <3>2
  <2>3. \A i \in Held(items') : i \in Held(items) /\ items'[i].att = items[i].att
    BY <2>2, <1>1 DEF Held
  <2>4. Handles' BY <2>1, <2>2, <2>3, <1>2 DEF Handles, Held
  <2>5. Issued BY <2>1, <2>3, <1>2 DEF Issued
  <2> QED BY <2>3, <2>4, <2>5
<1>4. CASE known = {} /\ l = 0
  <2>1. items' = Unexpired /\ lastId' = lastId BY <1>4 DEF File
  <2>2. Handles' /\ Issued BY <2>1, <1>1, Fewer
  <2> QED BY <2>1, <2>2, <1>1 DEF Held
<1>5. CASE known = {} /\ l # 0
  <2> DEFINE new == [att |-> a, stamp |-> FiledStamp(MessageOf[a]), locator |-> l]
  <2> DEFINE all == [Unexpired EXCEPT ![lastId + 1] = new]
  <2>1. lastId < MaxIds /\ lastId' = lastId + 1 /\ items' = Newest(all)
    BY <1>5 DEF File
  <2>2. new \in Item /\ new.att = a BY <1>5 DEF Item
  <2>3. lastId + 1 \in Ids /\ lastId' \in 0..MaxIds /\ lastId \in Nat BY <2>1, <1>2 DEF Ids
  <2>4. all \in [Ids -> Item \cup {NoItem}] /\ all[lastId + 1] = new
        /\ \A i \in Ids : i # lastId + 1 => all[i] = Unexpired[i]
    BY <2>2, <2>3, <1>1
  <2>5. items' \in [Ids -> Item \cup {NoItem}] /\ \A i \in Ids : items'[i] \in {all[i], NoItem}
    BY <2>1, <2>4 DEF Newest
  <2> HIDE DEF new, all
  <2>6. \A i \in Ids : items'[i] # NoItem =>
          \/ i = lastId + 1 /\ items'[i] = new
          \/ i # lastId + 1 /\ items'[i] = items[i]
    BY <2>4, <2>5, <1>1
  <2>7. \A i \in Ids : i \in Nat BY DEF Ids
  <2>8. Handles' BY <2>1, <2>3, <2>5, <2>6, <2>7, <1>2 DEF Handles, Held
  <2>9. Issued BY <2>1, <2>3, <2>6, <2>7 DEF Issued, Held
  <2> QED BY <2>2, <2>6, <2>8, <2>9 DEF Held
<1> QED BY <1>3, <1>4, <1>5

-----------------------------------------------------------------------------
(* Every step of the handles keeps their types *)

LEMMA GetTypes == ASSUME RefTypes, Get PROVE RefTypes' /\ Issued
<1>1. Times' /\ Entries' BY DEF RefTypes, Get, Times, Entries, LiveTombs
<1>2. Handles' /\ Issued BY PrunedHandles, Fewer DEF RefTypes, Get
<1> QED BY <1>1, <1>2 DEF RefTypes

\* An event, a history row or a refreshed message.
LEMMA RememberTypes ==
  ASSUME RefTypes, NEW a \in Attachments, NEW l \in Locators \cup {0}, Remember(a, l)
  PROVE  RefTypes' /\ Issued /\ floor' >= floor
<1> DEFINE m == MessageOf[a]
<1>1. m \in Messages /\ Times /\ Entries /\ Handles BY DEF RefTypes
<1>2. /\ tombExpiry' = LiveTombs
      /\ UNCHANGED <<now, stampOf, tombAt, withdrawn>>
  BY DEF Remember
<1>3. floor' \in Nat /\ floor' <= now /\ floor' >= floor
  <2>1. CASE floor' = floor BY <2>1, <1>1 DEF Times
  <2>2. CASE floor' = IF now - Ttl > floor THEN now - Ttl ELSE floor BY <2>2, <1>1 DEF Times
  <2> QED BY <2>1, <2>2 DEF Remember, NoteSeen
<1>4. seenStamp' \in [Messages -> Nat] /\ seenAt' \in [Messages -> Nat]
  <2>1. CASE seenStamp' = seenStamp /\ seenAt' = seenAt
    BY <2>1, <1>1 DEF Times, Entries
  <2>2. CASE NoteSeen(m)
    <3> DEFINE entered == [seenStamp EXCEPT ![m] = Clamped(m)]
    <3>1. entered \in [Messages -> Nat] BY <1>1 DEF Times, Clamped
    <3>2. seenStamp' = seenStamp \/ seenStamp' = entered \/
          (\E old \in Messages : seenStamp' = [entered EXCEPT ![old] = 0])
      BY <2>2 DEF NoteSeen
    <3>3. seenAt' = seenAt \/ seenAt' = [seenAt EXCEPT ![m] = now] BY <2>2 DEF NoteSeen
    <3>4. seenAt' \in [Messages -> Nat] BY <3>3, <1>1 DEF Times, Entries
    <3> HIDE DEF entered
    <3> QED BY <3>1, <3>2, <3>4, <1>1 DEF Times
  <2> QED BY <2>1, <2>2 DEF Remember
<1>5. Times' /\ Entries'
  BY <1>1, <1>2, <1>3, <1>4 DEF Times, Entries, LiveTombs
<1>6. CASE ~Acceptable(m)
  <2>1. items' = Unexpired /\ lastId' = lastId BY <1>6 DEF Remember
  <2>2. Handles' /\ Issued BY <2>1, <1>1, PrunedHandles, Fewer
  <2> QED BY <1>3, <1>5, <2>2 DEF RefTypes
<1>7. CASE Acceptable(m)
  <2>1. File(a, l) BY <1>7 DEF Remember
  <2>2. FiledStamp(m) \in Nat \ {0}
    BY <1>1 DEF Remember, Arrived, FiledStamp, Clamped, Times
  <2>3. Handles' /\ Issued BY <1>1, <2>1, <2>2, FiledHandles
  <2> QED BY <1>3, <1>5, <2>3 DEF RefTypes
<1> QED BY <1>6, <1>7

LEMMA RecallTypes ==
  ASSUME RefTypes, NEW m \in Messages, Recall(m) PROVE RefTypes' /\ Issued
<1> DEFINE entered == [LiveTombs EXCEPT ![m] = now + Ttl]
<1>1. Times /\ Entries /\ Handles BY DEF RefTypes
<1>2. /\ withdrawn' = withdrawn \cup {m} /\ items' = Without(Unexpired, m)
      /\ UNCHANGED <<now, stampOf, lastId, seenStamp, seenAt>>
  BY DEF Recall
<1>3. entered \in [Messages -> Nat] BY <1>1 DEF Times, LiveTombs
<1>4. \/ tombExpiry' = entered /\ floor' = floor
      \/ \E old \in Messages \ {m} : tombExpiry' = [entered EXCEPT ![old] = 0] /\ floor' = now
  BY DEF Recall
<1>5. Times'
  <2>1. tombExpiry' \in [Messages -> Nat] BY <1>3, <1>4
  <2>2. floor' \in Nat /\ floor' <= now BY <1>1, <1>4 DEF Times
  <2> QED BY <1>1, <1>2, <2>1, <2>2 DEF Times
<1>6. Entries' BY <1>1, <1>2 DEF Recall, Entries, Times
<1>7. Handles' /\ Issued
  <2>1. items' \in [Ids -> Item \cup {NoItem}] /\ \A i \in Ids : items'[i] \in {items[i], NoItem}
    BY <1>1, <1>2, PrunedHandles DEF Without
  <2> QED BY <1>1, <1>2, <2>1, Fewer
<1> QED BY <1>5, <1>6, <1>7 DEF RefTypes

LEMMA ClockTypes ==
  ASSUME RefTypes, Tick \/ (\E m \in Messages : SendMessage(m)) PROVE RefTypes' /\ Issued
<1>1. Times /\ Entries /\ Handles BY DEF RefTypes
<1>2. UNCHANGED <<items, lastId, seenStamp, seenAt, tombExpiry, tombAt, floor, withdrawn>>
  BY DEF Tick, SendMessage
<1>3. now' = now + 1 \/ now' = now BY DEF Tick, SendMessage
<1>4. stampOf' \in [Messages -> Nat] BY <1>1 DEF Tick, SendMessage, Times
<1>5. Times' /\ Entries' BY <1>1, <1>2, <1>3, <1>4 DEF Times, Entries
<1>6. Handles' /\ Issued BY <1>1, <1>2 DEF Handles, Issued, Held
<1> QED BY <1>5, <1>6 DEF RefTypes

LEMMA ClearTypes == ASSUME RefTypes, Clear PROVE RefTypes' /\ Issued
<1>1. Times' /\ Entries' BY DEF RefTypes, Clear, Times, Entries
<1>2. items' \in [Ids -> Item \cup {NoItem}] /\ \A i \in Ids : items'[i] \in {items[i], NoItem}
  BY DEF Clear
<1> QED BY <1>1, <1>2, Fewer DEF RefTypes, Clear

LEMMA RefStepTypes == ASSUME RefTypes, [RefNext]_refVars PROVE RefTypes' /\ Issued
<1>1. ASSUME NEW m \in Messages, Recall(m) PROVE RefTypes' /\ Issued BY <1>1, RecallTypes
<1>2. ASSUME NEW a \in Attachments, NEW l \in Locators \cup {0}, Remember(a, l)
      PROVE RefTypes' /\ Issued
  BY <1>2, RememberTypes
<1>3. CASE Tick \/ (\E m \in Messages : SendMessage(m)) BY <1>3, ClockTypes
<1>4. CASE UNCHANGED refVars
  <2>1. UNCHANGED <<now, stampOf, items, lastId, seenStamp, seenAt, tombExpiry, tombAt, floor, withdrawn>>
    BY <1>4 DEF refVars
  <2>2. (RefTypes <=> RefTypes') /\ Held(items') = Held(items)
    BY <2>1 DEF RefTypes, Times, Entries, Handles, Held
  <2>3. lastId \in Nat BY DEF RefTypes, Handles
  <2> QED BY <2>1, <2>2, <2>3 DEF Issued
<1> QED BY <1>1, <1>2, <1>3, <1>4, GetTypes, ClearTypes DEF RefNext

LEMMA RefInitTypes == RefInit => RefTypes
  BY DEF RefInit, RefTypes, Times, Entries, Handles, Held

-----------------------------------------------------------------------------
(* Every step keeps recalled messages without a handle *)

\* Only SendMessage, Tick, Remember, Recall and Clear touch what bars a message.
LEMMA BarredStays ==
  ASSUME Times, NEW m \in withdrawn, Barred(m),
         now' \in Nat, now' >= now, floor' \in Nat, floor' >= floor, stampOf' = stampOf,
         tombExpiry'[m] = tombExpiry[m] \/ (tombExpiry'[m] = 0 /\ tombExpiry[m] <= now)
  PROVE  Barred(m)'
  BY DEF Times, Barred

\* Pruning alone.
LEMMA GetKeeps == ASSUME RecallInv, Get PROVE RecallInv'
<1>1. RefTypes' BY GetTypes DEF RecallInv
<1>2. ASSUME NEW m \in withdrawn PROVE Barred(m)'
  <2>1. Barred(m) /\ Times /\ m \in Messages BY DEF RecallInv, RefTypes, Times
  <2>2. tombExpiry'[m] = tombExpiry[m] \/ (tombExpiry'[m] = 0 /\ tombExpiry[m] <= now)
    BY <2>1 DEF Get, LiveTombs, Times
  <2> QED BY <2>1, <2>2, BarredStays DEF Get, Times
<1>3. RecallIsFinal'
  BY PrunedHandles DEF RecallInv, RefTypes, Get, RecallIsFinal, Held
<1> QED BY <1>1, <1>2, <1>3 DEF RecallInv, Get

\* A message that is filed was not recalled.
LEMMA RememberKeeps ==
  ASSUME RecallInv, NEW a \in Attachments, NEW l \in Locators \cup {0}, Remember(a, l)
  PROVE  RecallInv'
<1> DEFINE m == MessageOf[a]
<1>1. m \in Messages /\ RefTypes /\ Times /\ Handles BY DEF RecallInv, RefTypes
<1>2. /\ tombExpiry' = LiveTombs
      /\ UNCHANGED <<now, stampOf, tombAt, withdrawn>>
  BY DEF Remember
<1>3. RefTypes' /\ floor' \in Nat /\ floor' >= floor
  BY <1>1, RememberTypes DEF RefTypes, Times
<1>4. ASSUME NEW n \in withdrawn PROVE Barred(n)'
  <2>1. Barred(n) /\ n \in Messages BY <1>1 DEF RecallInv, Times
  <2>2. tombExpiry'[n] = tombExpiry[n] \/ (tombExpiry'[n] = 0 /\ tombExpiry[n] <= now)
    BY <1>1, <1>2, <2>1 DEF LiveTombs, Times
  <2> QED BY <1>1, <1>2, <1>3, <2>1, <2>2, BarredStays DEF Times
<1>5. CASE ~Acceptable(m)
  <2>1. items' = Unexpired BY <1>5 DEF Remember
  <2>2. RecallIsFinal'
    BY <2>1, <1>1, <1>2, PrunedHandles DEF RecallIsFinal, RecallInv, Held
  <2> QED BY <1>2, <1>3, <1>4, <2>2 DEF RecallInv
<1>6. CASE Acceptable(m)
  <2>1. m \notin withdrawn BY <1>1, <1>6, BarredRefused DEF RecallInv
  <2>2. File(a, l) BY <1>6 DEF Remember
  <2>3. FiledStamp(m) \in Nat \ {0}
    BY <1>1 DEF Remember, Arrived, FiledStamp, Clamped, Times
  <2>4. \A i \in Held(items') : items'[i].att = a \/
           (i \in Held(items) /\ items'[i].att = items[i].att)
    BY <1>1, <2>2, <2>3, FiledHandles
  <2>5. RecallIsFinal'
    BY <2>1, <2>4, <1>2 DEF RecallInv, RecallIsFinal
  <2> QED BY <1>2, <1>3, <1>4, <2>5 DEF RecallInv
<1> QED BY <1>5, <1>6

\* A recall notice, for a message whose stamp is not ahead of the host's clock.
LEMMA RecallKeeps ==
  ASSUME Skew = 0, RecallInv, NEW m \in Messages, Recall(m) PROVE RecallInv'
<1> DEFINE entered == [LiveTombs EXCEPT ![m] = now + Ttl]
<1>1. RefTypes /\ Times /\ Handles BY DEF RecallInv, RefTypes
<1>2. /\ stampOf[m] # 0 /\ stampOf[m] < now
      /\ withdrawn' = withdrawn \cup {m} /\ items' = Without(Unexpired, m)
      /\ UNCHANGED <<now, stampOf, lastId, seenStamp, seenAt>>
  BY <1>1 DEF Recall, Arrived, Times
<1>3. entered \in [Messages -> Nat] /\ entered[m] = now + Ttl
  BY <1>1 DEF Times, LiveTombs
<1>4. \/ tombExpiry' = entered /\ floor' = floor
      \/ \E old \in Messages \ {m} : tombExpiry' = [entered EXCEPT ![old] = 0] /\ floor' = now
  BY DEF Recall
<1>5. RefTypes' BY <1>1, RecallTypes
<1>6. ASSUME NEW n \in withdrawn' PROVE Barred(n)'
  <2>1. n \in Messages /\ stampOf[n] \in Nat /\ now \in Nat /\ Ttl \in Nat /\ floor \in Nat
        /\ floor <= now /\ tombExpiry[n] \in Nat
    BY <1>1, <1>2 DEF Times
  <2>2. stampOf[n] # 0 /\ stampOf[n] < now BY <1>2 DEF RecallInv, Barred
  <2>3. CASE floor' = now BY <1>2, <2>1, <2>2, <2>3 DEF Barred
  <2>4. CASE tombExpiry' = entered /\ floor' = floor
    <3>1. CASE n = m BY <1>2, <1>3, <2>1, <2>2, <2>4, <3>1 DEF Barred
    <3>2. CASE n # m
      <4>1. Barred(n) BY <1>2, <3>2 DEF RecallInv
      <4>2. tombExpiry'[n] = tombExpiry[n] \/ (tombExpiry'[n] = 0 /\ tombExpiry[n] <= now)
        BY <2>1, <2>4, <3>2 DEF LiveTombs
      <4> QED BY <1>2, <2>1, <2>4, <4>1, <4>2 DEF Barred
    <3> QED BY <3>1, <3>2
  <2> QED BY <1>4, <2>3, <2>4
<1>7. RecallIsFinal'
  <2>1. \A i \in Ids : items'[i] # NoItem => items'[i] = items[i] /\ MessageOf[items[i].att] # m
    BY <1>1, <1>2, PrunedHandles DEF Without
  <2> QED BY <1>1, <1>2, <2>1 DEF RecallInv, RecallIsFinal, Held
<1> QED BY <1>5, <1>6, <1>7 DEF RecallInv

\* QQ stamps a message it has not stamped before, which therefore was not recalled.
LEMMA SendKeeps ==
  ASSUME Skew = 0, RecallInv, NEW m \in Messages, SendMessage(m) PROVE RecallInv'
<1>1. Times BY DEF RecallInv, RefTypes
<1>2. stampOf[m] = 0 /\ stampOf' = [stampOf EXCEPT ![m] = now]
      /\ UNCHANGED <<now, items, tombExpiry, floor, withdrawn>>
  BY <1>1 DEF SendMessage, Times
<1>3. RefTypes' BY ClockTypes DEF RecallInv
<1>4. ASSUME NEW n \in withdrawn PROVE Barred(n)'
  <2>1. Barred(n) /\ n # m BY <1>2 DEF RecallInv, Barred
  <2>2. stampOf'[n] = stampOf[n] BY <1>1, <1>2, <2>1 DEF Times
  <2> QED BY <1>2, <2>1, <2>2 DEF Barred
<1>5. RecallIsFinal' BY <1>2 DEF RecallInv, RecallIsFinal, Held
<1> QED BY <1>2, <1>3, <1>4, <1>5 DEF RecallInv

LEMMA TickKeeps == ASSUME RecallInv, Tick PROVE RecallInv'
<1>1. Times BY DEF RecallInv, RefTypes
<1>2. now' = now + 1
      /\ UNCHANGED <<stampOf, items, tombExpiry, floor, withdrawn>>
  BY DEF Tick
<1>3. RefTypes' BY ClockTypes DEF RecallInv
<1>4. ASSUME NEW n \in withdrawn PROVE Barred(n)'
  BY <1>1, <1>2 DEF RecallInv, Barred, Times
<1>5. RecallIsFinal' BY <1>2 DEF RecallInv, RecallIsFinal, Held
<1> QED BY <1>2, <1>3, <1>4, <1>5 DEF RecallInv

LEMMA ClearKeeps == ASSUME RecallInv, Clear PROVE RecallInv'
<1>1. RefTypes' /\ withdrawn' = {} BY ClearTypes DEF RecallInv, Clear
<1> QED BY <1>1 DEF RecallInv, RecallIsFinal

LEMMA StartsFinal == RefInit => RecallInv
  BY RefInitTypes DEF RefInit, RecallInv, RecallIsFinal, Held

LEMMA StepsKeepRecall ==
  ASSUME Skew = 0, RecallInv, [RefNext]_refVars PROVE RecallInv'
<1>1. ASSUME NEW m \in Messages, SendMessage(m) PROVE RecallInv' BY <1>1, SendKeeps
<1>2. ASSUME NEW m \in Messages, Recall(m) PROVE RecallInv' BY <1>2, RecallKeeps
<1>3. ASSUME NEW a \in Attachments, NEW l \in Locators \cup {0}, Remember(a, l)
      PROVE RecallInv'
  BY <1>3, RememberKeeps
<1>4. CASE Get BY <1>4, GetKeeps
<1>5. CASE Clear BY <1>5, ClearKeeps
<1>6. CASE Tick BY <1>6, TickKeeps
<1>7. CASE UNCHANGED refVars
  BY <1>7 DEF refVars, RecallInv, RecallIsFinal, RefTypes, Times, Entries, Handles, Held, Barred
<1> QED BY <1>1, <1>2, <1>3, <1>4, <1>5, <1>6, <1>7 DEF RefNext

\* A recalled message never has a handle again, neither after its tombstone expired
\* nor after it was evicted: media_refs.py, recall() and remember(), with clocks that
\* agree.  (With a clock of QQ that is ahead it may: MediaRecallSkew.)
THEOREM RecalledForGood == ASSUME Skew = 0 PROVE RefSpec => []RecallIsFinal
<1>1. RecallInv => RecallIsFinal BY DEF RecallInv
<1>2. RecallInv /\ [RefNext]_refVars => RecallInv' BY StepsKeepRecall
<1> QED BY <1>1, <1>2, StartsFinal, PTL DEF RefSpec

HIDE HandleAssumption

-----------------------------------------------------------------------------
(* The store *)

\* The half-written files.
Parts == {f \in Files : files[f].part}

\* Each is of the transfer or the thread that holds a lock, each of which has one;
\* none is old enough to be pruned.
PartInv ==
  /\ \A f \in Files : ~files[f].part => files[f].by = Nobody
  /\ \A f \in Parts : /\ files[f].by \in {loopLock, threadLock} \ {Nobody}
                      /\ now <= files[f].since + CacheTtl
  /\ \A f, g \in Parts : files[f].by = files[g].by => f = g
  /\ loopLock # Nobody => \E f \in Parts : files[f].by = loopLock
  /\ threadLock # Nobody => \E f \in Parts : files[f].by = threadLock

\* There is room for what the transfer under way may still write.
QuotaInv ==
  /\ reserved = IF loopLock = Nobody THEN 0 ELSE limitOf[loopLock]
  /\ loopLock = Nobody => Bytes(files) <= CacheMax
  /\ \A f \in Parts : files[f].by = loopLock =>
       /\ files[f].size <= limitOf[loopLock]
       /\ Bytes(files) + limitOf[loopLock] - files[f].size <= CacheMax

StoreInv == now \in Nat /\ StoreTypeOK /\ PartInv /\ QuotaInv

FileRecord == [size : Nat, since : Nat, part : BOOLEAN,
               by : Transfers \cup Threads \cup {Nobody}]
Tables == [Files -> FileRecord]

LEMMA StoreFacts ==
  ASSUME StoreInv
  PROVE  /\ files \in Tables /\ now \in Nat /\ reserved \in Nat /\ Parts \subseteq Files
         /\ loopLock \in Transfers \cup {Nobody} /\ threadLock \in Threads \cup {Nobody}
         /\ loopLock # Nobody => loopLock # threadLock /\ limitOf[loopLock] \in Nat
         /\ threadLock # Nobody => loopLock # threadLock
         /\ limitOf \in [Transfers -> Nat]
  BY StoreAssumption DEF StoreInv, StoreTypeOK, Tables, FileRecord, Parts

LEMMA NoFileFacts ==
  /\ NoFile \in FileRecord /\ NoFile.size = 0 /\ ~NoFile.part /\ NoFile.by = Nobody
  /\ Nobody \notin Transfers /\ Nobody \notin Threads /\ Transfers \cap Threads = {}
  /\ CacheTtl \in Nat \ {0} /\ CacheMax \in Nat
  BY StoreAssumption DEF NoFile, FileRecord

LEMMA BytesType == ASSUME NEW t \in Tables PROVE Bytes(t) \in Nat
<1>1. IsFiniteSet(Files) BY StoreAssumption, FS_Interval DEF Files
<1>2. \A f \in Files : [g \in Files |-> t[g].size][f] \in Nat BY DEF Tables, FileRecord
<1> QED BY <1>1, <1>2, SumType DEF Bytes

\* One file changes, and the sum with its size.
LEMMA BytesUpdate ==
  ASSUME NEW t \in Tables, NEW f \in Files, NEW file \in FileRecord
  PROVE  /\ [t EXCEPT ![f] = file] \in Tables
         /\ Bytes([t EXCEPT ![f] = file]) + t[f].size = Bytes(t) + file.size
<1> DEFINE u == [t EXCEPT ![f] = file]
           s == [g \in Files |-> t[g].size]
           v == [g \in Files |-> u[g].size]
<1>1. IsFiniteSet(Files) BY StoreAssumption, FS_Interval DEF Files
<1>2. u \in Tables BY DEF Tables
<1>3. \A g \in Files : s[g] \in Nat /\ v[g] \in Nat BY <1>2 DEF Tables, FileRecord
<1>4. \A g \in Files \ {f} : s[g] = v[g] BY DEF Tables
<1>5. s[f] = t[f].size /\ v[f] = file.size BY DEF Tables
<1> HIDE DEF s, v
<1>6. SumFunctionOnSet(v, Files) + s[f] = SumFunctionOnSet(s, Files) + v[f]
  BY <1>1, <1>3, <1>4, SumUpdate
<1> QED BY <1>2, <1>5, <1>6 DEF Bytes, s, v

\* Pruning removes no half-written file and adds nothing.
LEMMA PrunedStore ==
  ASSUME StoreInv
  PROVE  /\ Recent(now) \in Tables
         /\ \A f \in Files : \/ Recent(now)[f] = files[f]
                             \/ Recent(now)[f] = NoFile /\ ~files[f].part
         /\ Bytes(Recent(now)) \in Nat /\ Bytes(files) \in Nat
         /\ Bytes(Recent(now)) <= Bytes(files)
<1> DEFINE t == Recent(now)
           s == [f \in Files |-> t[f].size]
           v == [f \in Files |-> files[f].size]
<1>1. IsFiniteSet(Files) BY StoreAssumption, FS_Interval DEF Files
<1>2. files \in Tables BY StoreFacts
<1>3. \A f \in Files : t[f] = files[f] \/ (t[f] = NoFile /\ ~files[f].part)
  <2> TAKE f \in Files
  <2>1. t[f] = IF files[f] # NoFile /\ files[f].since + CacheTtl < now THEN NoFile ELSE files[f]
    BY DEF Recent
  <2>2. files[f].part => now <= files[f].since + CacheTtl BY DEF StoreInv, PartInv, Parts
  <2>3. now \in Nat /\ files[f].since \in Nat /\ CacheTtl \in Nat
    BY <1>2, NoFileFacts DEF StoreInv, Tables, FileRecord
  <2> QED BY <2>1, <2>2, <2>3
<1>4. t \in Tables BY <1>2, <1>3, NoFileFacts DEF Recent, Tables
<1>5. \A f \in Files : s[f] \in Nat /\ v[f] \in Nat /\ s[f] <= v[f]
  BY <1>2, <1>3, <1>4, NoFileFacts DEF Tables, FileRecord
<1>6. Bytes(t) \in Nat /\ Bytes(files) \in Nat BY <1>2, <1>4, BytesType
<1>7. SumFunctionOnSet(s, Files) <= SumFunctionOnSet(v, Files)
  <2> HIDE DEF s, v
  <2> QED BY <1>1, <1>5, SumLess
<1>8. Bytes(t) <= Bytes(files) BY <1>7 DEF Bytes
<1> QED BY <1>3, <1>4, <1>6, <1>8

\* A place that is free.
LEMMA FreePlace ==
  ASSUME NEW t \in Tables, Stored(t) # Files
  PROVE  Unused(t) \in Files /\ t[Unused(t)] = NoFile
<1>1. \E f \in Files : t[f] = NoFile BY DEF Stored
<1> QED BY <1>1 DEF Unused

\* The half-written file of who holds a lock.
LEMMA ThePart ==
  ASSUME StoreInv, NEW x, x # Nobody, x \in {loopLock, threadLock}
  PROVE  /\ PartOf(x) \in Parts /\ files[PartOf(x)].by = x
         /\ \A f \in Parts : files[f].by = x => f = PartOf(x)
<1>1. \E f \in Files : files[f].part /\ files[f].by = x BY DEF StoreInv, PartInv, Parts
<1>2. PartOf(x) \in Files /\ files[PartOf(x)].part /\ files[PartOf(x)].by = x
  BY <1>1 DEF PartOf
<1>3. \A f, g \in Parts : files[f].by = files[g].by => f = g BY DEF StoreInv, PartInv
<1> QED BY <1>2, <1>3 DEF Parts

\* What others have written stays as it is.
Untouched(x) == \A f \in Parts' : files'[f].by = x => f \in Parts /\ files'[f] = files[f]

LEMMA AdmitKeeps ==
  ASSUME StoreInv, now' = now, NEW t \in Transfers, NEW limit \in Nat, Admit(t, limit, now)
  PROVE  /\ StoreInv'
         /\ loopLock = Nobody /\ loopLock' = t
         /\ limitOf' = [limitOf EXCEPT ![t] = limit]
         /\ \A f \in Parts' : files'[f].by = t => files'[f].size = 0
<1> DEFINE table == Recent(now)
           new == [size |-> 0, since |-> now, part |-> TRUE, by |-> t]
           p == Unused(table)
<1>1. /\ files \in Tables /\ now \in Nat /\ reserved \in Nat /\ threadLock = Nobody
      /\ loopLock = Nobody /\ reserved = 0 /\ limitOf \in [Transfers -> Nat]
  BY StoreFacts DEF Admit, StoreInv, QuotaInv
<1>2. /\ table \in Tables /\ Bytes(table) \in Nat
      /\ \A f \in Files : table[f] = files[f] \/ (table[f] = NoFile /\ ~files[f].part)
  BY PrunedStore
<1>3. p \in Files /\ table[p] = NoFile BY <1>2, FreePlace DEF Admit
<1>4. new \in FileRecord BY <1>1 DEF FileRecord
<1>5. /\ files' = [table EXCEPT ![p] = new] /\ Bytes(table) + limit <= CacheMax
      /\ reserved' = limit /\ limitOf' = [limitOf EXCEPT ![t] = limit]
      /\ loopLock' = t /\ threadLock' = Nobody
  BY <1>1, <1>2 DEF Admit, Fits
<1>6. Parts = {} BY <1>1 DEF StoreInv, PartInv, Parts
<1>7. \A f \in Files : table[f].part = FALSE /\ table[f].by = Nobody
  BY <1>2, <1>6, NoFileFacts DEF Parts, StoreInv, PartInv, Tables, FileRecord
<1>8. files' \in Tables /\ Bytes(files') + 0 = Bytes(table) + 0
  <2>1. new.size = 0 /\ table[p].size = 0 BY <1>3, NoFileFacts
  <2> HIDE DEF table, new, p
  <2> QED BY <1>2, <1>3, <1>4, <1>5, <2>1, BytesUpdate
<1>9. files'[p] = new /\ \A f \in Files \ {p} : files'[f] = table[f]
  BY <1>2, <1>3, <1>5 DEF Tables
<1>10. Parts' = {p} BY <1>3, <1>7, <1>9 DEF Parts
<1>11. StoreTypeOK'
  <2>1. limitOf' \in [Transfers -> Nat] BY <1>1, <1>5
  <2>2. files' \in Tables BY <1>8
  <2> QED BY <1>5, <2>1, <2>2 DEF StoreTypeOK, Tables, FileRecord
<1>12. PartInv'
  <2>1. now' <= new.since + CacheTtl BY <1>1, NoFileFacts
  <2>2. \A f \in Files : ~files'[f].part => files'[f].by = Nobody BY <1>7, <1>9
  <2>3. t # Nobody BY NoFileFacts
  <2> HIDE DEF p, table
  <2> QED BY <1>5, <1>9, <1>10, <2>1, <2>2, <2>3 DEF PartInv
<1>13. QuotaInv'
  <2>1. files'[p].size = 0 /\ limitOf'[t] = limit /\ t # Nobody BY <1>1, <1>5, <1>9, NoFileFacts
  <2>2. Bytes(files') \in Nat BY <1>8, BytesType
  <2> HIDE DEF p, table
  <2> QED BY <1>2, <1>5, <1>8, <1>10, <2>1, <2>2 DEF QuotaInv
<1> QED BY <1>1, <1>5, <1>9, <1>10, <1>11, <1>12, <1>13 DEF StoreInv

\* A refused transfer leaves a pruned store.
LEMMA RefuseKeeps ==
  ASSUME StoreInv, now' = now, NEW limit, Refuse(limit, now)
  PROVE  /\ StoreInv' /\ UNCHANGED <<loopLock, limitOf>>
         /\ \A x : Untouched(x)
<1>1. files \in Tables /\ now \in Nat BY StoreFacts
<1>2. /\ Recent(now) \in Tables /\ Bytes(Recent(now)) \in Nat /\ Bytes(files) \in Nat
      /\ Bytes(Recent(now)) <= Bytes(files)
      /\ \A f \in Files : Recent(now)[f] = files[f] \/ (Recent(now)[f] = NoFile /\ ~files[f].part)
  BY PrunedStore
<1>3. files' = Recent(now) /\ UNCHANGED <<reserved, loopLock, threadLock, limitOf>>
  BY DEF Refuse
<1>4. \A f \in Files : files'[f] = files[f] \/ (files'[f] = NoFile /\ ~files[f].part) BY <1>2, <1>3
<1>5. Parts' = Parts /\ \A f \in Parts : files'[f] = files[f] BY <1>4, NoFileFacts DEF Parts
<1>6. StoreTypeOK' BY <1>2, <1>3 DEF StoreInv, StoreTypeOK, Tables, FileRecord
<1>7. PartInv' BY <1>3, <1>4, <1>5, NoFileFacts DEF StoreInv, PartInv
<1>8. QuotaInv'
  <2>1. Bytes(files') <= Bytes(files) /\ Bytes(files') \in Nat /\ Bytes(files) \in Nat BY <1>2, <1>3
  <2>2. CacheMax \in Nat BY NoFileFacts
  <2>3. loopLock = Nobody BY DEF Refuse
  <2>4. \A f \in Parts : files[f].by # Nobody BY DEF StoreInv, PartInv
  <2> QED BY <1>3, <1>5, <2>1, <2>2, <2>3, <2>4 DEF StoreInv, QuotaInv
<1> QED BY <1>1, <1>3, <1>5, <1>6, <1>7, <1>8 DEF StoreInv, Untouched

\* The transfer under way writes one byte more.
LEMMA ChunkKeeps ==
  ASSUME StoreInv, now' = now, NEW t \in Transfers, Chunk(t, now)
  PROVE  /\ StoreInv' /\ loopLock = t /\ UNCHANGED <<loopLock, limitOf>>
         /\ \A f \in Parts' : files'[f].by = t =>
              /\ f \in Parts /\ files[f].by = t /\ files'[f].size = files[f].size + 1
<1> DEFINE p == PartOf(t)
           new == [files[p] EXCEPT !.size = files[p].size + 1, !.since = now]
<1>1. /\ files \in Tables /\ now \in Nat /\ loopLock = t /\ t # Nobody
      /\ threadLock # t /\ limitOf[t] \in Nat
  BY StoreFacts, NoFileFacts DEF Chunk
<1>2. p \in Parts /\ files[p].by = t /\ \A f \in Parts : files[f].by = t => f = p
  BY <1>1, ThePart
<1>3. /\ files' = [files EXCEPT ![p] = new] /\ files[p].size < limitOf[t]
      /\ UNCHANGED <<reserved, loopLock, threadLock, limitOf>>
  BY DEF Chunk
<1>4. p \in Files /\ files[p] \in FileRecord /\ files[p].part BY <1>1, <1>2 DEF Parts, Tables
<1>5. /\ new \in FileRecord /\ new.size = files[p].size + 1 /\ new.since = now /\ new.part
      /\ new.by = t
  <2>1. PICK old : old = files[p] OBVIOUS
  <2>2. new = [old EXCEPT !.size = old.size + 1, !.since = now] BY <2>1
  <2>3. old \in FileRecord /\ old.part /\ old.by = t BY <1>2, <1>4, <2>1
  <2> HIDE DEF new, p
  <2>4. /\ old.size + 1 \in Nat /\ now \in Nat BY <1>1, <2>3 DEF FileRecord
  <2>5. /\ new \in FileRecord /\ new.size = old.size + 1 /\ new.since = now /\ new.part
        /\ new.by = t
    BY <2>2, <2>3, <2>4 DEF FileRecord
  <2> QED BY <2>1, <2>5
<1> HIDE DEF p, new
<1>6. files' \in Tables /\ Bytes(files') + files[p].size = Bytes(files) + new.size
  BY <1>1, <1>3, <1>4, <1>5, BytesUpdate
<1>7. files'[p] = new /\ \A f \in Files \ {p} : files'[f] = files[f]
  BY <1>1, <1>3, <1>4 DEF Tables
<1>8. Parts' = Parts /\ \A f \in Parts : files'[f].by = files[f].by
  BY <1>2, <1>4, <1>5, <1>7 DEF Parts
<1>9. StoreTypeOK' BY <1>3, <1>6 DEF StoreInv, StoreTypeOK, Tables, FileRecord
<1>10. PartInv'
  <2>1. now <= new.since + CacheTtl BY <1>1, <1>5, NoFileFacts
  <2>2. \A f \in Parts : now <= files'[f].since + CacheTtl
    BY <1>7, <2>1 DEF StoreInv, PartInv, Parts
  <2>3. \A f \in Files : ~files'[f].part => files'[f].by = Nobody
    BY <1>5, <1>7 DEF StoreInv, PartInv
  <2> QED BY <1>3, <1>8, <2>2, <2>3 DEF StoreInv, PartInv
<1>11. QuotaInv'
  <2>1. /\ Bytes(files') \in Nat /\ Bytes(files) \in Nat /\ files[p].size \in Nat
        /\ CacheMax \in Nat
    BY <1>1, <1>4, <1>6, BytesType, NoFileFacts DEF FileRecord
  <2>2. Bytes(files) + limitOf[t] - files[p].size <= CacheMax
    BY <1>1, <1>2 DEF StoreInv, QuotaInv
  <2>3. \A f \in Parts' : files'[f].by = t => f = p BY <1>2, <1>8
  <2>4. /\ files'[p].size <= limitOf[t]
        /\ Bytes(files') + limitOf[t] - files'[p].size <= CacheMax
    BY <1>1, <1>3, <1>5, <1>6, <1>7, <2>1, <2>2
  <2>5. reserved' = limitOf'[t] /\ loopLock' = t BY <1>1, <1>3 DEF StoreInv, QuotaInv
  <2> QED BY <1>1, <1>3, <2>3, <2>4, <2>5 DEF QuotaInv
<1> QED BY <1>1, <1>2, <1>3, <1>5, <1>7, <1>8, <1>9, <1>10, <1>11 DEF StoreInv

\* The lock's part becomes a finished file or goes; others stay as they are.
LEMMA PartEnds ==
  ASSUME StoreInv, now' = now, NEW x, x # Nobody, x \in {loopLock, threadLock},
         NEW file, file = Finished(files[PartOf(x)]) \/ file = NoFile,
         files' = [files EXCEPT ![PartOf(x)] = file]
  PROVE  /\ files' \in Tables /\ Bytes(files') <= Bytes(files)
         /\ Parts' = Parts \ {PartOf(x)} /\ \A f \in Parts' : files'[f] = files[f]
         /\ \A f \in Files : ~files'[f].part => files'[f].by = Nobody
<1> DEFINE p == PartOf(x)
<1>1. files \in Tables BY StoreFacts
<1>2. p \in Parts BY ThePart
<1>3. p \in Files /\ files[p] \in FileRecord BY <1>1, <1>2 DEF Parts, Tables
<1>4. /\ file \in FileRecord /\ file.size <= files[p].size /\ ~file.part /\ file.by = Nobody
  <2>1. CASE file = NoFile BY <1>3, <2>1, NoFileFacts DEF FileRecord
  <2>2. CASE file = Finished(files[p])
    <3>1. PICK old : old = files[p] OBVIOUS
    <3>2. file = [old EXCEPT !.part = FALSE, !.by = Nobody] /\ old \in FileRecord
      BY <1>3, <2>2, <3>1 DEF Finished
    <3>3. /\ file \in FileRecord /\ file.size = old.size /\ ~file.part /\ file.by = Nobody
          /\ old.size \in Nat
      BY <3>2 DEF FileRecord
    <3> QED BY <3>1, <3>3
  <2> QED BY <2>1, <2>2
<1> HIDE DEF p
<1>5. files' \in Tables /\ Bytes(files') + files[p].size = Bytes(files) + file.size
  BY <1>1, <1>3, <1>4, BytesUpdate DEF p
<1>6. Bytes(files') <= Bytes(files)
  <2>1. Bytes(files') \in Nat /\ Bytes(files) \in Nat BY <1>1, <1>5, BytesType
  <2>2. file.size \in Nat /\ files[p].size \in Nat BY <1>3, <1>4 DEF FileRecord
  <2> QED BY <1>4, <1>5, <2>1, <2>2
<1>7. files'[p] = file /\ \A f \in Files \ {p} : files'[f] = files[f]
  BY <1>1, <1>3 DEF Tables, p
<1>8. Parts' = Parts \ {p} /\ \A f \in Parts' : files'[f] = files[f]
  BY <1>4, <1>7 DEF Parts
<1>9. \A f \in Files : ~files'[f].part => files'[f].by = Nobody
  BY <1>4, <1>7 DEF StoreInv, PartInv
<1> QED BY <1>5, <1>6, <1>8, <1>9 DEF p

\* A transfer ends, with its file published or removed.
LEMMA EndKeeps ==
  ASSUME StoreInv, now' = now, NEW t \in Transfers, Publish(t) \/ Abandon(t)
  PROVE  /\ StoreInv' /\ loopLock = t /\ loopLock' = Nobody
         /\ limitOf' = [limitOf EXCEPT ![t] = 0]
<1>1. /\ loopLock = t /\ threadLock = Nobody /\ loopLock' = Nobody /\ threadLock' = Nobody
      /\ reserved' = reserved - limitOf[t] /\ limitOf' = [limitOf EXCEPT ![t] = 0]
  BY DEF Publish, Abandon, EndTransfer
<1>2. /\ now \in Nat /\ t # Nobody /\ limitOf \in [Transfers -> Nat] /\ reserved = limitOf[t]
  BY <1>1, StoreFacts, NoFileFacts DEF StoreInv, QuotaInv
<1>3. PICK file : /\ file = Finished(files[PartOf(t)]) \/ file = NoFile
                  /\ files' = [files EXCEPT ![PartOf(t)] = file]
  BY DEF Publish, Abandon
<1>4. /\ files' \in Tables /\ Bytes(files') <= Bytes(files)
      /\ Parts' = Parts \ {PartOf(t)} /\ \A f \in Parts' : files'[f] = files[f]
      /\ \A f \in Files : ~files'[f].part => files'[f].by = Nobody
  BY <1>1, <1>2, <1>3, PartEnds
<1>5. PartOf(t) \in Parts /\ files[PartOf(t)].by = t /\ \A f \in Parts : files[f].by = t => f = PartOf(t)
  BY <1>1, <1>2, ThePart
<1>6. Parts' = {}
  <2>1. \A f \in Parts : files[f].by = t BY <1>1 DEF StoreInv, PartInv
  <2> QED BY <1>4, <1>5, <2>1
<1>7. reserved' = 0 BY <1>1, <1>2
<1>8. StoreTypeOK' BY <1>1, <1>2, <1>4, <1>7 DEF StoreTypeOK, Tables, FileRecord
<1>9. PartInv' BY <1>1, <1>4, <1>6 DEF PartInv
<1>10. QuotaInv'
  <2>1. Bytes(files) \in Nat /\ Bytes(files') \in Nat /\ CacheMax \in Nat
    BY <1>4, StoreFacts, BytesType, NoFileFacts
  <2>2. PICK n : n = files[PartOf(t)].size OBVIOUS
  <2>3. n \in Nat /\ n <= limitOf[t] /\ limitOf[t] \in Nat
        /\ Bytes(files) + limitOf[t] - n <= CacheMax
    BY <1>1, <1>2, <1>5, <2>2, StoreFacts DEF StoreInv, QuotaInv, Tables, FileRecord, Parts
  <2>4. Bytes(files') <= CacheMax BY <1>4, <2>1, <2>3
  <2> QED BY <1>1, <1>6, <1>7, <2>4 DEF QuotaInv
<1> QED BY <1>1, <1>2, <1>8, <1>9, <1>10 DEF StoreInv

\* A thread copies a file into the store: it finds room beside what is reserved.
LEMMA StageKeeps ==
  ASSUME StoreInv, now' = now, NEW w \in Threads, NEW n \in Nat, Stage(w, n, now)
  PROVE  StoreInv' /\ UNCHANGED <<loopLock, limitOf>> /\ \A t \in Transfers : Untouched(t)
<1> DEFINE table == Recent(now)
           new == [size |-> n, since |-> now, part |-> TRUE, by |-> w]
           p == Unused(table)
<1>1. /\ files \in Tables /\ now \in Nat /\ reserved \in Nat /\ threadLock = Nobody
      /\ limitOf \in [Transfers -> Nat] /\ loopLock \in Transfers \cup {Nobody}
      /\ w # Nobody /\ w # loopLock /\ w \notin Transfers
  BY StoreFacts, NoFileFacts DEF Stage
<1>2. /\ table \in Tables /\ Bytes(table) \in Nat
      /\ \A f \in Files : table[f] = files[f] \/ (table[f] = NoFile /\ ~files[f].part)
  BY PrunedStore
<1>3. p \in Files /\ table[p] = NoFile BY <1>2, FreePlace DEF Stage
<1>4. new \in FileRecord BY <1>1 DEF FileRecord
<1>5. /\ files' = [table EXCEPT ![p] = new] /\ Bytes(table) + reserved + n <= CacheMax
      /\ threadLock' = w /\ UNCHANGED <<reserved, loopLock, limitOf>>
  BY DEF Stage, Fits
<1>6. files' \in Tables /\ Bytes(files') = Bytes(table) + n
  <2>1. new.size = n /\ table[p].size = 0 BY <1>3, NoFileFacts
  <2> HIDE DEF table, new, p
  <2>2. files' \in Tables /\ Bytes(files') + 0 = Bytes(table) + n
    BY <1>2, <1>3, <1>4, <1>5, <2>1, BytesUpdate
  <2>3. Bytes(files') \in Nat BY <2>2, BytesType
  <2> QED BY <1>2, <2>2, <2>3
<1>7. files'[p] = new /\ \A f \in Files \ {p} : files'[f] = table[f]
  BY <1>2, <1>3, <1>5 DEF Tables
<1>8. p \notin Parts BY <1>2, <1>3, NoFileFacts DEF Parts
<1>9. Parts' = Parts \cup {p} /\ \A f \in Parts : files'[f] = files[f]
  BY <1>2, <1>3, <1>7, <1>8, NoFileFacts DEF Parts
<1>10. \A f \in Files : ~files'[f].part => files'[f].by = Nobody
  BY <1>2, <1>7, NoFileFacts DEF StoreInv, PartInv
<1>11. StoreTypeOK' BY <1>1, <1>5, <1>6 DEF StoreInv, StoreTypeOK, Tables, FileRecord
<1>12. PartInv'
  <2>1. now' <= new.since + CacheTtl BY <1>1, NoFileFacts
  <2>2. /\ \A f \in Parts : files[f].by = loopLock /\ now <= files[f].since + CacheTtl
        /\ \A f, g \in Parts : files[f].by = files[g].by => f = g
        /\ loopLock # Nobody => \E f \in Parts : files[f].by = loopLock
        /\ \A f \in Parts : files[f].by # Nobody
    BY <1>1 DEF StoreInv, PartInv
  <2>3. files'[p].by = w /\ now' <= files'[p].since + CacheTtl BY <1>7, <2>1
  <2>4. \A f \in Parts' : /\ files'[f].by \in {loopLock', threadLock'} \ {Nobody}
                          /\ now' <= files'[f].since + CacheTtl
    BY <1>1, <1>5, <1>9, <2>2, <2>3
  <2>5. \A f, g \in Parts' : files'[f].by = files'[g].by => f = g
    BY <1>1, <1>9, <2>2, <2>3
  <2> HIDE DEF p, table, new
  <2> QED BY <1>1, <1>5, <1>9, <1>10, <2>2, <2>3, <2>4, <2>5 DEF PartInv
<1>13. \A t \in Transfers : Untouched(t)
  BY <1>1, <1>7, <1>9 DEF Untouched
<1>14. QuotaInv'
  <2>1. reserved = IF loopLock = Nobody THEN 0 ELSE limitOf[loopLock] BY DEF StoreInv, QuotaInv
  <2>2. Bytes(files') + reserved <= CacheMax /\ Bytes(files') \in Nat /\ CacheMax \in Nat
    BY <1>1, <1>2, <1>5, <1>6, NoFileFacts
  <2>3. loopLock = Nobody => Bytes(files') <= CacheMax BY <2>1, <2>2
  <2>4. ASSUME NEW f \in Parts', files'[f].by = loopLock
        PROVE  /\ files'[f].size <= limitOf[loopLock]
               /\ Bytes(files') + limitOf[loopLock] - files'[f].size <= CacheMax
    <3>1. files'[f].by # Nobody BY <1>7, <1>9, <1>1, <2>4 DEF StoreInv, PartInv
    <3>2. loopLock \in Transfers /\ f \in Parts /\ files'[f] = files[f]
      BY <1>1, <1>13, <2>4, <3>1 DEF Untouched
    <3>3. files[f].size \in Nat /\ files[f].size <= limitOf[loopLock]
      BY <1>1, <2>4, <3>2 DEF StoreInv, QuotaInv, Tables, FileRecord, Parts
    <3>4. reserved = limitOf[loopLock] /\ limitOf[loopLock] \in Nat
      BY <1>1, <2>1, <3>1, <2>4
    <3> QED BY <2>2, <3>2, <3>3, <3>4
  <2> QED BY <1>5, <2>1, <2>3, <2>4 DEF QuotaInv
<1> QED BY <1>1, <1>5, <1>11, <1>12, <1>13, <1>14 DEF StoreInv

\* The thread's copy is published or removed.
LEMMA StagedKeeps ==
  ASSUME StoreInv, now' = now, NEW w \in Threads, NEW ok, Staged(w, ok)
  PROVE  StoreInv' /\ UNCHANGED <<loopLock, limitOf>> /\ \A t \in Transfers : Untouched(t)
<1>1. /\ threadLock = w /\ w # Nobody /\ threadLock' = Nobody
      /\ UNCHANGED <<reserved, loopLock, limitOf>>
  BY NoFileFacts DEF Staged
<1>2. PICK file : /\ file = Finished(files[PartOf(w)]) \/ file = NoFile
                  /\ files' = [files EXCEPT ![PartOf(w)] = file]
  BY DEF Staged
<1>3. /\ files' \in Tables /\ Bytes(files') <= Bytes(files)
      /\ Parts' = Parts \ {PartOf(w)} /\ \A f \in Parts' : files'[f] = files[f]
      /\ \A f \in Files : ~files'[f].part => files'[f].by = Nobody
  BY <1>1, <1>2, PartEnds
<1>4. PartOf(w) \in Parts /\ files[PartOf(w)].by = w /\ \A f \in Parts : files[f].by = w => f = PartOf(w)
  BY <1>1, ThePart
<1>5. loopLock # w /\ now \in Nat BY <1>1, StoreFacts
<1>6. StoreTypeOK' BY <1>1, <1>3 DEF StoreInv, StoreTypeOK, Tables, FileRecord
<1>7. PartInv' BY <1>1, <1>3, <1>4, <1>5 DEF StoreInv, PartInv
<1>8. \A t \in Transfers : Untouched(t) BY <1>3 DEF Untouched
<1>9. QuotaInv'
  <2>1. Bytes(files) \in Nat /\ Bytes(files') \in Nat /\ CacheMax \in Nat
    BY <1>3, StoreFacts, BytesType, NoFileFacts
  <2>2. loopLock = Nobody => Bytes(files') <= CacheMax BY <1>3, <2>1 DEF StoreInv, QuotaInv
  <2>3. ASSUME NEW f \in Parts', files'[f].by = loopLock
        PROVE  /\ files'[f].size <= limitOf[loopLock]
               /\ Bytes(files') + limitOf[loopLock] - files'[f].size <= CacheMax
    <3>1. f \in Parts /\ files'[f] = files[f] /\ loopLock # Nobody
      BY <1>3, <2>3 DEF StoreInv, PartInv
    <3>2. limitOf[loopLock] \in Nat /\ files[f].size \in Nat
      BY <3>1, StoreFacts DEF Tables, FileRecord, Parts
    <3>3. /\ files[f].size <= limitOf[loopLock]
          /\ Bytes(files) + limitOf[loopLock] - files[f].size <= CacheMax
      BY <2>3, <3>1 DEF StoreInv, QuotaInv
    <3> QED BY <1>3, <2>1, <3>1, <3>2, <3>3
  <2> QED BY <1>1, <2>2, <2>3 DEF StoreInv, QuotaInv
<1> QED BY <1>1, <1>5, <1>6, <1>7, <1>8, <1>9 DEF StoreInv

\* Time passes without reaching the age at which a half-written file is pruned.
LEMMA StoreAges ==
  ASSUME StoreInv, UNCHANGED storeVars, now' \in Nat,
         now' = now \/ (now' = now + 1 /\ \A f \in Stored(files) :
                          files[f].part => now < files[f].since + CacheTtl)
  PROVE  StoreInv' /\ \A x : Untouched(x)
<1>1. /\ files \in Tables /\ now \in Nat /\ CacheTtl \in Nat BY StoreFacts, NoFileFacts
<1>2. UNCHANGED <<files, reserved, loopLock, threadLock, limitOf>> BY DEF storeVars
<1>3. ASSUME NEW f \in Parts PROVE now' <= files[f].since + CacheTtl
  <2>1. f \in Stored(files) /\ files[f].part /\ files[f].since \in Nat
    BY <1>1, NoFileFacts DEF Parts, Stored, Tables, FileRecord
  <2>2. now <= files[f].since + CacheTtl BY DEF StoreInv, PartInv
  <2> QED BY <1>1, <2>1, <2>2
<1>4. Parts' = Parts BY <1>2 DEF Parts
<1>5. PartInv' BY <1>2, <1>3, <1>4 DEF StoreInv, PartInv
<1>6. StoreTypeOK' /\ QuotaInv' BY <1>2, <1>4 DEF StoreInv, StoreTypeOK, QuotaInv, Bytes
<1> QED BY <1>2, <1>4, <1>5, <1>6 DEF StoreInv, Untouched

-----------------------------------------------------------------------------
(* The readers *)

ReadRecord == [pc : {"idle", "gate", "transfer", "bytes", "refresh"},
               id : Ids \cup {0}, att : Attachments \cup {0},
               allowance : 0..MaxBytes, tries : 0..3]

ReadTypes ==
  /\ gate \in Readers \cup {Nobody}
  /\ read \in [Readers -> ReadRecord]
  /\ remaining \in [Turns -> 0..MaxTurnBytes] /\ attempted \in [Readers -> 0..MaxAttachments]
  /\ received \in [Readers -> SUBSET (Ids \X Attachments)]
  /\ spent \in [Turns -> Nat]

\* Handle i, if it is still there, is one of attachment a.
Names(i, a) == /\ i \in Ids /\ a \in Attachments /\ i <= lastId
               /\ items[i] # NoItem => items[i].att = a

Named(r) == /\ read[r].pc # "idle" => Names(read[r].id, read[r].att)
            /\ \A p \in received[r] : Names(p[1], p[2])

\* What a reader holds is what its place in resolve_media says.
Holding(r) == /\ gate = r <=> read[r].pc \in {"transfer", "bytes", "refresh"}
              /\ loopLock = r <=> read[r].pc = "bytes"
              /\ read[r].pc = "bytes" => limitOf[r] = read[r].allowance

\* What a turn has spent, what it has left, and what it has set aside for the attachment
\* it is reading.
Budget(r) ==
  /\ read[r].pc = "idle" => spent[r] + remaining[r] <= MaxTurnBytes
  /\ read[r].pc \in {"gate", "transfer", "refresh"} =>
       spent[r] + remaining[r] + read[r].allowance <= MaxTurnBytes
  /\ read[r].pc = "bytes" => \A f \in Parts : files[f].by = r =>
       spent[r] + remaining[r] + read[r].allowance - files[f].size <= MaxTurnBytes

Reads(r) == Named(r) /\ Holding(r) /\ (r \in Turns => Budget(r))
ReadInv == ReadTypes /\ \A r \in Readers : Reads(r)

LEMMA ReaderFacts ==
  /\ Readers \subseteq Transfers /\ Turns \subseteq Readers /\ Nobody \notin Readers
  /\ Turns \cap Tools = {}
  /\ MaxBytes \in Nat \ {0} /\ MaxTurnBytes \in Nat \ {0} /\ MaxAttachments \in Nat \ {0}
  BY ReadAssumption, NoFileFacts DEF Readers

LEMMA ReadFacts ==
  ASSUME ReadTypes, NEW r \in Readers
  PROVE  /\ read[r] \in ReadRecord /\ read[r].allowance \in Nat
         /\ read[r].pc \in {"idle", "gate", "transfer", "bytes", "refresh"}
         /\ r \in Turns => remaining[r] \in Nat /\ spent[r] \in Nat
         /\ MaxTurnBytes \in Nat /\ r # Nobody /\ r \in Transfers
<1>1. read[r] \in ReadRecord BY DEF ReadTypes
<1>2. MaxBytes \in Nat /\ MaxTurnBytes \in Nat BY ReaderFacts
<1>3. read[r].allowance \in Nat /\ read[r].pc \in {"idle", "gate", "transfer", "bytes", "refresh"}
  BY <1>1, <1>2 DEF ReadRecord
<1>4. r \in Turns => remaining[r] \in Nat /\ spent[r] \in Nat BY <1>2 DEF ReadTypes
<1> QED BY <1>1, <1>2, <1>3, <1>4, ReaderFacts

\* A handle goes on naming its attachment, since numbers are not used again.
LEMMA StillNames ==
  ASSUME RefTypes, RefTypes', Issued, NEW i, NEW a, Names(i, a) PROVE Names(i, a)'
<1>1. lastId \in Nat /\ lastId' \in Nat /\ lastId <= lastId' /\ i \in Nat
  BY DEF RefTypes, Handles, Issued, Names, Ids
<1> QED BY <1>1 DEF Names, Issued, Held

\* A reader that neither acts nor is acted on.
Still(s) == /\ read'[s] = read[s] /\ received'[s] = received[s]
            /\ (gate' = s <=> gate = s) /\ (loopLock' = s <=> loopLock = s)
            /\ limitOf'[s] = limitOf[s] /\ (loopLock = s => Untouched(s))
            /\ s \in Turns => remaining'[s] = remaining[s] /\ spent'[s] = spent[s]

LEMMA StillKeeps ==
  ASSUME RefTypes, RefTypes', Issued, NEW s \in Readers, Reads(s), Still(s) PROVE Reads(s)'
<1>1. Named(s)'
  <2>1. PICK i : i = read[s].id OBVIOUS
  <2>2. PICK a : a = read[s].att OBVIOUS
  <2>3. PICK got : got = received[s] OBVIOUS
  <2>4. read[s].pc # "idle" => Names(i, a) BY <2>1, <2>2 DEF Reads, Named
  <2>5. read[s].pc # "idle" => Names(i, a)' BY <2>4, StillNames
  <2>6. \A p \in got : Names(p[1], p[2]) BY <2>3 DEF Reads, Named
  <2>7. ASSUME NEW p \in got PROVE Names(p[1], p[2])' BY <2>6, StillNames
  <2> QED BY <2>1, <2>2, <2>3, <2>5, <2>7 DEF Named, Still
<1>2. Holding(s)' BY DEF Reads, Holding, Still
<1>3. s \in Turns => Budget(s)'
  <2> SUFFICES ASSUME s \in Turns PROVE Budget(s)' OBVIOUS
  <2>1. Budget(s) /\ Holding(s) BY DEF Reads
  <2>2. /\ read'[s] = read[s] /\ remaining'[s] = remaining[s] /\ spent'[s] = spent[s]
        /\ loopLock = s => Untouched(s)
    BY DEF Still
  <2>3. read[s].pc = "bytes" => Untouched(s) BY <2>1, <2>2 DEF Holding
  <2> QED BY <2>1, <2>2, <2>3 DEF Budget, Untouched
<1> QED BY <1>1, <1>2, <1>3 DEF Reads

\* What a turn has spent and left, wherever it stands.
LEMMA BudgetLeft ==
  ASSUME StoreInv, ReadTypes, NEW r \in Turns, Reads(r)
  PROVE  spent[r] + remaining[r] <= MaxTurnBytes
<1>1. r \in Readers /\ Holding(r) /\ Budget(r) BY ReaderFacts DEF Reads
<1>2. /\ read[r].allowance \in Nat /\ remaining[r] \in Nat /\ spent[r] \in Nat /\ MaxTurnBytes \in Nat
      /\ read[r].pc \in {"idle", "gate", "transfer", "bytes", "refresh"}
      /\ r # Nobody
  BY <1>1, ReadFacts
<1>3. CASE read[r].pc = "bytes"
  <2>1. loopLock = r /\ limitOf[r] = read[r].allowance BY <1>1, <1>3 DEF Holding
  <2>2. PICK f \in Parts : files[f].by = r BY <1>2, <2>1 DEF StoreInv, PartInv
  <2>3. files[f].size \in Nat /\ files[f].size <= limitOf[r]
    BY <2>1, <2>2, StoreFacts DEF StoreInv, QuotaInv, Parts, Tables, FileRecord
  <2>4. spent[r] + remaining[r] + read[r].allowance - files[f].size <= MaxTurnBytes
    BY <1>1, <1>3, <2>2 DEF Budget
  <2> QED BY <1>2, <2>1, <2>3, <2>4
<1>4. CASE read[r].pc # "bytes" BY <1>1, <1>2, <1>4 DEF Budget
<1> QED BY <1>3, <1>4

LEMMA BlankFacts == Blank \in ReadRecord /\ Blank.pc = "idle"
  BY ReaderFacts DEF Blank, ReadRecord

\* The transfer lock and its file as far as readers other than r are concerned.
Apart(r) == \A s \in Readers \ {r} : /\ (loopLock' = s <=> loopLock = s)
                                     /\ limitOf'[s] = limitOf[s]
                                     /\ loopLock = s => Untouched(s)

\* A read fails: its allowance stays charged.
LEMMA GiveUpKeeps ==
  ASSUME RefTypes, RefTypes', Issued, StoreInv, ReadInv, NEW r \in Readers,
         GiveUp(r), spent' = spent, loopLock' # r, Apart(r)
  PROVE  ReadInv'
<1>1. /\ read' = [read EXCEPT ![r] = Blank] /\ gate' = IF gate = r THEN Nobody ELSE gate
      /\ UNCHANGED <<remaining, attempted, received>>
  BY DEF GiveUp, Idle, Leave
<1>2. ReadTypes /\ Reads(r) /\ read \in [Readers -> ReadRecord] BY DEF ReadInv, ReadTypes
<1>3. ReadTypes' BY <1>1, <1>2, BlankFacts DEF ReadTypes
<1>4. ASSUME NEW s \in Readers, s # r PROVE Reads(s)'
  <2>1. Still(s) BY <1>1, <1>2, <1>4, ReaderFacts DEF Still, Apart
  <2> QED BY <2>1, StillKeeps DEF ReadInv
<1>5. Reads(r)'
  <2>1. read'[r].pc = "idle" /\ gate' # r /\ r # Nobody
    BY <1>1, <1>2, BlankFacts, ReaderFacts
  <2>2. PICK got : got = received[r] OBVIOUS
  <2>3. ASSUME NEW p \in got PROVE Names(p[1], p[2])' BY <1>2, <2>2, StillNames DEF Reads, Named
  <2>4. Named(r)' BY <1>1, <2>1, <2>2, <2>3 DEF Named
  <2>5. r \in Turns => Budget(r)' BY <1>1, <1>2, <2>1, BudgetLeft DEF Budget
  <2> QED BY <2>1, <2>4, <2>5 DEF Reads, Holding
<1> QED BY <1>3, <1>4, <1>5 DEF ReadInv

\* A read succeeds with n bytes: the rest of its allowance returns to the turn.
LEMMA ReceiveKeeps ==
  ASSUME RefTypes, RefTypes', Issued, StoreInv, ReadInv, NEW r \in Readers, NEW n \in Nat,
         Receive(r, n), read[r].pc # "idle", n <= read[r].allowance, loopLock' # r, Apart(r),
         spent' \in [Turns -> Nat], \A s \in Turns \ {r} : spent'[s] = spent[s],
         r \in Turns => spent'[r] + remaining[r] + read[r].allowance - n <= MaxTurnBytes
  PROVE  ReadInv'
<1>1. /\ read' = [read EXCEPT ![r] = Blank] /\ gate' = IF gate = r THEN Nobody ELSE gate
      /\ received' = [received EXCEPT ![r] = received[r] \cup {<<read[r].id, read[r].att>>}]
      /\ attempted' = attempted
      /\ remaining' = IF r \in Turns THEN [remaining EXCEPT ![r] = remaining[r] + read[r].allowance - n]
                      ELSE remaining
  BY DEF Receive, Refund, Idle, Leave
<1>2. /\ ReadTypes /\ Reads(r) /\ read \in [Readers -> ReadRecord]
      /\ remaining \in [Turns -> 0..MaxTurnBytes] /\ received \in [Readers -> SUBSET (Ids \X Attachments)]
  BY DEF ReadInv, ReadTypes
<1>3. /\ read[r].allowance \in Nat /\ MaxTurnBytes \in Nat /\ r # Nobody
      /\ r \in Turns => remaining[r] \in Nat /\ spent[r] \in Nat
  BY <1>2, ReadFacts
<1>4. PICK i : i = read[r].id OBVIOUS
<1>5. PICK a : a = read[r].att OBVIOUS
<1>6. Names(i, a) BY <1>2, <1>4, <1>5 DEF Reads, Named
<1>7. ReadTypes'
  <2>1. remaining' \in [Turns -> 0..MaxTurnBytes]
    <3>1. CASE r \in Turns
      <4>1. PICK left : left = remaining[r] + read[r].allowance - n OBVIOUS
      <4>2. spent'[r] \in Nat /\ left \in 0..MaxTurnBytes BY <1>3, <3>1, <4>1
      <4> QED BY <1>1, <1>2, <3>1, <4>1, <4>2
    <3> QED BY <1>1, <1>2, <3>1
  <2>2. received' \in [Readers -> SUBSET (Ids \X Attachments)]
    BY <1>1, <1>2, <1>4, <1>5, <1>6 DEF Names
  <2> QED BY <1>1, <1>2, <2>1, <2>2, BlankFacts DEF ReadTypes
<1>8. ASSUME NEW s \in Readers, s # r PROVE Reads(s)'
  <2>1. s \in Turns => remaining'[s] = remaining[s] BY <1>1, <1>2, <1>8
  <2>2. Still(s) BY <1>1, <1>2, <1>8, <2>1, ReaderFacts DEF Still, Apart
  <2> QED BY <2>2, StillKeeps DEF ReadInv
<1>9. Reads(r)'
  <2>1. read'[r].pc = "idle" /\ gate' # r
    BY <1>1, <1>2, <1>3, BlankFacts
  <2>2. PICK got : got = received[r] OBVIOUS
  <2>3. ASSUME NEW p \in got PROVE Names(p[1], p[2])' BY <1>2, <2>2, StillNames DEF Reads, Named
  <2>4. Names(i, a)' BY <1>6, StillNames
  <2>5. received'[r] = got \cup {<<i, a>>} BY <1>1, <1>2, <1>4, <1>5, <2>2
  <2>6. Named(r)' BY <2>1, <2>3, <2>4, <2>5 DEF Named
  <2>7. r \in Turns => Budget(r)'
    <3> SUFFICES ASSUME r \in Turns PROVE Budget(r)' OBVIOUS
    <3>1. remaining'[r] = remaining[r] + read[r].allowance - n BY <1>1, <1>2
    <3>2. spent'[r] \in Nat OBVIOUS
    <3>3. spent'[r] + remaining'[r] <= MaxTurnBytes BY <1>3, <3>1, <3>2
    <3> QED BY <2>1, <3>3 DEF Budget
  <2> QED BY <2>1, <2>6, <2>7 DEF Reads, Holding
<1> QED BY <1>7, <1>8, <1>9 DEF ReadInv

\* A reader goes on with the same handle and allowance, to a place where it holds what
\* it should.
LEMMA ProceedKeeps ==
  ASSUME RefTypes, RefTypes', Issued, StoreInv, ReadInv, NEW r \in Readers, NEW rec \in ReadRecord,
         read' = [read EXCEPT ![r] = rec], UNCHANGED <<remaining, attempted, received, spent>>,
         rec.pc # "idle", read[r].pc # "idle",
         rec.id = read[r].id, rec.att = read[r].att, rec.allowance = read[r].allowance,
         gate' \in {gate, r}, gate # r => gate = Nobody \/ gate' = gate,
         gate' = r <=> rec.pc \in {"transfer", "bytes", "refresh"},
         loopLock' = r <=> rec.pc = "bytes", rec.pc = "bytes" => limitOf'[r] = rec.allowance,
         r \in Turns => Budget(r)', Apart(r)
  PROVE  ReadInv'
<1>1. ReadTypes /\ Reads(r) /\ read \in [Readers -> ReadRecord] BY DEF ReadInv, ReadTypes
<1>2. ReadTypes' BY <1>1 DEF ReadTypes
<1>3. ASSUME NEW s \in Readers, s # r PROVE Reads(s)'
  <2>1. Still(s) BY <1>1, <1>3, ReaderFacts DEF Still, Apart
  <2> QED BY <2>1, StillKeeps DEF ReadInv
<1>4. Reads(r)'
  <2>1. read'[r] = rec BY <1>1
  <2>2. PICK i : i = read[r].id OBVIOUS
  <2>3. PICK a : a = read[r].att OBVIOUS
  <2>4. Names(i, a)' BY <1>1, <2>2, <2>3, StillNames DEF Reads, Named
  <2>5. PICK got : got = received[r] OBVIOUS
  <2>6. ASSUME NEW p \in got PROVE Names(p[1], p[2])' BY <1>1, <2>5, StillNames DEF Reads, Named
  <2>7. Named(r)' BY <2>1, <2>2, <2>3, <2>4, <2>5, <2>6 DEF Named
  <2>8. Holding(r)' BY <2>1 DEF Holding
  <2> QED BY <2>7, <2>8 DEF Reads
<1> QED BY <1>2, <1>3, <1>4 DEF ReadInv

-----------------------------------------------------------------------------
(* Every step keeps the invariant *)

\* What the downloads of the handles may be.
Downloads == {NoDownload} \cup [file : Files, since : Nat]
DownloadInv == downloaded \in [Ids -> Downloads]

\* The inductive invariant.
MediaInv == RefTypes /\ StoreInv /\ ReadInv /\ DownloadInv

\* The parts of the store that do not change leave the other readers alone.
LEMMA StoreRests ==
  ASSUME StoreInv, UNCHANGED storeVars, now' = now
  PROVE  StoreInv' /\ \A r : Apart(r) /\ Untouched(r)
<1>1. now' \in Nat BY DEF StoreInv
<1>2. StoreInv' /\ \A x : Untouched(x) BY <1>1, StoreAges
<1> QED BY <1>2 DEF Apart, storeVars

LEMMA RememberedFiles ==
  ASSUME DownloadInv, downloaded' = Remembering PROVE DownloadInv'
  BY DEF DownloadInv, Remembering, Downloads

LEMMA SizeFact ==
  ASSUME StoreInv, DownloadInv, NEW i \in Ids, Cached(i) PROVE SizeOf(i) \in Nat
<1>1. downloaded[i].file \in Files
  <2>1. downloaded[i] \in [file : Files, since : Nat] BY DEF DownloadInv, Downloads, Cached
  <2> QED BY <2>1
<1> QED BY <1>1, StoreFacts DEF SizeOf, Tables, FileRecord

\* The allowance of an attachment.
LEMMA AllowanceFacts ==
  ASSUME ReadTypes, NEW r \in Readers
  PROVE  /\ Allowance(r) \in 0..MaxBytes
         /\ r \in Turns => Allowance(r) <= remaining[r]
<1>1. MaxBytes \in Nat /\ (r \in Turns => remaining[r] \in Nat) BY ReaderFacts, ReadFacts
<1> QED BY <1>1 DEF Allowance

\* A turn sets bytes aside, a tool asks.
LEMMA BeginKeeps ==
  ASSUME RefTypes, RefTypes', Issued, StoreInv, ReadInv, NEW r \in Readers, NEW i \in Ids, Begin(r, i)
  PROVE  StoreInv' /\ ReadInv'
<1> DEFINE rec == [pc |-> "gate", id |-> i, att |-> items[i].att,
                   allowance |-> Allowance(r), tries |-> 1]
<1>1. /\ read[r].pc = "idle" /\ UNCHANGED <<storeVars, gate, received, spent>> /\ now' = now
      /\ attempted' = [attempted EXCEPT ![r] = attempted[r] + 1]
      /\ \/ Access(i) /\ read' = [read EXCEPT ![r] = rec]
         \/ read' = read
      /\ \/ r \in Turns /\ attempted[r] < MaxAttachments
            /\ remaining' = [remaining EXCEPT ![r] = remaining[r] - Allowance(r)]
         \/ r \in Tools /\ attempted[r] = 0 /\ remaining' = remaining
  BY DEF Begin, Look, Get
<1>2. /\ ReadTypes /\ Reads(r) /\ read \in [Readers -> ReadRecord] /\ loopLock' = loopLock
      /\ remaining \in [Turns -> 0..MaxTurnBytes] /\ attempted \in [Readers -> 0..MaxAttachments]
  BY <1>1 DEF ReadInv, ReadTypes, storeVars
<1>3. StoreInv' /\ \A s : Apart(s) /\ Untouched(s) BY <1>1, StoreRests
<1>4. /\ Allowance(r) \in 0..MaxBytes /\ (r \in Turns => Allowance(r) <= remaining[r])
      /\ (r \in Turns => remaining[r] \in Nat /\ spent[r] \in Nat) /\ MaxTurnBytes \in Nat
      /\ MaxBytes \in Nat \ {0} /\ MaxAttachments \in Nat \ {0} /\ Turns \cap Tools = {}
  BY <1>2, AllowanceFacts, ReadFacts, ReaderFacts
<1>5. ASSUME Access(i) PROVE Names(i, items[i].att) /\ rec \in ReadRecord
  <2>1. items[i] # NoItem BY <1>5 DEF Access, Held, Unexpired
  <2>2. items[i] \in Item /\ i <= lastId BY <2>1 DEF RefTypes, Handles, Held
  <2>3. items[i].att \in Attachments BY <2>2 DEF Item
  <2> QED BY <1>4, <2>2, <2>3 DEF Names, ReadRecord
<1>6. ReadTypes'
  <2>1. read' \in [Readers -> ReadRecord] BY <1>1, <1>2, <1>5
  <2>2. attempted' \in [Readers -> 0..MaxAttachments]
    <3>1. attempted[r] \in 0..MaxAttachments BY <1>2
    <3>2. attempted[r] + 1 \in 0..MaxAttachments BY <1>1, <1>4, <3>1
    <3> QED BY <1>1, <1>2, <3>2
  <2>3. remaining' \in [Turns -> 0..MaxTurnBytes]
    <3>1. CASE r \in Turns
      <4>1. PICK left : left = remaining[r] - Allowance(r) OBVIOUS
      <4>2. left \in 0..MaxTurnBytes BY <1>2, <1>4, <3>1, <4>1
      <4> QED BY <1>1, <1>2, <1>4, <3>1, <4>1, <4>2
    <3> QED BY <1>1, <1>2, <3>1
  <2> QED BY <1>1, <1>2, <2>1, <2>2, <2>3 DEF ReadTypes
<1>7. ASSUME NEW s \in Readers, s # r PROVE Reads(s)'
  <2>1. s \in Turns => remaining'[s] = remaining[s] BY <1>1, <1>2, <1>7
  <2>2. read'[s] = read[s] BY <1>1, <1>2, <1>7
  <2>3. UNCHANGED <<loopLock, limitOf>> /\ Untouched(s) BY <1>1, <1>3 DEF storeVars
  <2>4. Still(s) BY <1>1, <2>1, <2>2, <2>3 DEF Still
  <2> QED BY <2>4, StillKeeps DEF ReadInv
<1>8. Reads(r)'
  <2>1. PICK got : got = received[r] OBVIOUS
  <2>2. ASSUME NEW p \in got PROVE Names(p[1], p[2])' BY <1>2, <2>1, StillNames DEF Reads, Named
  <2>3. \/ Access(i) /\ read'[r] = rec
        \/ read'[r] = read[r]
    BY <1>1, <1>2
  <2>4. Named(r)'
    <3>1. CASE read'[r] = read[r] BY <1>1, <2>1, <2>2, <3>1 DEF Named
    <3>2. CASE Access(i) /\ read'[r] = rec
      <4>1. PICK a : a = items[i].att OBVIOUS
      <4>2. Names(i, a)' BY <1>5, <3>2, <4>1, StillNames
      <4> QED BY <1>1, <2>1, <2>2, <3>2, <4>1, <4>2 DEF Named
    <3> QED BY <2>3, <3>1, <3>2
  <2>5. Holding(r)' BY <1>1, <1>2, <2>3 DEF Reads, Holding
  <2>6. r \in Turns => Budget(r)'
    <3> SUFFICES ASSUME r \in Turns PROVE Budget(r)' OBVIOUS
    <3>1. spent[r] + remaining[r] <= MaxTurnBytes /\ spent' = spent
      BY <1>1, <1>2 DEF Reads, Budget
    <3>2. remaining'[r] = remaining[r] - Allowance(r) BY <1>1, <1>2, <1>4
    <3>3. spent[r] + remaining'[r] + Allowance(r) <= MaxTurnBytes
          /\ spent[r] + remaining'[r] <= MaxTurnBytes
      BY <1>4, <3>1, <3>2
    <3> QED BY <1>1, <2>3, <3>1, <3>3 DEF Budget
  <2> QED BY <2>4, <2>5, <2>6 DEF Reads
<1> QED BY <1>3, <1>6, <1>7, <1>8 DEF ReadInv

\* Under the gate: a failure, a file of the cache, or the way to a transfer.
LEMMA EnterKeeps ==
  ASSUME RefTypes, RefTypes', Issued, StoreInv, ReadInv, DownloadInv, NEW r \in Readers, Enter(r)
  PROVE  StoreInv' /\ ReadInv'
<1> DEFINE i == read[r].id
<1>1. read[r].pc = "gate" /\ gate = Nobody /\ UNCHANGED storeVars /\ now' = now
  BY DEF Enter, Look, Get
<1>2. /\ ReadTypes /\ Reads(r) /\ read[r] \in ReadRecord /\ read[r].allowance \in Nat
      /\ (r \in Turns => remaining[r] \in Nat /\ spent[r] \in Nat) /\ r # Nobody
      /\ MaxTurnBytes \in Nat
  BY ReadFacts DEF ReadInv
<1>3. StoreInv' /\ Apart(r) /\ loopLock' # r
  <2>1. loopLock # r /\ loopLock' = loopLock BY <1>1, <1>2 DEF Reads, Holding, storeVars
  <2> QED BY <1>1, <2>1, StoreRests
<1>4. CASE GiveUp(r) /\ spent' = spent BY <1>3, <1>4, GiveUpKeeps
<1>5. CASE Cached(i) /\ SizeOf(i) <= read[r].allowance /\ Receive(r, SizeOf(i)) /\ Spend(r, SizeOf(i))
  <2>1. PICK n : n = SizeOf(i) OBVIOUS
  <2>2. i \in Ids BY <1>1, <1>2 DEF Reads, Named, Names
  <2>3. n \in Nat /\ n <= read[r].allowance BY <1>5, <2>1, <2>2, SizeFact
  <2>4. /\ Receive(r, n)
        /\ spent' = IF r \in Turns THEN [spent EXCEPT ![r] = spent[r] + n] ELSE spent
    BY <1>5, <2>1 DEF Spend
  <2>5. spent \in [Turns -> Nat] BY <1>2 DEF ReadTypes
  <2>6. spent' \in [Turns -> Nat] /\ \A s \in Turns \ {r} : spent'[s] = spent[s]
    <3>1. CASE r \in Turns
      <4>1. spent[r] + n \in Nat BY <1>2, <2>3, <3>1
      <4> QED BY <2>4, <2>5, <3>1, <4>1
    <3> QED BY <2>4, <2>5, <3>1
  <2>7. r \in Turns => spent'[r] + remaining[r] + read[r].allowance - n <= MaxTurnBytes
    <3> SUFFICES ASSUME r \in Turns
                 PROVE  spent'[r] + remaining[r] + read[r].allowance - n <= MaxTurnBytes
      OBVIOUS
    <3>1. spent[r] + remaining[r] + read[r].allowance <= MaxTurnBytes
      BY <1>1, <1>2 DEF Reads, Budget
    <3>2. spent'[r] = spent[r] + n BY <2>4, <2>5
    <3> QED BY <1>2, <2>3, <3>1, <3>2
  <2> HIDE DEF i
  <2>8. ReadInv' BY <1>1, <1>3, <2>3, <2>4, <2>6, <2>7, ReceiveKeeps
  <2> QED BY <1>3, <2>8
<1>6. CASE /\ gate' = r
           /\ read' = [read EXCEPT ![r].pc = "transfer"]
           /\ UNCHANGED <<remaining, attempted, received, spent>>
  <2>1. PICK rec : rec = [read[r] EXCEPT !.pc = "transfer"] OBVIOUS
  <2>2. /\ rec \in ReadRecord /\ rec.pc = "transfer" /\ rec.id = read[r].id /\ rec.att = read[r].att
        /\ rec.allowance = read[r].allowance
    BY <1>2, <2>1 DEF ReadRecord
  <2>3. read \in [Readers -> ReadRecord] BY <1>2 DEF ReadTypes
  <2>4. read' = [read EXCEPT ![r] = rec] /\ read'[r] = rec BY <1>6, <2>1, <2>3
  <2>5. r \in Turns => Budget(r)'
    BY <1>1, <1>2, <1>6, <2>2, <2>4 DEF Reads, Budget
  <2>6. ReadInv' BY <1>1, <1>2, <1>3, <1>6, <2>2, <2>4, <2>5, ProceedKeeps
  <2> QED BY <1>3, <2>6
<1> QED BY <1>3, <1>4, <1>5, <1>6 DEF Enter

\* The store admits the transfer, or it refuses it, or the handle is not in force.
LEMMA StartTransferKeeps ==
  ASSUME RefTypes, RefTypes', Issued, StoreInv, ReadInv, NEW r \in Readers, StartTransfer(r)
  PROVE  StoreInv' /\ ReadInv'
<1>1. read[r].pc = "transfer" /\ now' = now /\ spent' = spent BY DEF StartTransfer, Look, Get
<1>2. /\ ReadTypes /\ Reads(r) /\ read[r] \in ReadRecord /\ read[r].allowance \in Nat
      /\ (r \in Turns => remaining[r] \in Nat /\ spent[r] \in Nat) /\ r # Nobody
      /\ MaxTurnBytes \in Nat /\ r \in Transfers
  BY ReadFacts DEF ReadInv
<1>3. loopLock # r /\ gate = r BY <1>1, <1>2 DEF Reads, Holding
<1>4. PICK limit : limit = read[r].allowance OBVIOUS
<1>5. CASE /\ Admit(r, limit, now)
           /\ read' = [read EXCEPT ![r].pc = "bytes"]
           /\ UNCHANGED <<gate, remaining, attempted, received>>
  <2>1. /\ StoreInv' /\ loopLock = Nobody /\ loopLock' = r
        /\ limitOf' = [limitOf EXCEPT ![r] = limit]
        /\ \A f \in Parts' : files'[f].by = r => files'[f].size = 0
    BY <1>1, <1>2, <1>4, <1>5, AdmitKeeps
  <2>2. limitOf \in [Transfers -> Nat] /\ Readers \subseteq Transfers /\ Nobody \notin Readers
    BY StoreFacts, ReaderFacts
  <2>3. Apart(r) /\ limitOf'[r] = limit BY <1>2, <2>1, <2>2 DEF Apart
  <2>4. PICK rec : rec = [read[r] EXCEPT !.pc = "bytes"] OBVIOUS
  <2>5. /\ rec \in ReadRecord /\ rec.pc = "bytes" /\ rec.id = read[r].id /\ rec.att = read[r].att
        /\ rec.allowance = read[r].allowance
    BY <1>2, <2>4 DEF ReadRecord
  <2>6. read \in [Readers -> ReadRecord] BY <1>2 DEF ReadTypes
  <2>7. read' = [read EXCEPT ![r] = rec] /\ read'[r] = rec BY <1>5, <2>4, <2>6
  <2>8. r \in Turns => Budget(r)'
    <3> SUFFICES ASSUME r \in Turns PROVE Budget(r)' OBVIOUS
    <3>1. spent[r] + remaining[r] + read[r].allowance <= MaxTurnBytes
      BY <1>1, <1>2 DEF Reads, Budget
    <3>2. ASSUME NEW f \in Parts', files'[f].by = r
          PROVE  spent[r] + remaining[r] + read[r].allowance - files'[f].size <= MaxTurnBytes
      <4>1. files'[f].size = 0 BY <2>1, <3>2
      <4> QED BY <1>2, <3>1, <4>1
    <3> QED BY <1>1, <1>5, <2>5, <2>7, <3>2 DEF Budget
  <2>9. ReadInv'
    BY <1>1, <1>3, <1>4, <1>5, <2>1, <2>3, <2>5, <2>7, <2>8, ProceedKeeps
  <2> QED BY <2>1, <2>9
<1>6. CASE Refuse(limit, now) /\ GiveUp(r)
  <2>1. StoreInv' /\ UNCHANGED <<loopLock, limitOf>> /\ \A x : Untouched(x)
    BY <1>1, <1>6, RefuseKeeps
  <2>2. Apart(r) BY <2>1 DEF Apart
  <2> QED BY <1>1, <1>3, <1>6, <2>1, <2>2, GiveUpKeeps
<1>7. CASE GiveUp(r) /\ UNCHANGED storeVars
  <2>1. StoreInv' /\ Apart(r) /\ loopLock' = loopLock BY <1>1, <1>7, StoreRests DEF storeVars
  <2> QED BY <1>1, <1>3, <1>7, <2>1, GiveUpKeeps
<1> QED BY <1>4, <1>5, <1>6, <1>7 DEF StartTransfer

\* A byte arrives, and the turn has spent it.
LEMMA ReadChunkKeeps ==
  ASSUME RefTypes, RefTypes', Issued, StoreInv, ReadInv, NEW r \in Readers, ReadChunk(r)
  PROVE  StoreInv' /\ ReadInv'
<1>1. /\ read[r].pc = "bytes" /\ now' = now /\ Chunk(r, now)
      /\ UNCHANGED <<gate, read, remaining, attempted, received>>
      /\ spent' = IF r \in Turns THEN [spent EXCEPT ![r] = spent[r] + 1] ELSE spent
  BY DEF ReadChunk, Spend, refVars
<1>2. /\ ReadTypes /\ Reads(r) /\ r \in Transfers /\ read[r].allowance \in Nat
      /\ (r \in Turns => remaining[r] \in Nat /\ spent[r] \in Nat) /\ MaxTurnBytes \in Nat
      /\ spent \in [Turns -> Nat]
  BY ReadFacts DEF ReadInv, ReadTypes
<1>3. /\ StoreInv' /\ loopLock = r /\ UNCHANGED <<loopLock, limitOf>>
      /\ \A f \in Parts' : files'[f].by = r =>
           /\ f \in Parts /\ files[f].by = r /\ files'[f].size = files[f].size + 1
  BY <1>1, <1>2, ChunkKeeps
<1>4. spent' \in [Turns -> Nat] /\ \A s \in Turns \ {r} : spent'[s] = spent[s]
  <2>1. CASE r \in Turns
    <3>1. spent[r] + 1 \in Nat BY <1>2, <2>1
    <3> QED BY <1>1, <1>2, <2>1, <3>1
  <2> QED BY <1>1, <1>2, <2>1
<1>5. ReadTypes' BY <1>1, <1>2, <1>4 DEF ReadTypes
<1>6. ASSUME NEW s \in Readers, s # r PROVE Reads(s)'
  <2>1. Still(s) BY <1>1, <1>3, <1>4, <1>6 DEF Still
  <2> QED BY <2>1, StillKeeps DEF ReadInv
<1>7. Reads(r)'
  <2>1. PICK i : i = read[r].id OBVIOUS
  <2>2. PICK a : a = read[r].att OBVIOUS
  <2>3. Names(i, a)' BY <1>1, <1>2, <2>1, <2>2, StillNames DEF Reads, Named
  <2>4. PICK got : got = received[r] OBVIOUS
  <2>5. ASSUME NEW p \in got PROVE Names(p[1], p[2])' BY <1>2, <2>4, StillNames DEF Reads, Named
  <2>6. Named(r)' BY <1>1, <2>1, <2>2, <2>3, <2>4, <2>5 DEF Named
  <2>7. Holding(r)' BY <1>1, <1>2, <1>3 DEF Reads, Holding
  <2>8. r \in Turns => Budget(r)'
    <3> SUFFICES ASSUME r \in Turns PROVE Budget(r)' OBVIOUS
    <3>1. spent'[r] = spent[r] + 1 BY <1>1, <1>2
    <3>2. ASSUME NEW f \in Parts', files'[f].by = r
          PROVE  spent'[r] + remaining[r] + read[r].allowance - files'[f].size <= MaxTurnBytes
      <4>1. f \in Parts /\ files[f].by = r /\ files'[f].size = files[f].size + 1 BY <1>3, <3>2
      <4>2. spent[r] + remaining[r] + read[r].allowance - files[f].size <= MaxTurnBytes
        BY <1>1, <1>2, <4>1 DEF Reads, Budget
      <4>3. files[f].size \in Nat BY <4>1, StoreFacts DEF Tables, FileRecord, Parts
      <4> QED BY <1>2, <3>1, <4>1, <4>2, <4>3
    <3> QED BY <1>1, <3>2 DEF Budget
  <2> QED BY <2>6, <2>7, <2>8 DEF Reads
<1> QED BY <1>3, <1>5, <1>6, <1>7 DEF ReadInv

\* The bytes are all there: the file is published, and given if the handle is in force.
LEMMA EndOfBytesKeeps ==
  ASSUME RefTypes, RefTypes', Issued, StoreInv, ReadInv, NEW r \in Readers, EndOfBytes(r)
  PROVE  StoreInv' /\ ReadInv'
<1>1. read[r].pc = "bytes" /\ now' = now /\ spent' = spent /\ Publish(r)
  BY DEF EndOfBytes, Get
<1>2. /\ ReadTypes /\ Reads(r) /\ r \in Transfers /\ read[r].allowance \in Nat /\ r # Nobody
      /\ (r \in Turns => remaining[r] \in Nat /\ spent[r] \in Nat) /\ spent \in [Turns -> Nat]
  BY ReadFacts DEF ReadInv, ReadTypes
<1>3. /\ StoreInv' /\ loopLock = r /\ loopLock' = Nobody /\ limitOf' = [limitOf EXCEPT ![r] = 0]
  BY <1>1, <1>2, EndKeeps
<1>4. Apart(r)
  <2>1. limitOf \in [Transfers -> Nat] /\ Readers \subseteq Transfers /\ Nobody \notin Readers
    BY StoreFacts, ReaderFacts
  <2> QED BY <1>3, <2>1 DEF Apart
<1>5. CASE GiveUp(r) BY <1>1, <1>2, <1>3, <1>4, <1>5, GiveUpKeeps
<1>6. CASE Receive(r, files[PartOf(r)].size)
  <2>1. PICK n : n = files[PartOf(r)].size OBVIOUS
  <2>2. PartOf(r) \in Parts /\ files[PartOf(r)].by = r BY <1>2, <1>3, ThePart
  <2>3. n \in Nat /\ n <= limitOf[r]
    BY <1>3, <2>1, <2>2, StoreFacts DEF StoreInv, QuotaInv, Parts, Tables, FileRecord
  <2>4. n <= read[r].allowance BY <1>1, <1>2, <2>3 DEF Reads, Holding
  <2>5. r \in Turns => spent'[r] + remaining[r] + read[r].allowance - n <= MaxTurnBytes
    BY <1>1, <1>2, <2>1, <2>2 DEF Reads, Budget
  <2>6. Receive(r, n) BY <1>6, <2>1
  <2> QED BY <1>1, <1>2, <1>3, <1>4, <2>3, <2>4, <2>5, <2>6, ReceiveKeeps
<1> QED BY <1>5, <1>6 DEF EndOfBytes

\* The transfer breaks off, for good or because the locator was stale.
LEMMA AbandonKeeps ==
  ASSUME RefTypes, RefTypes', Issued, StoreInv, ReadInv, NEW r \in Readers,
         TransferFails(r) \/ LocatorStale(r)
  PROVE  StoreInv' /\ ReadInv'
<1>1. read[r].pc = "bytes" /\ now' = now /\ spent' = spent /\ Abandon(r)
  BY DEF TransferFails, LocatorStale, refVars
<1>2. /\ ReadTypes /\ Reads(r) /\ r \in Transfers /\ read[r].allowance \in Nat /\ r # Nobody
      /\ (r \in Turns => remaining[r] \in Nat /\ spent[r] \in Nat) /\ read[r] \in ReadRecord
      /\ MaxTurnBytes \in Nat
  BY ReadFacts DEF ReadInv
<1>3. /\ StoreInv' /\ loopLock = r /\ loopLock' = Nobody /\ limitOf' = [limitOf EXCEPT ![r] = 0]
  BY <1>1, <1>2, EndKeeps
<1>4. Apart(r)
  <2>1. limitOf \in [Transfers -> Nat] /\ Readers \subseteq Transfers /\ Nobody \notin Readers
    BY StoreFacts, ReaderFacts
  <2> QED BY <1>3, <2>1 DEF Apart
<1>5. CASE GiveUp(r) BY <1>1, <1>2, <1>3, <1>4, <1>5, GiveUpKeeps
<1>6. ASSUME NEW pc \in {"refresh", "transfer"}, NEW tries \in 0..3, Advance(r, pc, tries),
             files[PartOf(r)].size = 0
      PROVE  ReadInv'
  <2>1. PICK rec : rec = [read[r] EXCEPT !.pc = pc, !.tries = tries] OBVIOUS
  <2>2. /\ rec \in ReadRecord /\ rec.pc = pc /\ rec.id = read[r].id /\ rec.att = read[r].att
        /\ rec.allowance = read[r].allowance
    BY <1>2, <2>1 DEF ReadRecord
  <2>3. read \in [Readers -> ReadRecord] /\ gate = r
    BY <1>1, <1>2 DEF ReadTypes, Reads, Holding
  <2>4. /\ read' = [read EXCEPT ![r] = rec] /\ read'[r] = rec
        /\ UNCHANGED <<gate, remaining, attempted, received>>
    BY <1>6, <2>1, <2>3 DEF Advance
  <2>5. r \in Turns => Budget(r)'
    <3> SUFFICES ASSUME r \in Turns PROVE Budget(r)' OBVIOUS
    <3>1. PartOf(r) \in Parts /\ files[PartOf(r)].by = r BY <1>2, <1>3, ThePart
    <3>2. spent[r] + remaining[r] + read[r].allowance - 0 <= MaxTurnBytes
      BY <1>1, <1>2, <1>6, <3>1 DEF Reads, Budget
    <3>3. spent[r] + remaining[r] + read[r].allowance <= MaxTurnBytes BY <1>2, <3>2
    <3> QED BY <1>1, <2>2, <2>4, <3>3 DEF Budget
  <2> QED BY <1>1, <1>2, <1>3, <1>4, <2>2, <2>3, <2>4, <2>5, ProceedKeeps
<1>7. CASE LocatorStale(r) /\ ~GiveUp(r)
  <2>1. /\ files[PartOf(r)].size = 0
        /\ Advance(r, "refresh", 1) \/ Advance(r, "transfer", 3)
    BY <1>7 DEF LocatorStale
  <2>2. {"refresh", "transfer"} \subseteq {"refresh", "transfer"} /\ 1 \in 0..3 /\ 3 \in 0..3 OBVIOUS
  <2> QED BY <1>3, <1>6, <2>1, <2>2
<1> QED BY <1>3, <1>5, <1>7 DEF TransferFails

\* The answer to the question for a new locator, or a question without one.
LEMMA RefreshKeeps ==
  ASSUME RefTypes, RefTypes', Issued, StoreInv, ReadInv, NEW r \in Readers,
         RequestFails(r) \/ (\E l \in Locators \cup {0} : Refreshed(r, l))
  PROVE  StoreInv' /\ ReadInv'
<1>1. read[r].pc \in {"transfer", "refresh"} /\ spent' = spent /\ UNCHANGED storeVars
  BY DEF RequestFails, Refreshed
<1>2. now' = now BY DEF RequestFails, Refreshed, Look, Get, Remember, refVars
<1>3. /\ ReadTypes /\ Reads(r) /\ r \in Transfers /\ read[r].allowance \in Nat /\ r # Nobody
      /\ (r \in Turns => remaining[r] \in Nat /\ spent[r] \in Nat) /\ read[r] \in ReadRecord
      /\ MaxTurnBytes \in Nat
  BY ReadFacts DEF ReadInv
<1>4. loopLock # r /\ gate = r BY <1>1, <1>3 DEF Reads, Holding
<1>5. StoreInv' /\ Apart(r) /\ loopLock' = loopLock BY <1>1, <1>2, StoreRests DEF storeVars
<1>6. CASE GiveUp(r) BY <1>1, <1>4, <1>5, <1>6, GiveUpKeeps
<1>7. CASE Advance(r, "transfer", 2)
  <2>1. PICK rec : rec = [read[r] EXCEPT !.pc = "transfer", !.tries = 2] OBVIOUS
  <2>2. /\ rec \in ReadRecord /\ rec.pc = "transfer" /\ rec.id = read[r].id /\ rec.att = read[r].att
        /\ rec.allowance = read[r].allowance
    <3>1. PICK old : old = read[r] OBVIOUS
    <3>2. rec = [old EXCEPT !.pc = "transfer", !.tries = 2] /\ old \in ReadRecord
      BY <1>3, <2>1, <3>1
    <3>3. 2 \in 0..3 OBVIOUS
    <3>4. /\ rec \in ReadRecord /\ rec.pc = "transfer" /\ rec.id = old.id /\ rec.att = old.att
          /\ rec.allowance = old.allowance
      BY <3>2, <3>3 DEF ReadRecord
    <3> QED BY <3>1, <3>4
  <2>3. read \in [Readers -> ReadRecord] BY <1>3 DEF ReadTypes
  <2>4. /\ read' = [read EXCEPT ![r] = rec] /\ read'[r] = rec
        /\ UNCHANGED <<gate, remaining, attempted, received>>
    BY <1>7, <2>1, <2>3 DEF Advance
  <2>5. r \in Turns => Budget(r)' BY <1>1, <1>3, <2>2, <2>4 DEF Reads, Budget
  <2>6. ReadInv' BY <1>1, <1>4, <1>5, <2>2, <2>4, <2>5, ProceedKeeps
  <2> QED BY <1>5, <2>6
<1> QED BY <1>5, <1>6, <1>7 DEF RequestFails, Refreshed

\* What was received is handed on, or looked at and found gone.
LEMMA HandOverKeeps ==
  ASSUME RefTypes, RefTypes', Issued, StoreInv, ReadInv, NEW r \in Readers, HandOver(r)
  PROVE  StoreInv' /\ ReadInv'
<1>1. /\ read[r].pc = "idle" /\ now' = now
      /\ received' = [received EXCEPT ![r] = {}]
      /\ attempted' = [attempted EXCEPT ![r] = MaxAttachments]
      /\ UNCHANGED <<storeVars, gate, read, remaining, spent>>
  BY DEF HandOver, Look, Get
<1>2. /\ ReadTypes /\ Reads(r) /\ received \in [Readers -> SUBSET (Ids \X Attachments)]
  BY DEF ReadInv, ReadTypes
<1>3. StoreInv' /\ (\A x : Untouched(x)) /\ UNCHANGED <<loopLock, limitOf>>
  BY <1>1, StoreRests DEF storeVars
<1>4. ReadTypes'
  <2>1. MaxAttachments \in 0..MaxAttachments BY ReaderFacts
  <2> QED BY <1>1, <1>2, <2>1 DEF ReadTypes
<1>5. ASSUME NEW s \in Readers, s # r PROVE Reads(s)'
  <2>1. Still(s) BY <1>1, <1>2, <1>3, <1>5 DEF Still
  <2> QED BY <2>1, StillKeeps DEF ReadInv
<1>6. Reads(r)'
  <2>1. received'[r] = {} BY <1>1, <1>2
  <2>2. Named(r)' BY <1>1, <2>1 DEF Named
  <2>3. Holding(r)' BY <1>1, <1>2, <1>3 DEF Reads, Holding
  <2>4. r \in Turns => Budget(r)' BY <1>1, <1>2 DEF Reads, Budget
  <2> QED BY <2>2, <2>3, <2>4 DEF Reads
<1> QED BY <1>3, <1>4, <1>5, <1>6 DEF ReadInv

\* No reader acts, and none holds the lock of the store if that changes hands.
LEMMA NobodyReads ==
  ASSUME RefTypes, RefTypes', Issued, ReadInv,
         UNCHANGED <<gate, read, remaining, attempted, received, spent>>,
         \A s \in Readers : /\ (loopLock' = s <=> loopLock = s) /\ limitOf'[s] = limitOf[s]
                            /\ loopLock = s => Untouched(s)
  PROVE  ReadInv'
<1>1. ReadTypes' BY DEF ReadInv, ReadTypes
<1>2. ASSUME NEW s \in Readers PROVE Reads(s)'
  <2>1. Still(s) BY DEF Still
  <2> QED BY <2>1, StillKeeps DEF ReadInv
<1> QED BY <1>1, <1>2 DEF ReadInv

\* Messages, recalls and the clock.
LEMMA EventKeeps ==
  ASSUME RefTypes, RefTypes', Issued, StoreInv, ReadInv, Event
  PROVE  StoreInv' /\ ReadInv'
<1>1. UNCHANGED <<storeVars, gate, read, remaining, attempted, received, spent>> BY DEF Event
<1>2. now' \in Nat BY DEF RefTypes, Times
<1>3. now' = now \/ (now' = now + 1 /\ \A f \in Stored(files) :
                       files[f].part => now < files[f].since + CacheTtl)
  BY DEF Event, SendMessage, Recall, Remember, Tick
<1>4. StoreInv' /\ \A x : Untouched(x) BY <1>1, <1>2, <1>3, StoreAges
<1> QED BY <1>1, <1>4, NobodyReads DEF storeVars

\* A transfer of an outgoing attachment: while it goes on no reader has the lock.
LEMMA OtherTransferKeeps ==
  ASSUME RefTypes, RefTypes', Issued, StoreInv, ReadInv, NEW x \in Transfers \ Readers, OtherTransfer(x)
  PROVE  StoreInv' /\ ReadInv'
<1>1. /\ now' = now /\ UNCHANGED <<gate, read, remaining, attempted, received, spent>>
      /\ \/ Admit(x, MaxBytes, now) \/ Refuse(MaxBytes, now) \/ Chunk(x, now)
         \/ Publish(x) \/ Abandon(x)
  BY DEF OtherTransfer, refVars, readVars
<1>2. MaxBytes \in Nat /\ Nobody \notin Readers /\ Readers \subseteq Transfers BY ReaderFacts
<1>3. limitOf \in [Transfers -> Nat] BY StoreFacts
<1>4. CASE Admit(x, MaxBytes, now)
  <2>1. /\ StoreInv' /\ loopLock = Nobody /\ loopLock' = x
        /\ limitOf' = [limitOf EXCEPT ![x] = MaxBytes]
    BY <1>1, <1>2, <1>4, AdmitKeeps
  <2>2. \A s \in Readers : s # x /\ loopLock # s /\ loopLock' # s /\ limitOf'[s] = limitOf[s]
    BY <1>2, <1>3, <2>1
  <2> QED BY <1>1, <2>1, <2>2, NobodyReads
<1>5. CASE Refuse(MaxBytes, now)
  <2>1. StoreInv' /\ UNCHANGED <<loopLock, limitOf>> /\ \A y : Untouched(y) BY <1>1, <1>5, RefuseKeeps
  <2> QED BY <1>1, <2>1, NobodyReads
<1>6. CASE Chunk(x, now)
  <2>1. StoreInv' /\ loopLock = x /\ UNCHANGED <<loopLock, limitOf>> BY <1>1, <1>6, ChunkKeeps
  <2>2. \A s \in Readers : loopLock # s BY <2>1
  <2> QED BY <1>1, <2>1, <2>2, NobodyReads
<1>7. CASE Publish(x) \/ Abandon(x)
  <2>1. /\ StoreInv' /\ loopLock = x /\ loopLock' = Nobody
        /\ limitOf' = [limitOf EXCEPT ![x] = 0]
    BY <1>1, <1>7, EndKeeps
  <2>2. \A s \in Readers : s # x /\ loopLock # s /\ loopLock' # s /\ limitOf'[s] = limitOf[s]
    BY <1>2, <1>3, <2>1
  <2> QED BY <1>1, <2>1, <2>2, NobodyReads
<1> QED BY <1>1, <1>4, <1>5, <1>6, <1>7

LEMMA ThreadStepKeeps ==
  ASSUME RefTypes, RefTypes', Issued, StoreInv, ReadInv, NEW w \in Threads, ThreadStep(w)
  PROVE  StoreInv' /\ ReadInv'
<1>1. now' = now /\ UNCHANGED <<gate, read, remaining, attempted, received, spent>>
  BY DEF ThreadStep, refVars, readVars
<1>2. StoreInv' /\ UNCHANGED <<loopLock, limitOf>> /\ \A t \in Transfers : Untouched(t)
  <2>1. ASSUME NEW n \in 1..MaxBytes, Stage(w, n, now)
        PROVE  StoreInv' /\ UNCHANGED <<loopLock, limitOf>> /\ \A t \in Transfers : Untouched(t)
    <3>1. n \in Nat BY ReaderFacts
    <3> QED BY <1>1, <2>1, <3>1, StageKeeps
  <2>2. ASSUME NEW ok \in BOOLEAN, Staged(w, ok)
        PROVE  StoreInv' /\ UNCHANGED <<loopLock, limitOf>> /\ \A t \in Transfers : Untouched(t)
    BY <1>1, <2>2, StagedKeeps
  <2> QED BY <2>1, <2>2 DEF ThreadStep
<1>3. \A s \in Readers : Untouched(s) BY <1>2, ReaderFacts
<1> QED BY <1>1, <1>2, <1>3, NobodyReads

-----------------------------------------------------------------------------
(* The steps of the whole *)

\* What a handle is remembered to have downloaded is a file of the store.
LEMMA EndOfBytesRemembers ==
  ASSUME StoreInv, ReadInv, DownloadInv, NEW r \in Readers, EndOfBytes(r) PROVE DownloadInv'
<1>1. CASE downloaded' = Remembering BY <1>1, RememberedFiles
<1>2. CASE downloaded' = [Remembering EXCEPT ![read[r].id] =
              [file |-> PartOf(r), since |-> files[PartOf(r)].since]]
  <2>1. /\ read[r].pc = "bytes" /\ ReadTypes /\ Reads(r) BY DEF EndOfBytes, ReadInv
  <2>2. loopLock = r /\ r # Nobody BY <2>1, ReadFacts DEF Reads, Holding
  <2>3. PartOf(r) \in Parts BY <2>2, ThePart
  <2>4. PICK file : file = [file |-> PartOf(r), since |-> files[PartOf(r)].since] OBVIOUS
  <2>5. file \in [file : Files, since : Nat]
    BY <2>3, <2>4, StoreFacts DEF Parts, Tables, FileRecord
  <2>6. Remembering \in [Ids -> Downloads] BY DEF DownloadInv, Remembering, Downloads
  <2>7. downloaded' = [Remembering EXCEPT ![read[r].id] = file] BY <1>2, <2>4
  <2> HIDE DEF Remembering
  <2> QED BY <2>5, <2>6, <2>7 DEF DownloadInv, Downloads
<1> QED BY <1>1, <1>2 DEF EndOfBytes

LEMMA StepRemembers ==
  ASSUME StoreInv, ReadInv, DownloadInv, [Next]_vars PROVE DownloadInv'
<1>1. CASE UNCHANGED downloaded BY <1>1 DEF DownloadInv
<1>2. CASE downloaded' = Remembering BY <1>2, RememberedFiles
<1>3. ASSUME NEW r \in Readers, Resolve(r) PROVE DownloadInv'
  <2>1. CASE EndOfBytes(r) BY <2>1, EndOfBytesRemembers
  <2>2. CASE ~EndOfBytes(r)
    BY <1>1, <1>2, <1>3, <2>2
       DEF Resolve, Enter, StartTransfer, TransferFails, LocatorStale, RequestFails, Refreshed, Look
  <2> QED BY <2>1, <2>2
<1>4. ASSUME NEW r \in Readers, ReadChunk(r) \/ HandOver(r) PROVE DownloadInv'
  BY <1>1, <1>2, <1>4 DEF ReadChunk, HandOver, Look
<1>5. ASSUME NEW r \in Readers, NEW i \in Ids, Begin(r, i) PROVE DownloadInv'
  BY <1>2, <1>5 DEF Begin, Look
<1>6. CASE Event BY <1>2, <1>6 DEF Event
<1>7. ASSUME NEW x \in Transfers \ Readers, OtherTransfer(x) PROVE DownloadInv'
  BY <1>1, <1>7 DEF OtherTransfer, readVars
<1>8. ASSUME NEW w \in Threads, ThreadStep(w) PROVE DownloadInv'
  BY <1>1, <1>8 DEF ThreadStep, readVars
<1>9. CASE UNCHANGED vars BY <1>1, <1>9 DEF vars, readVars
<1> QED BY <1>3, <1>4, <1>5, <1>6, <1>7, <1>8, <1>9 DEF Next

\* Every step of the readers, the store and the threads is one of the handles or leaves
\* them alone.
LEMMA RefPart == ASSUME ReadInv, [Next]_vars PROVE [RefNext]_refVars
<1>1. CASE Get BY <1>1 DEF RefNext
<1>2. CASE UNCHANGED refVars BY <1>2
<1>3. ASSUME NEW r \in Readers, NEW l \in Locators \cup {0}, Refreshed(r, l)
      PROVE [RefNext]_refVars
  <2>1. read[r].att \in Attachments BY <1>3 DEF Refreshed, ReadInv, Reads, Named, Names
  <2>2. Remember(read[r].att, l) => RefNext BY <2>1 DEF RefNext
  <2> QED BY <1>1, <1>3, <2>2 DEF Refreshed, Look
<1>4. ASSUME NEW r \in Readers, Resolve(r) PROVE [RefNext]_refVars
  BY <1>1, <1>2, <1>3, <1>4
     DEF Resolve, Enter, StartTransfer, EndOfBytes, TransferFails, LocatorStale, RequestFails, Look
<1>5. ASSUME NEW r \in Readers, ReadChunk(r) \/ HandOver(r) PROVE [RefNext]_refVars
  BY <1>1, <1>2, <1>5 DEF ReadChunk, HandOver, Look
<1>6. ASSUME NEW r \in Readers, NEW i \in Ids, Begin(r, i) PROVE [RefNext]_refVars
  BY <1>1, <1>6 DEF Begin, Look
<1>7. CASE Event BY <1>7 DEF Event, RefNext
<1>8. ASSUME NEW x \in Transfers \ Readers, OtherTransfer(x) PROVE [RefNext]_refVars
  BY <1>2, <1>8 DEF OtherTransfer
<1>9. ASSUME NEW w \in Threads, ThreadStep(w) PROVE [RefNext]_refVars
  BY <1>2, <1>9 DEF ThreadStep
<1>10. CASE UNCHANGED vars BY <1>2, <1>10 DEF vars
<1> QED BY <1>4, <1>5, <1>6, <1>7, <1>8, <1>9, <1>10 DEF Next

\* The invariant is inductive.
LEMMA StepsKeepMedia == ASSUME MediaInv, [Next]_vars PROVE MediaInv'
<1>1. RefTypes /\ StoreInv /\ ReadInv /\ DownloadInv BY DEF MediaInv
<1>2. RefTypes' /\ Issued BY <1>1, RefPart, RefStepTypes
<1>3. DownloadInv' BY <1>1, StepRemembers
<1>4. ASSUME NEW r \in Readers, Resolve(r) PROVE StoreInv' /\ ReadInv'
  BY <1>1, <1>2, <1>4, EnterKeeps, StartTransferKeeps, EndOfBytesKeeps, AbandonKeeps, RefreshKeeps
     DEF Resolve
<1>5. ASSUME NEW r \in Readers, ReadChunk(r) \/ HandOver(r) PROVE StoreInv' /\ ReadInv'
  BY <1>1, <1>2, <1>5, ReadChunkKeeps, HandOverKeeps
<1>6. ASSUME NEW r \in Readers, NEW i \in Ids, Begin(r, i) PROVE StoreInv' /\ ReadInv'
  BY <1>1, <1>2, <1>6, BeginKeeps
<1>7. ASSUME Event PROVE StoreInv' /\ ReadInv' BY <1>1, <1>2, <1>7, EventKeeps
<1>8. ASSUME NEW x \in Transfers \ Readers, OtherTransfer(x) PROVE StoreInv' /\ ReadInv'
  BY <1>1, <1>2, <1>8, OtherTransferKeeps
<1>9. ASSUME NEW w \in Threads, ThreadStep(w) PROVE StoreInv' /\ ReadInv'
  BY <1>1, <1>2, <1>9, ThreadStepKeeps
<1>10. ASSUME UNCHANGED vars PROVE StoreInv' /\ ReadInv'
  <2>1. /\ UNCHANGED storeVars /\ now' = now
        /\ UNCHANGED <<gate, read, remaining, attempted, received, spent>>
    BY <1>10 DEF vars, refVars, readVars
  <2>2. StoreInv' /\ \A x : Untouched(x) BY <1>1, <2>1, StoreRests
  <2> QED BY <1>1, <1>2, <2>1, <2>2, NobodyReads DEF storeVars
<1> QED BY <1>2, <1>3, <1>4, <1>5, <1>6, <1>7, <1>8, <1>9, <1>10 DEF MediaInv, Next

LEMMA StartsMedia == ASSUME Init PROVE MediaInv
<1>1. RefTypes BY RefInitTypes DEF Init
<1>2. StoreInv
  <2>1. /\ files = [f \in Files |-> NoFile] /\ reserved = 0 /\ loopLock = Nobody
        /\ threadLock = Nobody /\ limitOf = [t \in Transfers |-> 0]
    BY DEF Init, StoreInit
  <2>2. Parts = {} BY <2>1, NoFileFacts DEF Parts
  <2>3. Bytes(files) = 0
    <3> DEFINE s == [f \in Files |-> files[f].size]
    <3>1. IsFiniteSet(Files) BY StoreAssumption, FS_Interval DEF Files
    <3>2. \A f \in Files : s[f] = 0 BY <2>1, NoFileFacts
    <3> HIDE DEF s
    <3>3. SumFunctionOnSet(s, Files) = 0 BY <3>1, <3>2, SumZero
    <3> QED BY <3>3 DEF Bytes, s
  <2>4. StoreTypeOK BY <2>1, NoFileFacts DEF StoreTypeOK, FileRecord
  <2>5. PartInv BY <2>1, <2>2, NoFileFacts DEF PartInv
  <2>6. QuotaInv BY <2>1, <2>2, <2>3, NoFileFacts DEF QuotaInv
  <2>7. now \in Nat BY <1>1 DEF RefTypes, Times
  <2> QED BY <2>4, <2>5, <2>6, <2>7 DEF StoreInv
<1>3. ReadInv
  <2>1. /\ gate = Nobody /\ read = [r \in Readers |-> Blank]
        /\ remaining = [r \in Turns |-> MaxTurnBytes] /\ attempted = [r \in Readers |-> 0]
        /\ received = [r \in Readers |-> {}] /\ spent = [r \in Turns |-> 0]
        /\ loopLock = Nobody
    BY DEF Init, StoreInit
  <2>2. ReadTypes BY <2>1, ReaderFacts, BlankFacts DEF ReadTypes
  <2>3. ASSUME NEW r \in Readers PROVE Reads(r)
    <3>1. read[r].pc = "idle" /\ received[r] = {} /\ r # Nobody
      BY <2>1, BlankFacts, ReaderFacts
    <3>2. r \in Turns => Budget(r) BY <2>1, <3>1, ReaderFacts DEF Budget
    <3>3. Named(r) /\ Holding(r) BY <2>1, <3>1 DEF Named, Holding
    <3> QED BY <3>2, <3>3 DEF Reads
  <2> QED BY <2>2, <2>3 DEF ReadInv
<1>4. DownloadInv BY DEF Init, DownloadInv, Downloads
<1> QED BY <1>1, <1>2, <1>3, <1>4 DEF MediaInv

LEMMA AlwaysMedia == Spec => []MediaInv
BY StartsMedia, StepsKeepMedia, PTL DEF Spec

-----------------------------------------------------------------------------
(* The theorems *)

\* The state of the handles, of the store and of every read keeps its types: what a turn
\* has left never falls below zero, a handle's download is a file of the store, and no
\* turn takes up more attachments than it may (media_adapter.py, media.py, media_refs.py).
THEOREM TypesCorrect == Spec => []TypeOK
<1>1. ASSUME MediaInv PROVE TypeOK
  <2>1. RefTypeOK BY <1>1 DEF MediaInv, RefTypes, Times, Entries, Handles, RefTypeOK
  <2>2. StoreTypeOK BY <1>1 DEF MediaInv, StoreInv
  <2>3. downloaded \in [Ids -> [file : Files \cup {0}, since : Nat]]
    BY <1>1 DEF MediaInv, DownloadInv, Downloads, NoDownload
  <2> QED BY <1>1, <2>1, <2>2, <2>3 DEF MediaInv, ReadInv, ReadTypes, ReadRecord, TypeOK
<1> QED BY <1>1, AlwaysMedia, PTL

\* The quota of the store is never exceeded, whatever transfers and worker threads write
\* at the same time: what download() and import_stream() reserve and what _reference()
\* stages, both measured by _prune_and_usage() of media.py.
THEOREM NeverOverQuota == Spec => []QuotaHolds
<1>1. ASSUME MediaInv PROVE QuotaHolds
  <2>1. StoreInv BY <1>1 DEF MediaInv
  <2>2. CASE loopLock = Nobody BY <2>1, <2>2 DEF StoreInv, QuotaInv, QuotaHolds
  <2>3. CASE loopLock # Nobody
    <3>1. PICK p : p = PartOf(loopLock) OBVIOUS
    <3>2. p \in Parts /\ files[p].by = loopLock BY <2>1, <2>3, <3>1, ThePart
    <3>3. /\ files[p].size <= limitOf[loopLock]
          /\ Bytes(files) + limitOf[loopLock] - files[p].size <= CacheMax
      BY <2>1, <3>2 DEF StoreInv, QuotaInv
    <3>4. /\ files[p].size \in Nat /\ limitOf[loopLock] \in Nat /\ Bytes(files) \in Nat
          /\ CacheMax \in Nat
      BY <2>1, <2>3, <3>2, StoreFacts, BytesType, NoFileFacts DEF Tables, FileRecord, Parts
    <3> QED BY <3>3, <3>4 DEF QuotaHolds
  <2> QED BY <2>2, <2>3
<1> QED BY <1>1, AlwaysMedia, PTL

\* However a read ends - given up at the gate, refused, broken off, stale, recalled, or
\* complete - it leaves no gate, no lock, no reserved byte and no half-written file: the
\* gate of resolve_media() and the finally clauses of download() and import_stream().
THEOREM ReadsCleanUp == Spec => []NothingLeaks
<1>1. ASSUME MediaInv PROVE NothingLeaks
  <2>1. StoreInv /\ ReadInv BY <1>1 DEF MediaInv
  <2>2. \A r \in Readers : /\ gate = r <=> read[r].pc \in {"transfer", "bytes", "refresh"}
                           /\ loopLock = r <=> read[r].pc = "bytes"
    BY <2>1 DEF ReadInv, Reads, Holding
  <2>3. reserved = IF loopLock = Nobody THEN 0 ELSE limitOf[loopLock]
    BY <2>1 DEF StoreInv, QuotaInv
  <2>4. {files[f].by : f \in {g \in Files : files[g].part}} = {loopLock, threadLock} \ {Nobody}
    BY <2>1 DEF StoreInv, PartInv, Parts
  <2> QED BY <2>2, <2>3, <2>4 DEF NothingLeaks
<1> QED BY <1>1, AlwaysMedia, PTL

\* The attachments of one event never cost more than max_turn_bytes, with every failure,
\* refresh and cached result on the way: _attachments() of media_adapter.py.
THEOREM BudgetKept == Spec => []TurnBudget
<1>1. ASSUME MediaInv PROVE TurnBudget
  <2>1. StoreInv /\ ReadTypes /\ \A r \in Readers : Reads(r) BY <1>1 DEF MediaInv, ReadInv
  <2>2. ASSUME NEW r \in Turns PROVE spent[r] <= MaxTurnBytes
    <3>1. r \in Readers BY ReaderFacts
    <3>2. spent[r] + remaining[r] <= MaxTurnBytes BY <2>1, <3>1, BudgetLeft
    <3>3. spent[r] \in Nat /\ remaining[r] \in Nat /\ MaxTurnBytes \in Nat
      BY <2>1, <3>1, ReadFacts
    <3> QED BY <3>2, <3>3
  <2> QED BY <2>2 DEF TurnBudget
<1> QED BY <1>1, AlwaysMedia, PTL

\* Reading goes through the handles alone: with whatever readers, transfers and threads,
\* their table behaves as media_refs.py by itself.
THEOREM HandlesAsSpecified == Spec => RefSpec
<1>1. Init => RefInit BY DEF Init
<1>2. MediaInv /\ [Next]_vars => [RefNext]_refVars BY RefPart DEF MediaInv
<1> QED BY <1>1, <1>2, AlwaysMedia, PTL DEF Spec, RefSpec

\* No recalled attachment reaches the model, whichever of the waits of a read the recall
\* fell into: the last look of media_adapter.py and tools.py, with clocks that agree.
THEOREM RecalledNotGiven == ASSUME Skew = 0 PROVE Spec => NothingRecalledGiven
<1> DEFINE Clean == \A r \in Readers : HandOver(r) => \A a \in Given(r) : MessageOf[a] \notin withdrawn
<1>1. ASSUME MediaInv, RecallIsFinal PROVE Clean
  <2> SUFFICES ASSUME NEW r \in Readers, NEW a \in Given(r) PROVE MessageOf[a] \notin withdrawn
    OBVIOUS
  <2>1. PICK p \in received[r] : Access(p[1]) /\ a = p[2] BY DEF Given
  <2>2. Names(p[1], a) BY <1>1, <2>1 DEF MediaInv, ReadInv, Reads, Named
  <2>3. p[1] \in Held(items) BY <2>1, <2>2 DEF Access, Held, Unexpired
  <2>4. items[p[1]].att = a BY <2>2, <2>3 DEF Names, Held
  <2> QED BY <1>1, <2>3, <2>4 DEF RecallIsFinal
<1>2. Spec => []RecallIsFinal BY HandlesAsSpecified, RecalledForGood, PTL
<1>3. [Next]_vars /\ MediaInv /\ RecallIsFinal => [Clean]_vars BY <1>1
<1> QED BY <1>2, <1>3, AlwaysMedia, PTL DEF Spec, NothingRecalledGiven
=============================================================================
