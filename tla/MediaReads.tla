------------------------------ MODULE MediaReads ------------------------------
(***************************************************************************)
(* Reads of media through handles (media_adapter.py): resolve_media with   *)
(* its gate, its refresh of stale locators and its cached results, the     *)
(* attachments of a turn with their byte budget, and the tools that hand a *)
(* result on after a further wait.  The handles are those of               *)
(* MediaReferences, the bytes those of MediaStore; recalls, new messages,  *)
(* and worker threads that stage media interleave with every wait.         *)
(***************************************************************************)
EXTENDS MediaReferences, MediaStore

CONSTANTS
  Turns, Tools,      \* readers: incoming events, and tool calls
  Current,           \* the message a turn is about
  Nested,            \* attachments of forward nodes and of file notices
  MaxBytes, MaxTurnBytes, MaxAttachments  \* the limits of the configuration

ASSUME ReadAssumption ==
  /\ Turns \cap Tools = {} /\ Turns \cup Tools \subseteq Transfers
  /\ Current \in Messages /\ Nested \subseteq Attachments
  /\ {MaxBytes, MaxTurnBytes, MaxAttachments} \subseteq Nat \ {0}

Readers == Turns \cup Tools
NoDownload == [file |-> 0, since |-> 0]
Blank == [pc |-> "idle", id |-> 0, att |-> 0, allowance |-> 0, tries |-> 0]

VARIABLES
  gate,       \* reader that holds _media_read_gate
  read,       \* the resolve_media call of each reader
  remaining, attempted,  \* of the turn
  downloaded, \* the file that each handle remembers
  received,   \* what a reader was given by resolve_media: handles with attachments
  spent       \* history: bytes written to the cache or taken from it for the turn

readVars == <<gate, read, downloaded, remaining, attempted, received, spent>>
vars == <<refVars, storeVars, readVars>>

Init ==
  /\ RefInit /\ StoreInit
  /\ gate = Nobody
  /\ read = [r \in Readers |-> Blank]
  /\ remaining = [r \in Turns |-> MaxTurnBytes]
  /\ attempted = [r \in Readers |-> 0]
  /\ downloaded = [i \in Ids |-> NoDownload]
  /\ received = [r \in Readers |-> {}]
  /\ spent = [r \in Turns |-> 0]

-----------------------------------------------------------------------------
\* validate_cached: the file a handle remembers is still there.
\* Names of files are never used again: slot and time of publication identify one.
Cached(i) == /\ downloaded[i] # NoDownload
             /\ files[downloaded[i].file] # NoFile
             /\ files[downloaded[i].file].since = downloaded[i].since
             /\ ~files[downloaded[i].file].part
SizeOf(i) == files[downloaded[i].file].size

\* A handle that is dropped or gets another locator forgets its file.
Remembering == [i \in Ids |-> IF items'[i] = items[i] THEN downloaded[i] ELSE NoDownload]

Look == Get /\ downloaded' = Remembering

Idle(r) == read' = [read EXCEPT ![r] = Blank]
Leave(r) == gate' = IF gate = r THEN Nobody ELSE gate

\* Mutant: the allowance of one attachment overlooks what is left of the budget.
MutAllowance(r) == MaxBytes

\* max_bytes of one attachment: no more than the turn has left.
Allowance(r) == IF r \in Turns /\ remaining[r] < MaxBytes THEN remaining[r] ELSE MaxBytes

\* The turn takes the allowance of one attachment from its budget in advance.  Its
\* handles were issued or looked up before the waits for the attachments that
\* precede, so any of them may have lapsed; a tool may name any handle.
Begin(r, i) ==
  LET allowance == Allowance(r)
  IN  /\ read[r].pc = "idle"
      /\ \/ /\ r \in Turns /\ i <= lastId
            /\ attempted[r] < MaxAttachments /\ remaining[r] > 0
            /\ remaining' = [remaining EXCEPT ![r] = @ - allowance]
         \/ /\ r \in Tools /\ attempted[r] = 0
            /\ UNCHANGED remaining
      /\ attempted' = [attempted EXCEPT ![r] = @ + 1]
      /\ Look
      /\ \/ /\ Access(i)
            /\ read' = [read EXCEPT ![r] = [pc |-> "gate", id |-> i, att |-> items[i].att,
                                            allowance |-> allowance, tries |-> 1]]
         \/ /\ ~Access(i)
            /\ UNCHANGED read
      /\ UNCHANGED <<storeVars, gate, received, spent>>

\* The unused part of an allowance returns to the turn when bytes were received; a
\* failed transfer keeps it all.
Refund(r, n) == remaining' = IF r \in Turns
                             THEN [remaining EXCEPT ![r] = @ + read[r].allowance - n]
                             ELSE remaining

Receive(r, n) ==
  /\ received' = [received EXCEPT ![r] = @ \cup {<<read[r].id, read[r].att>>}]
  /\ Refund(r, n)
  /\ Idle(r) /\ Leave(r)
  /\ UNCHANGED attempted

Spend(r, n) == spent' = IF r \in Turns THEN [spent EXCEPT ![r] = @ + n] ELSE spent

\* Mutant: a failed transfer gives its whole allowance back.
MutGiveUpRefunding(r) == /\ Idle(r) /\ Leave(r) /\ Refund(r, 0)
                         /\ UNCHANGED <<attempted, received>>

\* Mutant: the gate is released on success only.
MutGiveUpHolding(r) == /\ Idle(r)
                       /\ UNCHANGED <<gate, remaining, attempted, received>>

GiveUp(r) == /\ Idle(r) /\ Leave(r)
             /\ UNCHANGED <<remaining, attempted, received>>

\* Under the gate the access is checked again; a valid cached file is used if it
\* is within the allowance.
Enter(r) ==
  LET i == read[r].id
  IN  /\ read[r].pc = "gate" /\ gate = Nobody
      /\ Look
      /\ \/ /\ Access(i) => (Cached(i) /\ SizeOf(i) > read[r].allowance)
            /\ GiveUp(r)
            /\ UNCHANGED spent
         \/ /\ Access(i) /\ Cached(i) /\ SizeOf(i) <= read[r].allowance
            /\ Receive(r, SizeOf(i))
            /\ Spend(r, SizeOf(i))
         \/ /\ Access(i) /\ ~Cached(i)
            /\ gate' = r
            /\ read' = [read EXCEPT ![r].pc = "transfer"]
            /\ UNCHANGED <<remaining, attempted, received, spent>>
      /\ UNCHANGED storeVars

\* The downloader checks the access, then the store admits or refuses it.
StartTransfer(r) ==
  /\ read[r].pc = "transfer"
  /\ Look
  /\ \/ /\ Access(read[r].id)
        /\ Admit(r, read[r].allowance, now)
        /\ read' = [read EXCEPT ![r].pc = "bytes"]
        /\ UNCHANGED <<gate, remaining, attempted, received>>
     \/ /\ Access(read[r].id)
        /\ Refuse(read[r].allowance, now)
        /\ GiveUp(r)
     \/ /\ ~Access(read[r].id)
        /\ GiveUp(r)
        /\ UNCHANGED storeVars
  /\ UNCHANGED spent

ReadChunk(r) ==
  /\ read[r].pc = "bytes"
  /\ Chunk(r, now)
  /\ Spend(r, 1)
  /\ UNCHANGED <<refVars, downloaded, gate, read, remaining, attempted, received>>

\* The bytes are published in the cache, whatever the access check says then; only
\* an accessible handle remembers them.
EndOfBytes(r) ==
  LET i == read[r].id
  IN  /\ read[r].pc = "bytes"
      /\ Publish(r)
      /\ Get
      /\ \/ /\ Access(i)
            /\ downloaded' = [Remembering EXCEPT ![i] =
                 [file |-> PartOf(r), since |-> files[PartOf(r)].since]]
            /\ Receive(r, files[PartOf(r)].size)
         \/ /\ ~Access(i)
            /\ downloaded' = Remembering
            /\ GiveUp(r)
      /\ UNCHANGED spent

\* A lost connection, a time-out, or one more chunk than allowed, which is not written.
TransferFails(r) ==
  /\ read[r].pc = "bytes"
  /\ Abandon(r) /\ GiveUp(r)
  /\ UNCHANGED <<refVars, downloaded, spent>>

Advance(r, pc, tries) ==
  /\ read' = [read EXCEPT ![r].pc = pc, ![r].tries = tries]
  /\ UNCHANGED <<gate, remaining, attempted, received>>

\* verified_message() may be asked for the message of the handle.
Refreshable(r) == read[r].att \notin Nested /\ ~IsRecalled(MessageOf[read[r].att])

\* The locator is stale: the server or NapCat refuses before the first byte.  Once,
\* the message is asked for again; after that NapCat's second refusal may still be
\* followed by a plain HTTP download.
LocatorStale(r) ==
  /\ read[r].pc = "bytes" /\ files[PartOf(r)].size = 0
  /\ Abandon(r)
  /\ \/ read[r].tries = 1 /\ Refreshable(r) /\ Advance(r, "refresh", 1)
     \/ read[r].tries = 2 /\ Advance(r, "transfer", 3)
     \/ read[r].tries = 1 /\ ~Refreshable(r) /\ GiveUp(r)
     \/ read[r].tries = 3 /\ GiveUp(r)
  /\ UNCHANGED <<refVars, downloaded, spent>>

\* get_msg answers: the handle must still be accessible, and among those remembered
\* from the answer.
Refreshed(r, l) ==
  LET i == read[r].id
  IN  /\ read[r].pc = "refresh"
      /\ \/ /\ Access(i)
            /\ Remember(read[r].att, l) /\ downloaded' = Remembering
            /\ \/ Acceptable(MessageOf[read[r].att]) /\ Advance(r, "transfer", 2)
               \/ ~Acceptable(MessageOf[read[r].att]) /\ GiveUp(r)
         \/ /\ ~Access(i)
            /\ Look
            /\ GiveUp(r)
      /\ UNCHANGED <<storeVars, spent>>

\* get_msg, or get_image before the transfer, is refused or times out, or the store
\* was not free in time.
RequestFails(r) ==
  /\ read[r].pc \in {"transfer", "refresh"}
  /\ GiveUp(r)
  /\ UNCHANGED <<refVars, storeVars, downloaded, spent>>

\* Mutant: what was received is handed on without another look.
MutGiven(r) == {p[2] : p \in received[r]}

\* After the last wait (for further attachments, for an upload, for an analysis)
\* what was received is checked once more before the model sees it.
Given(r) == IF r \in Turns /\ IsRecalled(Current) THEN {}
            ELSE {p[2] : p \in {q \in received[r] : Access(q[1])}}

HandOver(r) ==
  /\ read[r].pc = "idle" /\ received[r] # {}
  /\ Look
  /\ received' = [received EXCEPT ![r] = {}]
  /\ attempted' = [attempted EXCEPT ![r] = MaxAttachments]
  /\ UNCHANGED <<storeVars, gate, read, remaining, spent>>

-----------------------------------------------------------------------------
Event ==
  /\ \/ \E m \in Messages : SendMessage(m) \/ Recall(m)
     \/ \E a \in Attachments, l \in Locators \cup {0} : Remember(a, l)
     \/ Tick /\ \A f \in Stored(files) : files[f].part => now < files[f].since + CacheTtl
  /\ downloaded' = Remembering
  /\ UNCHANGED <<storeVars, gate, read, remaining, attempted, received, spent>>

\* A download of an outgoing attachment takes the store's lock without the gate.
OtherTransfer(x) ==
  /\ \/ loopLock # x /\ Admit(x, MaxBytes, now)
     \/ loopLock # x /\ Refuse(MaxBytes, now)
     \/ Chunk(x, now)
     \/ Publish(x)
     \/ Abandon(x)
  /\ UNCHANGED <<refVars, readVars>>

ThreadStep(w) ==
  /\ \/ \E n \in 1..MaxBytes : Stage(w, n, now)
     \/ \E ok \in BOOLEAN : Staged(w, ok)
  /\ UNCHANGED <<refVars, readVars>>

Resolve(r) ==
  \/ Enter(r) \/ StartTransfer(r) \/ EndOfBytes(r) \/ TransferFails(r) \/ LocatorStale(r)
  \/ RequestFails(r)
  \/ \E l \in Locators \cup {0} : Refreshed(r, l)

Next ==
  \/ Event
  \/ \E r \in Readers : Resolve(r) \/ ReadChunk(r) \/ HandOver(r)
  \/ \E r \in Readers, i \in Ids : Begin(r, i)
  \/ \E x \in Transfers \ Readers : OtherTransfer(x)
  \/ \E w \in Threads : ThreadStep(w)

Spec == Init /\ [][Next]_vars

-----------------------------------------------------------------------------
(* Properties *)

TypeOK ==
  /\ RefTypeOK /\ StoreTypeOK
  /\ gate \in Readers \cup {Nobody}
  /\ read \in [Readers -> [pc : {"idle", "gate", "transfer", "bytes", "refresh"},
                           id : Ids \cup {0}, att : Attachments \cup {0},
                           allowance : 0..MaxBytes, tries : 0..3]]
  /\ remaining \in [Turns -> 0..MaxTurnBytes] /\ attempted \in [Readers -> 0..MaxAttachments]
  /\ downloaded \in [Ids -> [file : Files \cup {0}, since : Nat]]
  /\ received \in [Readers -> SUBSET (Ids \X Attachments)]
  /\ spent \in [Turns -> Nat]

\* No attachment of a recalled message is handed on, whichever wait the recall
\* fell into: the gate, the transfer, the refresh, or the work on other attachments.
NothingRecalledGiven ==
  [][\A r \in Readers : HandOver(r) => \A a \in Given(r) : MessageOf[a] \notin withdrawn]_vars

\* One event never costs more bytes than max_turn_bytes, however its attachments
\* fail, are refreshed, or come out of the cache.  A byte counts when it is written
\* or taken from the cache; the chunk by which an HTTP server exceeds an allowance
\* is read from the socket and dropped.
TurnBudget == \A r \in Turns : spent[r] <= MaxTurnBytes

\* However a read or a transfer ends, nothing of it stays behind: no gate, no lock, no
\* reserved byte, no half-written file.
NothingLeaks ==
  /\ \A r \in Readers : gate = r <=> read[r].pc \in {"transfer", "bytes", "refresh"}
  /\ \A r \in Readers : loopLock = r <=> read[r].pc = "bytes"
  /\ reserved = IF loopLock = Nobody THEN 0 ELSE limitOf[loopLock]
  /\ {files[f].by : f \in {g \in Files : files[g].part}} =
       {loopLock, threadLock} \ {Nobody}
=============================================================================
