------------------------------ MODULE MediaStore ------------------------------
(***************************************************************************)
(* The cache of downloaded media (media.py) and its quota.                 *)
(*                                                                         *)
(* A transfer on the event loop holds the store's asyncio lock and a       *)
(* reservation of its whole allowance while it writes a .part file.        *)
(* Staging into the shared directory and decoding of inline media run in   *)
(* worker threads; they hold the thread lock from their quota test to the  *)
(* publication, and the event loop stops whenever it wants that lock.      *)
(***************************************************************************)
EXTENDS Integers, FiniteSets, Functions

CONSTANTS
  Transfers,      \* who may transfer on the event loop
  Threads,        \* worker threads
  CacheMax,       \* cache_max_bytes
  CacheTtl,       \* cache_ttl_seconds
  MaxFiles,       \* bound: files at one time
  Nobody

ASSUME StoreAssumption == /\ CacheMax \in Nat /\ CacheTtl \in Nat \ {0}
                          /\ MaxFiles \in Nat /\ Nobody \notin Transfers \cup Threads
                          /\ Transfers \cap Threads = {}

Files == 1..MaxFiles
NoFile == [size |-> 0, since |-> 0, part |-> FALSE, by |-> Nobody]

VARIABLES
  files,      \* the files of the store, finished or .part, with their modification time
  reserved,   \* _reserved_bytes
  loopLock,   \* holder of the asyncio lock
  threadLock, \* worker thread that holds the storage lock
  limitOf     \* the allowance of a transfer under way, 0 if there is none

storeVars == <<files, reserved, loopLock, threadLock, limitOf>>

StoreInit ==
  /\ files = [f \in Files |-> NoFile]
  /\ reserved = 0
  /\ loopLock = Nobody /\ threadLock = Nobody
  /\ limitOf = [t \in Transfers |-> 0]

Stored(table) == {f \in Files : table[f] # NoFile}
Bytes(table) == SumFunctionOnSet([f \in Files |-> table[f].size], Files)

\* Mutant: the quota test overlooks what a transfer under way may still write.
MutFits(table, n) == Bytes(table) + n <= CacheMax

\* What _prune_and_usage leaves at a given time.
Recent(time) == [f \in Files |-> IF files[f] # NoFile /\ files[f].since + CacheTtl < time
                                 THEN NoFile ELSE files[f]]
Unused(table) == CHOOSE f \in Files : table[f] = NoFile
Fits(table, n) == Bytes(table) + reserved + n <= CacheMax

PartOf(x) == CHOOSE f \in Files : files[f].part /\ files[f].by = x
Finished(file) == [file EXCEPT !.part = FALSE, !.by = Nobody]

-----------------------------------------------------------------------------
(* A transfer: download() and import_stream() *)

Admit(t, limit, time) ==
  /\ loopLock = Nobody /\ threadLock = Nobody
  /\ Fits(Recent(time), limit)
  /\ reserved' = reserved + limit
  /\ limitOf' = [limitOf EXCEPT ![t] = limit]
  /\ loopLock' = t
  /\ Stored(Recent(time)) # Files
  /\ files' = [Recent(time) EXCEPT ![Unused(Recent(time))] =
       [size |-> 0, since |-> time, part |-> TRUE, by |-> t]]
  /\ UNCHANGED threadLock

\* The quota is exhausted: the transfer is refused, recent files are kept.
Refuse(limit, time) ==
  /\ loopLock = Nobody /\ threadLock = Nobody
  /\ ~Fits(Recent(time), limit)
  /\ files' = Recent(time)
  /\ UNCHANGED <<reserved, loopLock, threadLock, limitOf>>

Chunk(t, time) ==
  /\ loopLock = t
  /\ files[PartOf(t)].size < limitOf[t]
  /\ LET part == files[PartOf(t)]
     IN  files' = [files EXCEPT ![PartOf(t)] =
           [part EXCEPT !.size = part.size + 1, !.since = time]]
  /\ UNCHANGED <<reserved, loopLock, threadLock, limitOf>>

\* The reservation ends with the transfer, published or not.
EndTransfer(t) ==
  /\ loopLock = t /\ threadLock = Nobody
  /\ reserved' = reserved - limitOf[t]
  /\ limitOf' = [limitOf EXCEPT ![t] = 0]
  /\ loopLock' = Nobody
  /\ UNCHANGED threadLock

Publish(t) ==
  /\ loopLock = t /\ files[PartOf(t)].size > 0
  /\ files' = [files EXCEPT ![PartOf(t)] = Finished(files[PartOf(t)])]
  /\ EndTransfer(t)

Abandon(t) ==
  /\ loopLock = t
  /\ files' = [files EXCEPT ![PartOf(t)] = NoFile]
  /\ EndTransfer(t)

-----------------------------------------------------------------------------
(* A worker thread: _reference() with a shared directory, import_inline() *)

Stage(w, n, time) ==
  /\ threadLock = Nobody
  /\ Fits(Recent(time), n)
  /\ threadLock' = w
  /\ Stored(Recent(time)) # Files
  /\ files' = [Recent(time) EXCEPT ![Unused(Recent(time))] =
       [size |-> n, since |-> time, part |-> TRUE, by |-> w]]
  /\ UNCHANGED <<reserved, loopLock, limitOf>>

\* The copy is published, or removed because the source changed meanwhile.
Staged(w, ok) ==
  /\ threadLock = w
  /\ files' = [files EXCEPT ![PartOf(w)] =
       IF ok THEN Finished(files[PartOf(w)]) ELSE NoFile]
  /\ threadLock' = Nobody
  /\ UNCHANGED <<reserved, loopLock, limitOf>>

-----------------------------------------------------------------------------
StoreTypeOK ==
  /\ files \in [Files -> [size : Nat, since : Nat, part : BOOLEAN,
                          by : Transfers \cup Threads \cup {Nobody}]]
  /\ reserved \in Nat
  /\ loopLock \in Transfers \cup {Nobody} /\ threadLock \in Threads \cup {Nobody}
  /\ limitOf \in [Transfers -> Nat]

\* The files of the store, half-written ones included, never exceed its quota,
\* however loop transfers and worker threads overlap.
QuotaHolds == Bytes(files) <= CacheMax
=============================================================================
