----------------------------- MODULE StreamUpload -----------------------------
(***************************************************************************)
(* Staging a large file on NapCat before it is sent (stream_upload.py):    *)
(* the file goes out in numbered chunks, each acknowledged, over one       *)
(* connection; a final request makes NapCat assemble it.  The result is a  *)
(* path that is good only on that connection and for a limited time.       *)
(*                                                                         *)
(* The contents of a file are a version number, which another process may  *)
(* raise between any two reads; a chunk holds the version it was read      *)
(* from.  A file hashed while it changes matches nothing read later, so    *)
(* the hash is that of one version.                                        *)
(***************************************************************************)
EXTENDS Integers, Sequences, FiniteSets

CONSTANTS
  Uploads,
  Chunks,                      \* chunks of a file
  MaxConcurrent, MaxPending,   \* limits of the configuration
  MaxEpoch, MaxVersion         \* bounds: connections, contents of a file

ASSUME UploadAssumption == /\ {Chunks, MaxConcurrent, MaxPending, MaxEpoch} \subseteq Nat \ {0}
                           /\ MaxVersion \in Nat \ {0}

VARIABLES
  epoch, connected,   \* connection_epoch and connected of the transport
  version,            \* of the local file of each upload
  up,                 \* the coroutine of each upload
  server,             \* what NapCat holds of it: its chunks, and whether assembled
  staged,             \* epoch of the returned StreamedMedia, 0 if there is none
  lapsed              \* uploads whose `expires` has passed

uploadVars == <<version, up, staged, lapsed>>
linkVars == <<epoch, connected>>

NoUpload == [pc |-> "none", epoch |-> 0, hash |-> 0, read |-> <<>>]
Nothing == [chunks |-> <<>>, whole |-> FALSE]

UploadInit ==
  /\ epoch = 1 /\ connected = TRUE
  /\ version = [u \in Uploads |-> 1]
  /\ up = [u \in Uploads |-> NoUpload]
  /\ server = [u \in Uploads |-> Nothing]
  /\ staged = [u \in Uploads |-> 0]
  /\ lapsed = {}

Streaming == {"read", "ack", "final"}
Active == {u \in Uploads : up[u].pc \in Streaming \cup {"reset"}}
Tasks == {u \in Uploads : up[u].pc \in Streaming \cup {"slot", "reset"}}
OnLink(u) == connected /\ epoch = up[u].epoch

\* Every transport.call of an upload names its epoch.
Goto(u, pc) == up' = [up EXCEPT ![u].pc = pc]
Over == [NoUpload EXCEPT !.pc = "failed"]

-----------------------------------------------------------------------------
\* upload(): refused at once when too many are pending.
Upload(u) ==
  /\ up[u].pc = "none"
  /\ up' = [up EXCEPT ![u] = IF Cardinality(Tasks) < MaxPending
                             THEN [@ EXCEPT !.pc = "slot"] ELSE Over]
  /\ UNCHANGED <<linkVars, version, server, staged, lapsed>>

\* A slot is free: the connection of the moment is the one, the file is hashed.
TakeSlot(u) ==
  /\ up[u].pc = "slot" /\ Cardinality(Active) < MaxConcurrent
  /\ up' = [up EXCEPT ![u] = IF connected
             THEN [pc |-> "read", epoch |-> epoch, hash |-> version[u], read |-> <<>>]
             ELSE Over]
  /\ UNCHANGED <<linkVars, version, server, staged, lapsed>>

\* The next chunk is read and written; NapCat receives it or it is lost.
SendChunk(u) ==
  /\ up[u].pc = "read" /\ Len(up[u].read) < Chunks /\ OnLink(u)
  /\ up' = [up EXCEPT ![u].pc = "ack", ![u].read = Append(@, version[u])]
  /\ server' = [server EXCEPT ![u].chunks = Append(@, version[u])]
  /\ UNCHANGED <<linkVars, version, staged, lapsed>>

\* The acknowledgement counts the chunks that NapCat has.
ChunkAcked(u) ==
  /\ up[u].pc = "ack" /\ OnLink(u)
  /\ Len(server[u].chunks) = Len(up[u].read)
  /\ Goto(u, "read")
  /\ UNCHANGED <<linkVars, version, server, staged, lapsed>>

\* Nothing may follow the last chunk, and what was sent must have the hash; then
\* NapCat is told to assemble the file.
Finish(u) ==
  /\ up[u].pc = "read" /\ Len(up[u].read) = Chunks /\ OnLink(u)
  /\ \A i \in 1..Chunks : up[u].read[i] = up[u].hash
  /\ Goto(u, "final")
  /\ server' = [server EXCEPT ![u].whole = Len(server[u].chunks) = Chunks]
  /\ UNCHANGED <<linkVars, version, staged, lapsed>>

\* The size and the hash that NapCat computed agree.
Assembled(u) ==
  /\ up[u].pc = "final" /\ OnLink(u)
  /\ server[u].whole /\ \A i \in 1..Chunks : server[u].chunks[i] = up[u].hash
  /\ Goto(u, "done")
  /\ staged' = [staged EXCEPT ![u] = up[u].epoch]
  /\ UNCHANGED <<linkVars, version, server, lapsed>>

\* Any error, a time-out, or the cancellation of the task.  What was begun is reset,
\* once, and only on the connection it was begun on.
Attempted(u) == up[u].pc \in Streaming /\ up[u].read # <<>>
Ended(u) == IF Attempted(u) /\ OnLink(u) THEN [up[u] EXCEPT !.pc = "reset"] ELSE Over

UploadFails(u) ==
  /\ up[u].pc \in Streaming \cup {"slot"}
  /\ up' = [up EXCEPT ![u] = Ended(u)]
  /\ UNCHANGED <<linkVars, version, server, staged, lapsed>>

\* Whether NapCat complied is not known.
ResetEnds(u) ==
  /\ up[u].pc = "reset"
  /\ up' = [up EXCEPT ![u] = Over]
  /\ server' \in {server, [server EXCEPT ![u] = Nothing]}
  /\ UNCHANGED <<linkVars, version, staged, lapsed>>

\* close(): every task is cancelled.
CloseStreams ==
  /\ Tasks # {}
  /\ up' = [u \in Uploads |-> IF u \in Tasks THEN Ended(u) ELSE up[u]]
  /\ UNCHANGED <<linkVars, version, server, staged, lapsed>>

UploadStep(u) == \/ TakeSlot(u) \/ SendChunk(u) \/ ChunkAcked(u) \/ Finish(u) \/ Assembled(u)
                 \/ UploadFails(u) \/ ResetEnds(u)

-----------------------------------------------------------------------------
(* The environment *)

Lose == /\ connected
        /\ connected' = FALSE
        /\ UNCHANGED <<epoch, server, uploadVars>>

\* A new connection, to the same NapCat or to one that was started afresh.
Reconnect == /\ ~connected /\ epoch < MaxEpoch
             /\ connected' = TRUE /\ epoch' = epoch + 1
             /\ server' \in {server, [u \in Uploads |-> Nothing]}
             /\ UNCHANGED uploadVars

\* The file changes after it was hashed; what it held earlier makes no difference.
Edit(u) == /\ version[u] < MaxVersion /\ up[u].pc \in Streaming
           /\ version' = [version EXCEPT ![u] = @ + 1]
           /\ UNCHANGED <<linkVars, server, up, staged, lapsed>>

\* The retention passes: first for the holder of the path, later for NapCat.
Lapse(u) == /\ staged[u] # 0 /\ u \notin lapsed
            /\ lapsed' = lapsed \cup {u}
            /\ UNCHANGED <<linkVars, server, version, up, staged>>

Collect(u) == /\ u \in lapsed /\ server[u] # Nothing
              /\ server' = [server EXCEPT ![u] = Nothing]
              /\ UNCHANGED <<linkVars, uploadVars>>

Environment == Lose \/ Reconnect \/ \E u \in Uploads : Edit(u) \/ Lapse(u) \/ Collect(u)

-----------------------------------------------------------------------------
\* StreamedMedia.validate(): the path may still be used.
Usable(u) == connected /\ epoch = staged[u] /\ u \notin lapsed

UploadTypeOK ==
  /\ epoch \in 1..MaxEpoch /\ connected \in BOOLEAN
  /\ version \in [Uploads -> 1..MaxVersion]
  /\ up \in [Uploads -> [pc : Streaming \cup {"none", "slot", "reset", "done", "failed"},
                         epoch : 0..MaxEpoch, hash : 0..MaxVersion, read : Seq(1..MaxVersion)]]
  /\ server \in [Uploads -> [chunks : Seq(1..MaxVersion), whole : BOOLEAN]]
  /\ staged \in [Uploads -> 0..MaxEpoch] /\ lapsed \subseteq Uploads
=============================================================================
