---------------------------- MODULE OutboundProofs ----------------------------
(***************************************************************************)
(* That a request which names a staged file is written only while NapCat   *)
(* has that file, and that what a caller is told of a delivery is and      *)
(* stays true, for every number of uploads, chunks, connections and        *)
(* deliveries; and the type correctness both need.                         *)
(***************************************************************************)
EXTENDS Outbound, DataFacts

\* NapCat assembles a file once, after all its chunks.
Assembly(u) == /\ up[u].pc \in {"none", "slot", "read", "ack"} => ~server[u].whole
               /\ server[u].whole => Len(server[u].chunks) = Chunks

\* What a usable path stands for.
Holds(u) == server[u].whole /\ \A i \in 1..Chunks : server[u].chunks[i] = up[u].hash
Path(u) == staged[u] <= epoch /\ (up[u].pc = "done" /\ Usable(u) => Holds(u))

UploadInv == UploadTypeOK /\ \A u \in Uploads : Assembly(u) /\ Path(u)

\* A delivery that is past its staging has no upload, or one that is complete.
Prepared(d) == /\ pc[d] = "idle" => up[d].pc = "none"
               /\ pc[d] \notin {"upload", "over"} => up[d].pc \in {"none", "done"}

OutboundInv == TypeOK /\ UploadInv /\ \A d \in Deliveries : Prepared(d)

USE UploadAssumption, OutboundAssumption DEF UploadAssumption, OutboundAssumption

-----------------------------------------------------------------------------
(* Types of the uploads *)

Stages == Streaming \cup {"none", "slot", "reset", "done", "failed"}
Coroutine == [pc : Stages, epoch : 0..MaxEpoch, hash : 0..MaxVersion, read : Seq(1..MaxVersion)]
Store == [chunks : Seq(1..MaxVersion), whole : BOOLEAN]

\* The variables of which UploadTypeOK speaks, but those of the coroutines.
Grounds == /\ epoch \in 1..MaxEpoch /\ connected \in BOOLEAN
           /\ version \in [Uploads -> 1..MaxVersion]
           /\ staged \in [Uploads -> 0..MaxEpoch] /\ lapsed \subseteq Uploads

LEMMA Types == UploadTypeOK <=> /\ Grounds /\ up \in [Uploads -> Coroutine]
                                /\ server \in [Uploads -> Store]
  BY DEF UploadTypeOK, Grounds, Coroutine, Stages, Store

LEMMA TypesNext == UploadTypeOK' <=> /\ Grounds' /\ up' \in [Uploads -> Coroutine]
                                     /\ server' \in [Uploads -> Store]
  BY DEF UploadTypeOK, Grounds, Coroutine, Stages, Store

\* A coroutine that moves on, reads a chunk, or ends.
LEMMA Staging ==
  ASSUME NEW c \in Coroutine, NEW p \in Stages PROVE [c EXCEPT !.pc = p] \in Coroutine
<1>1. [c EXCEPT !.pc = p]
       = [pc |-> p, epoch |-> c.epoch, hash |-> c.hash, read |-> c.read]
  BY DEF Coroutine
<1>2. /\ c.epoch \in 0..MaxEpoch /\ c.hash \in 0..MaxVersion
      /\ c.read \in Seq(1..MaxVersion)
  BY DEF Coroutine
<1> QED BY <1>1, <1>2 DEF Coroutine

LEMMA Reading ==
  ASSUME NEW c \in Coroutine, NEW p \in Stages, NEW s \in Seq(1..MaxVersion)
  PROVE  [[c EXCEPT !.pc = p] EXCEPT !.read = s] \in Coroutine
<1>1. [c EXCEPT !.pc = p] \in Coroutine BY Staging
<1>2. ASSUME NEW e \in Coroutine PROVE [e EXCEPT !.read = s] \in Coroutine
  BY DEF Coroutine
<1> QED BY <1>1, <1>2 DEF Coroutine

LEMMA Ends == Over \in Coroutine /\ Over.pc = "failed"
<1>1. Over = [pc |-> "failed", epoch |-> 0, hash |-> 0, read |-> <<>>] BY DEF Over, NoUpload
<1>2. 0 \in 0..MaxEpoch /\ 0 \in 0..MaxVersion OBVIOUS
<1>3. <<>> \in Seq(1..MaxVersion) OBVIOUS
<1> QED BY <1>1, <1>2, <1>3 DEF Coroutine, Stages

LEMMA Ending ==
  ASSUME up \in [Uploads -> Coroutine], NEW u \in Uploads PROVE Ended(u) \in Coroutine
<1>1. up[u] \in Coroutine /\ "reset" \in Stages BY DEF Stages
<1> QED BY <1>1, Staging, Ends DEF Ended

\* Most steps change the coroutines only.
LEMMA Retyped ==
  ASSUME UploadTypeOK, up' \in [Uploads -> Coroutine],
         UNCHANGED <<epoch, connected, version, server, staged, lapsed>>
  PROVE  UploadTypeOK'
  BY Types, TypesNext DEF Grounds

-----------------------------------------------------------------------------
(* The uploads *)

LEMMA UploadKeeps ==
  ASSUME UploadInv, NEW u \in Uploads, Upload(u) PROVE UploadInv'
<1>1. UploadTypeOK'
  <2>1. up \in [Uploads -> Coroutine] BY Types DEF UploadInv
  <2>2. /\ UNCHANGED <<epoch, connected, version, server, staged, lapsed>>
        /\ \/ up' = [up EXCEPT ![u] = [up[u] EXCEPT !.pc = "slot"]]
           \/ up' = [up EXCEPT ![u] = Over]
    BY DEF Upload, linkVars
  <2>3. [up[u] EXCEPT !.pc = "slot"] \in Coroutine BY <2>1, Staging DEF Stages
  <2> QED BY <2>1, <2>2, <2>3, Ends, Retyped DEF UploadInv
<1>2. ASSUME NEW w \in Uploads PROVE (Assembly(w) /\ Path(w))'
  <2>1. /\ UNCHANGED <<epoch, connected, server, staged, lapsed>>
        /\ up[u].pc = "none" /\ up'[u].pc \in {"slot", "failed"}
        /\ w # u => up'[w] = up[w]
    BY DEF UploadInv, UploadTypeOK, Upload, linkVars, Over, NoUpload
  <2>2. Assembly(w) /\ Path(w) BY DEF UploadInv
  <2> QED BY <2>1, <2>2 DEF Assembly, Path, Usable, Holds
<1> QED BY <1>1, <1>2 DEF UploadInv

LEMMA TakeSlotKeeps ==
  ASSUME UploadInv, NEW u \in Uploads, TakeSlot(u) PROVE UploadInv'
<1>1. UploadTypeOK'
  <2>1. up \in [Uploads -> Coroutine] /\ Grounds
    BY Types DEF UploadInv
  <2> DEFINE begun == [pc |-> "read", epoch |-> epoch, hash |-> version[u], read |-> <<>>]
  <2>2. /\ UNCHANGED <<epoch, connected, version, server, staged, lapsed>>
        /\ up' = [up EXCEPT ![u] = begun] \/ up' = [up EXCEPT ![u] = Over]
    BY DEF TakeSlot, linkVars
  <2>3. epoch \in 0..MaxEpoch /\ version[u] \in 0..MaxVersion BY <2>1 DEF Grounds
  <2>4. begun \in Coroutine BY <2>3 DEF Coroutine, Stages, Streaming
  <2> QED BY <2>1, <2>2, <2>4, Ends, Retyped DEF UploadInv
<1>2. ASSUME NEW w \in Uploads PROVE (Assembly(w) /\ Path(w))'
  <2>1. /\ UNCHANGED <<epoch, connected, server, staged, lapsed>>
        /\ up[u].pc = "slot" /\ up'[u].pc \in {"read", "failed"}
        /\ w # u => up'[w] = up[w]
    BY DEF UploadInv, UploadTypeOK, TakeSlot, linkVars, Over, NoUpload
  <2>2. Assembly(w) /\ Path(w) BY DEF UploadInv
  <2> QED BY <2>1, <2>2 DEF Assembly, Path, Usable, Holds
<1> QED BY <1>1, <1>2 DEF UploadInv

LEMMA SendChunkKeeps ==
  ASSUME UploadInv, NEW u \in Uploads, SendChunk(u) PROVE UploadInv'
<1>1. UploadTypeOK'
  <2>1. up \in [Uploads -> Coroutine] /\ server \in [Uploads -> Store] /\ Grounds
    BY Types DEF UploadInv
  <2>2. UNCHANGED <<epoch, connected, version, staged, lapsed>> BY DEF SendChunk, linkVars
  <2>3. version[u] \in 1..MaxVersion /\ up[u] \in Coroutine /\ server[u] \in Store
    BY <2>1 DEF Grounds
  <2>4. Append(up[u].read, version[u]) \in Seq(1..MaxVersion) /\ "ack" \in Stages
    BY <2>3 DEF Coroutine, Stages, Streaming
  <2>5. up' \in [Uploads -> Coroutine]
    <3>1. up' = [up EXCEPT ![u] = [[up[u] EXCEPT !.pc = "ack"]
                                    EXCEPT !.read = Append(up[u].read, version[u])]]
      BY <2>1 DEF SendChunk
    <3> QED BY <3>1, <2>1, <2>3, <2>4, Reading
  <2>6. server' \in [Uploads -> Store]
    <3>1. Append(server[u].chunks, version[u]) \in Seq(1..MaxVersion) BY <2>3 DEF Store
    <3>2. server' = [server EXCEPT ![u] = [server[u] EXCEPT
                                            !.chunks = Append(server[u].chunks, version[u])]]
      BY <2>1 DEF SendChunk
    <3>3. [server[u] EXCEPT !.chunks = Append(server[u].chunks, version[u])] \in Store
      BY <2>3, <3>1 DEF Store
    <3> QED BY <3>2, <3>3, <2>1
  <2> QED BY <2>1, <2>2, <2>5, <2>6, TypesNext DEF Grounds
<1>2. ASSUME NEW w \in Uploads PROVE (Assembly(w) /\ Path(w))'
  <2>1. /\ UNCHANGED <<epoch, connected, staged, lapsed>>
        /\ up[u].pc = "read" /\ up'[u].pc = "ack" /\ server'[u].whole = server[u].whole
        /\ w # u => up'[w] = up[w] /\ server'[w] = server[w]
    BY DEF UploadInv, UploadTypeOK, SendChunk, linkVars
  <2>2. Assembly(w) /\ Path(w) /\ Assembly(u) BY DEF UploadInv
  <2> QED BY <2>1, <2>2 DEF Assembly, Path, Usable, Holds
<1> QED BY <1>1, <1>2 DEF UploadInv

LEMMA ChunkAckedKeeps ==
  ASSUME UploadInv, NEW u \in Uploads, ChunkAcked(u) PROVE UploadInv'
<1>1. UploadTypeOK'
  <2>1. up \in [Uploads -> Coroutine] BY Types DEF UploadInv
  <2>2. /\ UNCHANGED <<epoch, connected, version, server, staged, lapsed>>
        /\ up' = [up EXCEPT ![u] = [up[u] EXCEPT !.pc = "read"]]
    BY <2>1 DEF ChunkAcked, Goto, linkVars
  <2>3. [up[u] EXCEPT !.pc = "read"] \in Coroutine BY <2>1, Staging DEF Stages, Streaming
  <2> QED BY <2>1, <2>2, <2>3, Retyped DEF UploadInv
<1>2. ASSUME NEW w \in Uploads PROVE (Assembly(w) /\ Path(w))'
  <2>1. /\ UNCHANGED <<epoch, connected, server, staged, lapsed>>
        /\ up[u].pc = "ack" /\ up'[u].pc = "read"
        /\ w # u => up'[w] = up[w]
    BY DEF UploadInv, UploadTypeOK, ChunkAcked, Goto, linkVars
  <2>2. Assembly(w) /\ Path(w) BY DEF UploadInv
  <2> QED BY <2>1, <2>2 DEF Assembly, Path, Usable, Holds
<1> QED BY <1>1, <1>2 DEF UploadInv

\* Only here does a file become whole, and then all its chunks are there.
LEMMA FinishKeeps ==
  ASSUME UploadInv, NEW u \in Uploads, Finish(u) PROVE UploadInv'
<1>1. UploadTypeOK'
  <2>1. up \in [Uploads -> Coroutine] /\ server \in [Uploads -> Store] /\ Grounds
    BY Types DEF UploadInv
  <2> DEFINE all == Len(server[u].chunks) = Chunks
  <2>2. /\ UNCHANGED <<epoch, connected, version, staged, lapsed>>
        /\ up' = [up EXCEPT ![u] = [up[u] EXCEPT !.pc = "final"]]
        /\ server' = [server EXCEPT ![u] = [server[u] EXCEPT !.whole = all]]
    BY <2>1 DEF Finish, Goto, linkVars
  <2>3. [up[u] EXCEPT !.pc = "final"] \in Coroutine BY <2>1, Staging DEF Stages, Streaming
  <2>4. [server[u] EXCEPT !.whole = all] \in Store BY <2>1 DEF Store
  <2> QED BY <2>1, <2>2, <2>3, <2>4, TypesNext DEF Grounds
<1>2. ASSUME NEW w \in Uploads PROVE (Assembly(w) /\ Path(w))'
  <2>1. up \in [Uploads -> Coroutine] /\ server \in [Uploads -> Store] BY Types DEF UploadInv
  <2>2. /\ UNCHANGED <<epoch, connected, staged, lapsed>>
        /\ up[u].pc = "read" /\ up' = [up EXCEPT ![u] = [up[u] EXCEPT !.pc = "final"]]
        /\ server' = [server EXCEPT ![u] =
             [server[u] EXCEPT !.whole = (Len(server[u].chunks) = Chunks)]]
    BY <2>1 DEF Finish, Goto, linkVars
  <2>3. up'[u].pc = "final" BY <2>1, <2>2 DEF Coroutine
  <2>4. /\ server'[u].chunks = server[u].chunks
        /\ server'[u].whole => Len(server[u].chunks) = Chunks
    BY <2>1, <2>2 DEF Store
  <2>5. w # u => up'[w] = up[w] /\ server'[w] = server[w] BY <2>1, <2>2
  <2>6. Assembly(w) /\ Path(w) BY DEF UploadInv
  <2> QED BY <2>2, <2>3, <2>4, <2>5, <2>6 DEF Assembly, Path, Usable, Holds
<1> QED BY <1>1, <1>2 DEF UploadInv

\* The path is handed out: at this moment the file is what was hashed.
LEMMA AssembledKeeps ==
  ASSUME UploadInv, NEW u \in Uploads, Assembled(u) PROVE UploadInv'
<1>1. UploadTypeOK'
  <2>1. up \in [Uploads -> Coroutine] /\ server \in [Uploads -> Store] /\ Grounds
    BY Types DEF UploadInv
  <2>2. /\ UNCHANGED <<epoch, connected, version, server, lapsed>>
        /\ up' = [up EXCEPT ![u] = [up[u] EXCEPT !.pc = "done"]]
        /\ staged' = [staged EXCEPT ![u] = up[u].epoch]
    BY <2>1 DEF Assembled, Goto, linkVars
  <2>3. [up[u] EXCEPT !.pc = "done"] \in Coroutine BY <2>1, Staging DEF Stages
  <2>4. up[u].epoch \in 0..MaxEpoch BY <2>1 DEF Coroutine
  <2> QED BY <2>1, <2>2, <2>3, <2>4, TypesNext DEF Grounds
<1>2. ASSUME NEW w \in Uploads PROVE (Assembly(w) /\ Path(w))'
  <2>1. /\ UNCHANGED <<epoch, connected, server, lapsed>>
        /\ up[u].pc = "final" /\ up'[u].pc = "done" /\ up'[u].hash = up[u].hash
        /\ staged'[u] = epoch /\ Holds(u)
        /\ w # u => up'[w] = up[w] /\ staged'[w] = staged[w]
        /\ epoch \in Nat
    BY DEF UploadInv, UploadTypeOK, Assembled, Goto, OnLink, linkVars, Holds
  <2>2. Assembly(w) /\ Path(w) BY DEF UploadInv
  <2> QED BY <2>1, <2>2 DEF Assembly, Path, Usable, Holds
<1> QED BY <1>1, <1>2 DEF UploadInv

LEMMA UploadFailsKeeps ==
  ASSUME UploadInv, NEW u \in Uploads, UploadFails(u) PROVE UploadInv'
<1>1. UploadTypeOK'
  <2>1. up \in [Uploads -> Coroutine] BY Types DEF UploadInv
  <2> QED BY <2>1, Ending, Retyped DEF UploadInv, UploadFails, linkVars
<1>2. ASSUME NEW w \in Uploads PROVE (Assembly(w) /\ Path(w))'
  <2>1. /\ UNCHANGED <<epoch, connected, server, staged, lapsed>>
        /\ up'[u].pc \in {"reset", "failed"}
        /\ w # u => up'[w] = up[w]
    BY DEF UploadInv, UploadTypeOK, UploadFails, Ended, Over, NoUpload, linkVars
  <2>2. Assembly(w) /\ Path(w) BY DEF UploadInv
  <2> QED BY <2>1, <2>2 DEF Assembly, Path, Usable, Holds
<1> QED BY <1>1, <1>2 DEF UploadInv

LEMMA ResetEndsKeeps ==
  ASSUME UploadInv, NEW u \in Uploads, ResetEnds(u) PROVE UploadInv'
<1>1. UploadTypeOK'
  <2>1. up \in [Uploads -> Coroutine] /\ server \in [Uploads -> Store] /\ Grounds
    BY Types DEF UploadInv
  <2>2. /\ UNCHANGED <<epoch, connected, version, staged, lapsed>>
        /\ up' = [up EXCEPT ![u] = Over]
        /\ server' = server \/ server' = [server EXCEPT ![u] = Nothing]
    BY DEF ResetEnds, linkVars
  <2>3. Nothing \in Store BY DEF Nothing, Store
  <2> QED BY <2>1, <2>2, <2>3, Ends, TypesNext DEF Grounds
<1>2. ASSUME NEW w \in Uploads PROVE (Assembly(w) /\ Path(w))'
  <2>1. /\ UNCHANGED <<epoch, connected, staged, lapsed>>
        /\ up'[u].pc = "failed" /\ (server'[u] = server[u] \/ ~server'[u].whole)
        /\ w # u => up'[w] = up[w] /\ server'[w] = server[w]
    BY DEF UploadInv, UploadTypeOK, ResetEnds, Nothing, Over, NoUpload, linkVars
  <2>2. Assembly(w) /\ Path(w) BY DEF UploadInv
  <2> QED BY <2>1, <2>2 DEF Assembly, Path, Usable, Holds
<1> QED BY <1>1, <1>2 DEF UploadInv

LEMMA CloseKeeps == ASSUME UploadInv, CloseStreams PROVE UploadInv'
<1>1. UploadTypeOK'
  <2>1. up \in [Uploads -> Coroutine] BY Types DEF UploadInv
  <2>2. \A w \in Uploads : Ended(w) \in Coroutine BY <2>1, Ending
  <2> QED BY <2>1, <2>2, Retyped DEF UploadInv, CloseStreams, linkVars
<1>2. ASSUME NEW w \in Uploads PROVE (Assembly(w) /\ Path(w))'
  <2>1. /\ UNCHANGED <<epoch, connected, server, staged, lapsed>>
        /\ up'[w] = up[w] \/ up'[w].pc \in {"reset", "failed"}
    BY DEF UploadInv, UploadTypeOK, CloseStreams, Ended, Over, NoUpload, linkVars
  <2>2. Assembly(w) /\ Path(w) BY DEF UploadInv
  <2> QED BY <2>1, <2>2 DEF Assembly, Path, Usable, Holds
<1> QED BY <1>1, <1>2 DEF UploadInv

-----------------------------------------------------------------------------
(* Their environment *)

\* A new connection has a number that no path bears.
LEMMA ReconnectKeeps == ASSUME UploadInv, Reconnect PROVE UploadInv'
<1>1. UploadTypeOK'
  <2>1. up \in [Uploads -> Coroutine] /\ server \in [Uploads -> Store] /\ Grounds
    BY Types DEF UploadInv
  <2>2. epoch' \in 1..MaxEpoch BY <2>1 DEF Reconnect, Grounds
  <2>3. Nothing \in Store BY DEF Nothing, Store
  <2>4. [u \in Uploads |-> Nothing] \in [Uploads -> Store] BY <2>3
  <2>5. server' \in [Uploads -> Store] BY <2>1, <2>4 DEF Reconnect
  <2> QED BY <2>1, <2>2, <2>5, TypesNext DEF Reconnect, uploadVars, Grounds
<1>2. ASSUME NEW w \in Uploads PROVE (Assembly(w) /\ Path(w))'
  <2>1. /\ epoch' = epoch + 1 /\ epoch \in Nat /\ staged[w] \in Nat
        /\ UNCHANGED <<up, staged>>
        /\ server'[w] = server[w] \/ ~server'[w].whole
    BY DEF UploadInv, UploadTypeOK, Reconnect, Nothing, uploadVars
  <2>2. Assembly(w) /\ staged[w] <= epoch BY DEF UploadInv, Path
  <2> QED BY <2>1, <2>2 DEF Assembly, Path, Usable
<1> QED BY <1>1, <1>2 DEF UploadInv

LEMMA EnvironmentKeeps == ASSUME UploadInv, Environment PROVE UploadInv'
<1>1. CASE Lose
  BY <1>1 DEF UploadInv, UploadTypeOK, Lose, uploadVars, Assembly, Path, Usable, Holds
<1>2. CASE Reconnect BY <1>2, ReconnectKeeps
<1>3. ASSUME NEW u \in Uploads, Edit(u) PROVE UploadInv'
  <2>1. UploadTypeOK /\ version[u] \in 1..MaxVersion BY DEF UploadInv, UploadTypeOK
  <2>2. PICK v : v = version[u] + 1 OBVIOUS
  <2>3. v \in 1..MaxVersion BY <1>3, <2>1, <2>2 DEF Edit
  <2>4. /\ version' = [version EXCEPT ![u] = v]
        /\ UNCHANGED <<epoch, connected, server, up, staged, lapsed>>
    BY <1>3, <2>2 DEF Edit, linkVars
  <2>5. version' \in [Uploads -> 1..MaxVersion] BY <2>1, <2>3, <2>4 DEF UploadTypeOK
  <2>6. UploadTypeOK' BY <2>1, <2>4, <2>5 DEF UploadTypeOK
  <2> QED BY <1>3, <2>6 DEF UploadInv, Edit, linkVars, Assembly, Path, Usable, Holds
<1>4. ASSUME NEW u \in Uploads, Lapse(u) PROVE UploadInv'
  <2>1. UploadTypeOK' BY <1>4 DEF UploadInv, UploadTypeOK, Lapse, linkVars
  <2> QED BY <1>4, <2>1 DEF UploadInv, Lapse, linkVars, Assembly, Path, Usable, Holds
<1>5. ASSUME NEW u \in Uploads, Collect(u) PROVE UploadInv'
  <2>1. UploadTypeOK'
    BY <1>5 DEF UploadInv, UploadTypeOK, Collect, Nothing, linkVars, uploadVars
  <2>2. ASSUME NEW w \in Uploads PROVE (Assembly(w) /\ Path(w))'
    <3>1. /\ UNCHANGED <<epoch, connected, up, staged, lapsed>>
          /\ u \in lapsed /\ ~server'[u].whole
          /\ w # u => server'[w] = server[w]
      BY <1>5 DEF UploadInv, UploadTypeOK, Collect, Nothing, linkVars, uploadVars
    <3>2. Assembly(w) /\ Path(w) BY DEF UploadInv
    <3> QED BY <3>1, <3>2 DEF Assembly, Path, Usable, Holds
  <2> QED BY <2>1, <2>2 DEF UploadInv
<1> QED BY <1>1, <1>2, <1>3, <1>4, <1>5 DEF Environment

LEMMA UploadStepKeeps ==
  ASSUME UploadInv, NEW u \in Uploads, UploadStep(u) PROVE UploadInv'
  BY TakeSlotKeeps, SendChunkKeeps, ChunkAckedKeeps, FinishKeeps, AssembledKeeps,
     UploadFailsKeeps, ResetEndsKeeps DEF UploadStep

-----------------------------------------------------------------------------
(* The deliveries *)

Phases == {"idle", "upload", "staged", "send", "call", "answer", "pause", "over"}
Report == [success : BOOLEAN, delivered : Nat, uncertain : BOOLEAN, told : BOOLEAN]

SendTypeOK ==
  /\ pc \in [Deliveries -> Phases]
  /\ at \in [Deliveries -> Nat \ {0}] /\ sentOn \in [Deliveries -> 0..MaxEpoch]
  /\ gate \in Deliveries \cup {Nobody} /\ revoked \subseteq Borrowed
  /\ wire \subseteq Deliveries \X Nat /\ log \in Seq(Deliveries \X Nat)
  /\ report \in [Deliveries -> Report]

LEMMA TypeParts == TypeOK <=> UploadTypeOK /\ SendTypeOK
  BY DEF TypeOK, SendTypeOK, Phases, Report

LEMMA TypePartsNext == TypeOK' <=> UploadTypeOK' /\ SendTypeOK'
  BY DEF TypeOK, SendTypeOK, Phases, Report

LEMMA Telling ==
  ASSUME SendTypeOK, NEW d \in Deliveries, NEW s \in BOOLEAN, NEW n \in Nat, NEW o \in BOOLEAN,
         Tell(d, s, n, o)
  PROVE  report' \in [Deliveries -> Report]
<1>1. [success |-> s, delivered |-> n, uncertain |-> o, told |-> TRUE] \in Report BY DEF Report
<1> QED BY <1>1 DEF Tell, SendTypeOK

LEMMA Moving ==
  ASSUME SendTypeOK, NEW d \in Deliveries, NEW to \in Phases, Move(d, to)
  PROVE  /\ pc' \in [Deliveries -> Phases] /\ pc'[d] = to
         /\ \A w \in Deliveries \ {d} : pc'[w] = pc[w]
  BY DEF Move, SendTypeOK

\* A delivery that fails is over.
LEMMA Failing ==
  ASSUME SendTypeOK, NEW d \in Deliveries, NEW o \in BOOLEAN, Fail(d, o),
         revoked' = revoked, wire' \subseteq wire, log' = log
  PROVE  /\ SendTypeOK' /\ pc'[d] = "over"
         /\ \A w \in Deliveries \ {d} : pc'[w] = pc[w]
<1>1. Move(d, "over") /\ Release(d) /\ Tell(d, FALSE, at[d] - 1, o) /\ UNCHANGED <<at, sentOn>>
  BY DEF Fail
<1>2. at[d] - 1 \in Nat BY DEF SendTypeOK
<1>3. report' \in [Deliveries -> Report] BY <1>1, <1>2, Telling
<1>4. "over" \in Phases BY DEF Phases
<1>5. /\ pc' \in [Deliveries -> Phases] /\ pc'[d] = "over"
      /\ \A w \in Deliveries \ {d} : pc'[w] = pc[w]
  BY <1>1, <1>4, Moving
<1> QED BY <1>1, <1>3, <1>5 DEF SendTypeOK, Release

LEMMA Proceeding ==
  ASSUME SendTypeOK, NEW d \in Deliveries, NEW to \in Phases, Proceed(d, to),
         revoked' = revoked, wire' \subseteq Deliveries \X Nat, log' = log
  PROVE  /\ SendTypeOK' /\ pc'[d] = to
         /\ \A w \in Deliveries \ {d} : pc'[w] = pc[w]
<1>1. Move(d, to) /\ UNCHANGED <<at, sentOn, gate, report>> BY DEF Proceed
<1>2. /\ pc' \in [Deliveries -> Phases] /\ pc'[d] = to
      /\ \A w \in Deliveries \ {d} : pc'[w] = pc[w]
  BY <1>1, Moving
<1> QED BY <1>1, <1>2 DEF SendTypeOK

\* What remains to be shown of the step of a delivery whose uploads do not move.
LEMMA UploadsStill ==
  ASSUME UploadInv, UNCHANGED <<linkVars, server, uploadVars>> PROVE UploadInv'
<1>1. UNCHANGED <<epoch, connected, version, up, server, staged, lapsed>>
  BY DEF linkVars, uploadVars
<1>2. UploadTypeOK' BY <1>1 DEF UploadInv, UploadTypeOK
<1>3. ASSUME NEW u \in Uploads PROVE (Assembly(u) /\ Path(u))'
  <2>1. Assembly(u) /\ Path(u) BY DEF UploadInv
  <2> QED BY <1>1, <2>1 DEF Assembly, Path, Usable, Holds
<1> QED BY <1>2, <1>3 DEF UploadInv

LEMMA Still ==
  ASSUME OutboundInv, NEW d \in Deliveries, UNCHANGED <<linkVars, server, uploadVars>>,
         SendTypeOK', \A w \in Deliveries \ {d} : pc'[w] = pc[w],
         \/ pc'[d] = "over"
         \/ pc'[d] # "idle" /\ up[d].pc \in {"none", "done"}
  PROVE  OutboundInv'
<1>1. UploadInv' BY UploadsStill DEF OutboundInv
<1>2. TypeOK' BY <1>1, TypePartsNext DEF UploadInv
<1>3. ASSUME NEW w \in Deliveries PROVE Prepared(w)'
  <2>1. Prepared(w) /\ up' = up BY DEF OutboundInv, uploadVars
  <2> QED BY <2>1 DEF Prepared
<1> QED BY <1>1, <1>2, <1>3 DEF OutboundInv

LEMMA StepKeeps ==
  ASSUME OutboundInv, NEW d \in Deliveries, Step(d) \/ Refused(d) \/ Cancelled(d)
  PROVE  OutboundInv'
<1>1. SendTypeOK /\ UploadInv /\ Prepared(d) BY TypeParts DEF OutboundInv
<1> USE <1>1
<1> USE DEF Phases
<1>2. CASE Prepare(d)
  <2>1. CASE Upload(d) /\ Proceed(d, "upload")
    <3>1. UploadInv' BY <2>1, UploadKeeps DEF Deliveries
    <3>2. /\ SendTypeOK' /\ pc'[d] = "upload"
          /\ \A w \in Deliveries \ {d} : pc'[w] = pc[w]
      BY <1>2, <2>1, Proceeding DEF Prepare, SendTypeOK
    <3>3. \A w \in Deliveries \ {d} : up'[w] = up[w]
      BY <2>1 DEF Upload, UploadInv, UploadTypeOK
    <3>4. ASSUME NEW w \in Deliveries PROVE Prepared(w)'
      <4>1. Prepared(w) BY DEF OutboundInv
      <4> QED BY <3>2, <3>3, <4>1 DEF Prepared
    <3> QED BY <3>1, <3>2, <3>4, TypePartsNext DEF OutboundInv, UploadInv
  <2>2. CASE UNCHANGED up /\ (Fail(d, FALSE) \/ Proceed(d, "staged"))
    <3>1. UNCHANGED <<linkVars, server, uploadVars, revoked, wire, log>> /\ up[d].pc = "none"
      BY <1>2, <2>2 DEF Prepare, uploadVars, Prepared
    <3>2. /\ SendTypeOK' /\ pc'[d] \in {"over", "staged"}
          /\ \A w \in Deliveries \ {d} : pc'[w] = pc[w]
      BY <2>2, <3>1, Failing, Proceeding DEF SendTypeOK
    <3> QED BY <3>1, <3>2, Still
  <2> QED BY <1>2, <2>1, <2>2 DEF Prepare
<1>3. CASE Uploaded(d)
  <2>1. UNCHANGED <<linkVars, server, uploadVars, revoked, wire, log>> BY <1>3 DEF Uploaded
  <2>2. Fail(d, FALSE) \/ (Proceed(d, "staged") /\ up[d].pc = "done") BY <1>3 DEF Uploaded
  <2>3. /\ SendTypeOK' /\ pc'[d] \in {"over", "staged"}
        /\ pc'[d] = "staged" => up[d].pc = "done"
        /\ \A w \in Deliveries \ {d} : pc'[w] = pc[w]
    BY <2>1, <2>2, Failing, Proceeding DEF SendTypeOK
  <2> QED BY <2>1, <2>3, Still
<1>4. CASE Preflight(d)
  <2>1. /\ UNCHANGED <<linkVars, server, uploadVars, revoked, wire, log>>
        /\ up[d].pc \in {"none", "done"}
    BY <1>4 DEF Preflight, Prepared
  <2>2. Fail(d, FALSE) \/ Proceed(d, "send") BY <1>4 DEF Preflight
  <2>3. /\ SendTypeOK' /\ pc'[d] \in {"over", "send"}
        /\ \A w \in Deliveries \ {d} : pc'[w] = pc[w]
    BY <2>1, <2>2, Failing, Proceeding DEF SendTypeOK
  <2> QED BY <2>1, <2>3, Still
<1>5. CASE EnterGate(d)
  <2>1. /\ UNCHANGED <<linkVars, server, uploadVars, revoked, wire, log>>
        /\ up[d].pc \in {"none", "done"}
    BY <1>5 DEF EnterGate, Prepared
  <2>2. CASE Fail(d, FALSE)
    <3>1. /\ SendTypeOK' /\ pc'[d] = "over"
          /\ \A w \in Deliveries \ {d} : pc'[w] = pc[w]
      BY <2>1, <2>2, Failing
    <3> QED BY <2>1, <3>1, Still
  <2>3. CASE /\ gate' = d /\ sentOn' = [sentOn EXCEPT ![d] = epoch]
             /\ Move(d, "call") /\ UNCHANGED <<at, report>>
    <3>1. /\ pc' \in [Deliveries -> Phases] /\ pc'[d] = "call"
          /\ \A w \in Deliveries \ {d} : pc'[w] = pc[w]
      BY <2>3, Moving
    <3>2. epoch \in 0..MaxEpoch BY DEF UploadInv, UploadTypeOK
    <3>3. SendTypeOK' BY <2>1, <2>3, <3>1, <3>2 DEF SendTypeOK
    <3> QED BY <2>1, <3>1, <3>3, Still
  <2> QED BY <1>5, <2>2, <2>3 DEF EnterGate
<1>6. CASE Write(d)
  <2>1. /\ UNCHANGED <<linkVars, server, uploadVars, revoked, log>>
        /\ up[d].pc \in {"none", "done"} /\ Proceed(d, "answer")
    BY <1>6 DEF Write, Prepared
  <2>2. wire' \subseteq Deliveries \X Nat
    <3>1. at[d] \in Nat /\ wire \subseteq Deliveries \X Nat BY DEF SendTypeOK
    <3> QED BY <1>6, <3>1 DEF Write
  <2>3. /\ SendTypeOK' /\ pc'[d] = "answer"
        /\ \A w \in Deliveries \ {d} : pc'[w] = pc[w]
    BY <2>1, <2>2, Proceeding
  <2> QED BY <2>1, <2>3, Still
<1>7. CASE Acknowledged(d)
  <2>1. /\ UNCHANGED <<linkVars, server, uploadVars, revoked, wire, log>>
        /\ up[d].pc \in {"none", "done"} /\ Proceed(d, "pause")
    BY <1>7 DEF Acknowledged, Prepared
  <2>2. /\ SendTypeOK' /\ pc'[d] = "pause"
        /\ \A w \in Deliveries \ {d} : pc'[w] = pc[w]
    BY <2>1, Proceeding DEF SendTypeOK
  <2> QED BY <2>1, <2>2, Still
<1>8. CASE NotWritten(d) \/ Rejected(d) \/ Unknown(d) \/ Refused(d)
  <2>1. /\ UNCHANGED <<linkVars, server, uploadVars, revoked, log>> /\ wire' \subseteq wire
        /\ Fail(d, FALSE) \/ Fail(d, TRUE)
    BY <1>8 DEF NotWritten, Rejected, Unknown, Refused
  <2>2. /\ SendTypeOK' /\ pc'[d] = "over"
        /\ \A w \in Deliveries \ {d} : pc'[w] = pc[w]
    BY <2>1, Failing
  <2> QED BY <2>1, <2>2, Still
<1>9. CASE NextRequest(d)
  <2>1. /\ UNCHANGED <<linkVars, server, uploadVars, sentOn, revoked, wire, log>>
        /\ up[d].pc \in {"none", "done"} /\ Release(d)
    BY <1>9 DEF NextRequest, Prepared
  <2>2. at[d] \in Nat \ {0} BY DEF SendTypeOK
  <2>3. CASE Move(d, "over") /\ Tell(d, TRUE, at[d], FALSE) /\ UNCHANGED at
    <3>1. /\ pc' \in [Deliveries -> Phases] /\ pc'[d] = "over"
          /\ \A w \in Deliveries \ {d} : pc'[w] = pc[w]
      BY <2>3, Moving
    <3>2. report' \in [Deliveries -> Report] BY <2>2, <2>3, Telling
    <3>3. SendTypeOK' BY <2>1, <2>3, <3>1, <3>2 DEF SendTypeOK, Release
    <3> QED BY <2>1, <3>1, <3>3, Still
  <2>4. CASE Move(d, "send") /\ at' = [at EXCEPT ![d] = @ + 1] /\ UNCHANGED report
    <3>1. /\ pc' \in [Deliveries -> Phases] /\ pc'[d] = "send"
          /\ \A w \in Deliveries \ {d} : pc'[w] = pc[w]
      BY <2>4, Moving
    <3>2. at' \in [Deliveries -> Nat \ {0}] BY <2>2, <2>4 DEF SendTypeOK
    <3>3. SendTypeOK' BY <2>1, <2>4, <3>1, <3>2 DEF SendTypeOK, Release
    <3> QED BY <2>1, <3>1, <3>3, Still
  <2> QED BY <1>9, <2>3, <2>4 DEF NextRequest
<1>10. CASE Cancelled(d)
  <2>1. /\ UNCHANGED <<linkVars, server, uploadVars, at, sentOn, revoked, wire, log, report>>
        /\ Move(d, "over") /\ Release(d)
    BY <1>10 DEF Cancelled
  <2>2. /\ pc' \in [Deliveries -> Phases] /\ pc'[d] = "over"
        /\ \A w \in Deliveries \ {d} : pc'[w] = pc[w]
    BY <2>1, Moving
  <2>3. SendTypeOK' BY <2>1, <2>2 DEF SendTypeOK, Release
  <2> QED BY <2>1, <2>2, <2>3, Still
<1> QED BY <1>2, <1>3, <1>4, <1>5, <1>6, <1>7, <1>8, <1>9, <1>10 DEF Step

\* No upload moves under a delivery that is past its staging.
LEMMA UploadsKeep == ASSUME OutboundInv, UploadsMove PROVE OutboundInv'
<1>1. SendTypeOK /\ UploadInv /\ UNCHANGED sendVars
  BY TypeParts DEF OutboundInv, UploadsMove
<1>2. UploadInv' /\ \A w \in Uploads : up[w].pc \in {"none", "done"} => up'[w] = up[w]
  <2>1. ASSUME NEW u \in Uploads, UploadStep(u)
        PROVE  UploadInv' /\ \A w \in Uploads : up[w].pc \in {"none", "done"} => up'[w] = up[w]
    <3>1. UploadInv' BY <1>1, <2>1, UploadStepKeeps
    <3>2. up[u].pc \notin {"none", "done"} /\ \A w \in Uploads : w # u => up'[w] = up[w]
      BY <1>1, <2>1 DEF UploadStep, TakeSlot, SendChunk, ChunkAcked, Finish, Assembled,
         UploadFails, ResetEnds, Goto, Streaming, UploadInv, UploadTypeOK
    <3> QED BY <3>1, <3>2
  <2>2. CASE CloseStreams
    <3>1. UploadInv' BY <1>1, <2>2, CloseKeeps
    <3> QED BY <3>1, <2>2 DEF CloseStreams, Tasks, Streaming
  <2>3. CASE Environment
    <3>1. UploadInv' BY <1>1, <2>3, EnvironmentKeeps
    <3>2. up' = up
      BY <2>3 DEF Environment, Lose, Reconnect, Edit, Lapse, Collect, uploadVars
    <3> QED BY <3>1, <3>2
  <2> QED BY <2>1, <2>2, <2>3 DEF UploadsMove
<1>3. SendTypeOK' BY <1>1 DEF SendTypeOK, sendVars
<1>4. ASSUME NEW d \in Deliveries PROVE Prepared(d)'
  <2>1. Prepared(d) /\ pc' = pc BY <1>1 DEF OutboundInv, sendVars
  <2>2. up[d].pc \in {"none", "done"} => up'[d] = up[d] BY <1>2 DEF Deliveries
  <2> QED BY <2>1, <2>2 DEF Prepared
<1> QED BY <1>2, <1>3, <1>4, TypePartsNext DEF OutboundInv, UploadInv

LEMMA QQKeeps ==
  ASSUME OutboundInv, Perform \/ Drop \/ \E d \in Deliveries : Revoke(d) PROVE OutboundInv'
<1>1. SendTypeOK /\ UploadInv BY TypeParts DEF OutboundInv
<1>2. UNCHANGED <<linkVars, server, uploadVars, pc, at, sentOn, gate, report>>
  BY DEF Perform, Drop, Revoke
<1>3. UploadInv' BY <1>1, <1>2, UploadsStill
<1>4. revoked' \subseteq Borrowed /\ wire' \subseteq Deliveries \X Nat
      /\ log' \in Seq(Deliveries \X Nat)
  <2>1. CASE Perform
    <3>1. PICK q \in wire : log' = Append(log, q) /\ wire' = wire \ {q} BY <2>1 DEF Perform
    <3>2. q \in Deliveries \X Nat BY <1>1 DEF SendTypeOK
    <3>3. log' \in Seq(Deliveries \X Nat) BY <1>1, <3>1, <3>2 DEF SendTypeOK
    <3> QED BY <1>1, <2>1, <3>1, <3>3 DEF Perform, SendTypeOK
  <2>2. CASE Drop BY <1>1, <2>2 DEF Drop, SendTypeOK
  <2>3. CASE \E d \in Deliveries : Revoke(d) BY <1>1, <2>3 DEF Revoke, SendTypeOK
  <2> QED BY <2>1, <2>2, <2>3
<1>5. SendTypeOK' BY <1>1, <1>2, <1>4 DEF SendTypeOK
<1>6. \A d \in Deliveries : Prepared(d)' BY <1>2 DEF OutboundInv, Prepared, uploadVars
<1> QED BY <1>3, <1>5, <1>6, TypePartsNext DEF OutboundInv, UploadInv

LEMMA InitHolds == Init => OutboundInv
<1> SUFFICES ASSUME Init PROVE OutboundInv OBVIOUS
<1> USE DEF Init, UploadInit
<1>1. NoUpload \in Coroutine
  <2>1. 0 \in 0..MaxEpoch /\ 0 \in 0..MaxVersion /\ <<>> \in Seq(1..MaxVersion) OBVIOUS
  <2> QED BY <2>1 DEF NoUpload, Coroutine, Stages
<1>2. Nothing \in Store BY DEF Nothing, Store
<1>3. UploadTypeOK BY <1>1, <1>2, Types DEF Grounds
<1>4. Untold \in Report BY DEF Untold, Report
<1>5. SendTypeOK BY <1>4 DEF SendTypeOK, Phases
<1>6. \A u \in Uploads : Assembly(u) /\ Path(u)
  BY DEF NoUpload, Nothing, Assembly, Path
<1>7. \A d \in Deliveries : Prepared(d) BY DEF NoUpload, Prepared, Deliveries
<1> QED BY <1>3, <1>5, <1>6, <1>7, TypeParts DEF OutboundInv, UploadInv

LEMMA NextKeeps == OutboundInv /\ [Next]_vars => OutboundInv'
<1> SUFFICES ASSUME OutboundInv, [Next]_vars PROVE OutboundInv' OBVIOUS
<1>1. CASE UNCHANGED vars
  <2>1. UploadInv' BY <1>1, UploadsStill DEF OutboundInv, vars
  <2>2. SendTypeOK' BY <1>1, TypeParts DEF OutboundInv, SendTypeOK, vars, sendVars
  <2>3. \A d \in Deliveries : Prepared(d)'
    BY <1>1 DEF OutboundInv, Prepared, vars, sendVars, uploadVars
  <2> QED BY <2>1, <2>2, <2>3, TypePartsNext DEF OutboundInv, UploadInv
<1>2. CASE Next
  BY <1>2, StepKeeps, UploadsKeep, QQKeeps DEF Next
<1> QED BY <1>1, <1>2

LEMMA Invariant == Spec => []OutboundInv
<1> QED BY InitHolds, NextKeeps, PTL DEF Spec

\* The variables of uploads and deliveries keep their types (StreamUploader.upload and
\* the sending functions of adapter.py, outbound.py and tools.py), for any number of
\* deliveries, chunks and connections.
THEOREM TypesCorrect == Spec => []TypeOK
<1>1. OutboundInv => TypeOK BY DEF OutboundInv
<1> QED BY <1>1, Invariant, PTL

-----------------------------------------------------------------------------
(* What is written *)

\* Only Write puts a request on the wire, and it looked again before it did.
LEMMA WritingIsStaged ==
  ASSUME OutboundInv, Next, NEW d \in Deliveries, <<d, MediaAt[d]>> \in wire' \ wire
  PROVE  /\ d \in Borrowed => d \notin revoked
         /\ up[d].pc # "none" => /\ server[d].whole
                                 /\ server[d].chunks = [i \in 1..Chunks |-> up[d].hash]
<1>1. SendTypeOK /\ UploadInv /\ Prepared(d) BY TypeParts DEF OutboundInv
<1>2. PICK w \in Deliveries : Write(w)
  <2>1. ASSUME NEW w \in Deliveries,
               Prepare(w) \/ Uploaded(w) \/ Preflight(w) \/ EnterGate(w) \/ NotWritten(w)
                 \/ Acknowledged(w) \/ Rejected(w) \/ Unknown(w) \/ NextRequest(w)
                 \/ Refused(w) \/ Cancelled(w) \/ Revoke(w)
        PROVE  wire' \subseteq wire
    BY <2>1 DEF Prepare, Uploaded, Preflight, EnterGate, NotWritten, Acknowledged, Rejected,
       Unknown, NextRequest, Refused, Cancelled, Revoke
  <2>2. Perform \/ Drop \/ UploadsMove => wire' \subseteq wire
    BY DEF Perform, Drop, UploadsMove, sendVars
  <2> QED BY <2>1, <2>2 DEF Next, Step
<1>3. w = d /\ at[d] = MediaAt[d]
  BY <1>2 DEF Write
<1>4. pc[d] = "call" /\ Valid(d, at[d]) BY <1>2, <1>3 DEF Write, MayWrite
<1>5. d \in Borrowed => d \notin revoked BY <1>3, <1>4 DEF Valid
<1>6. ASSUME up[d].pc # "none"
      PROVE  server[d].whole /\ server[d].chunks = [i \in 1..Chunks |-> up[d].hash]
  <2>1. up[d].pc = "done" BY <1>1, <1>4, <1>6 DEF Prepared
  <2>2. Assembly(d) /\ Path(d) BY <1>1 DEF UploadInv, Deliveries
  <2>3. Holds(d) BY <1>3, <1>4, <2>1, <2>2 DEF Valid, Path
  <2>4. server[d].chunks \in Seq(1..MaxVersion) /\ Len(server[d].chunks) = Chunks
    BY <1>1, <2>2, <2>3 DEF UploadInv, UploadTypeOK, Assembly, Holds, Deliveries
  <2> DEFINE c == server[d].chunks
  <2>5. c = [i \in 1..Chunks |-> c[i]]
    <3>1. c = [i \in 1..Len(c) |-> c[i]] BY <2>4
    <3> QED BY <2>4, <3>1
  <2>6. \A i \in 1..Chunks : c[i] = up[d].hash BY <2>3 DEF Holds
  <2>7. c = [i \in 1..Chunks |-> up[d].hash]
    <3> HIDE DEF c
    <3> QED BY <2>5, <2>6
  <2> QED BY <2>3, <2>7 DEF Holds
<1> QED BY <1>5, <1>6

\* The path of a staged file is written only while NapCat has that file, whole and as it
\* was hashed, and borrowed media only while they are in force (validate_outbound_media
\* as before_write of transport.call, media_adapter.py:397-438), whatever happened since.
THEOREM Staged == Spec => WritesWhatIsStaged
<1>1. OutboundInv /\ [Next]_vars =>
        [\A d \in Deliveries :
           <<d, MediaAt[d]>> \in wire' \ wire =>
             /\ d \in Borrowed => d \notin revoked
             /\ up[d].pc # "none" =>
                  /\ server[d].whole
                  /\ server[d].chunks = [i \in 1..Chunks |-> up[d].hash]]_vars
  BY WritingIsStaged
<1> QED BY <1>1, Invariant, PTL DEF Spec, WritesWhatIsStaged

-----------------------------------------------------------------------------
(* What is reported *)

\* What is still on the wire for a delivery.
On(d) == {q \in wire : q[1] = d}

\* Of the delivery exactly the first n requests were performed, and no other will be;
\* or the outcome of the next one is open.
Exactly(d, n) == PerformedFor(d) = FirstParts(d, n) /\ On(d) = {}
Open(d, n) == \/ PerformedFor(d) = FirstParts(d, n) /\ On(d) \subseteq {<<d, n + 1>>}
              \/ Exactly(d, n + 1)

\* Where a delivery stands says what QQ has done for it.
Progress(d) == /\ pc[d] \in {"idle", "upload", "staged", "send", "call"} => Exactly(d, at[d] - 1)
               /\ pc[d] = "answer" => Open(d, at[d] - 1)
               /\ pc[d] = "pause" => Exactly(d, at[d])
               /\ pc[d] # "over" => ~report[d].told

\* What was told is so now, and nothing on the wire can change it.
Told(d) == report[d].told =>
             /\ report[d].success => ~report[d].uncertain /\ Exactly(d, Parts[d])
             /\ ~report[d].success /\ ~report[d].uncertain => Exactly(d, report[d].delivered)
             /\ report[d].uncertain => Open(d, report[d].delivered)

HonestInv == \A d \in Deliveries : Progress(d) /\ Told(d)

\* Its performed requests are those of the log; QQ performs one more.
LEMMA PerformedFacts ==
  ASSUME SendTypeOK, NEW d \in Deliveries
  PROVE  /\ PerformedFor(d) \in Seq(Deliveries \X Nat)
         /\ \A n \in Nat : (\E i \in DOMAIN log : log[i] = <<d, n>>)
                           => \E i \in DOMAIN PerformedFor(d) : PerformedFor(d)[i] = <<d, n>>
         /\ \A q \in Deliveries \X Nat : log' = Append(log, q) =>
              PerformedFor(d)' = IF q[1] = d THEN Append(PerformedFor(d), q) ELSE PerformedFor(d)
<1> DEFINE S == {d} \X Nat
<1>1. log \in Seq(Deliveries \X Nat) BY DEF SendTypeOK
<1>2. /\ Kept(log, S) \in Seq(Deliveries \X Nat)
      /\ ToSet(Kept(log, S)) = ToSet(log) \cap S
  BY <1>1, KeptFacts
<1>3. ASSUME NEW n \in Nat, NEW i \in DOMAIN log, log[i] = <<d, n>>
      PROVE  \E j \in DOMAIN Kept(log, S) : Kept(log, S)[j] = <<d, n>>
  <2>1. <<d, n>> \in ToSet(log) /\ <<d, n>> \in S BY <1>3 DEF ToSet
  <2>2. <<d, n>> \in ToSet(Kept(log, S)) BY <1>2, <2>1
  <2> HIDE DEF S
  <2> QED BY <2>2 DEF ToSet
<1>4. ASSUME NEW q \in Deliveries \X Nat, log' = Append(log, q)
      PROVE  Kept(log', S) = IF q[1] = d THEN Append(Kept(log, S), q) ELSE Kept(log, S)
  <2>1. Kept(Append(log, q), S) = IF q \in S THEN Append(Kept(log, S), q) ELSE Kept(log, S)
    <3> HIDE DEF S
    <3> QED BY <1>1, KeptAppend
  <2>2. q \in S <=> q[1] = d OBVIOUS
  <2> HIDE DEF S
  <2> QED BY <1>4, <2>1, <2>2
<1> QED BY <1>2, <1>3, <1>4 DEF PerformedFor

\* The first requests, and one more.
LEMMA OneMore ==
  ASSUME NEW d, NEW n \in Nat
  PROVE  /\ Append(FirstParts(d, n), <<d, n + 1>>) = FirstParts(d, n + 1)
         /\ DOMAIN FirstParts(d, n) = 1..n /\ \A i \in 1..n : FirstParts(d, n)[i] = <<d, i>>
<1> DEFINE s == FirstParts(d, n)
<1>1. s \in Seq({d} \X Nat) /\ Len(s) = n /\ \A i \in 1..n : s[i] = <<d, i>>
  BY DEF FirstParts
<1> HIDE DEF s
<1>2. Append(s, <<d, n + 1>>) = [i \in 1..n + 1 |-> IF i = n + 1 THEN <<d, n + 1>> ELSE s[i]]
  BY <1>1
<1>3. \A i \in 1..n + 1 : (IF i = n + 1 THEN <<d, n + 1>> ELSE s[i]) = <<d, i>>
  <2> TAKE i \in 1..n + 1
  <2>1. CASE i = n + 1 BY <2>1
  <2>2. CASE i # n + 1
    <3>1. i \in 1..n BY <2>2
    <3> QED BY <1>1, <2>2, <3>1
  <2> QED BY <2>1, <2>2
<1>4. Append(s, <<d, n + 1>>) = [i \in 1..n + 1 |-> <<d, i>>]
  BY <1>2, <1>3
<1> QED BY <1>1, <1>4 DEF s, FirstParts

\* Nothing but a request on the wire can change what was performed.
LEMMA Settled ==
  ASSUME NEW d \in Deliveries, NEW n, log' = log, On(d)' \subseteq On(d)
  PROVE  /\ Exactly(d, n) => Exactly(d, n)'
         /\ Open(d, n) => Open(d, n)'
<1>1. PerformedFor(d)' = PerformedFor(d) BY DEF PerformedFor
<1>2. FirstParts(d, n)' = FirstParts(d, n) BY DEF FirstParts
<1>3. FirstParts(d, n + 1)' = FirstParts(d, n + 1) BY DEF FirstParts
<1> QED BY <1>1, <1>2, <1>3 DEF Exactly, Open

\* A delivery that does not move, and whose requests are at most lost.
LEMMA Unmoved ==
  ASSUME NEW d \in Deliveries, Progress(d), Told(d), log' = log, On(d)' \subseteq On(d),
         pc'[d] = pc[d], at'[d] = at[d], report'[d] = report[d]
  PROVE  Progress(d)' /\ Told(d)'
<1>1. PICK n : n = at[d] OBVIOUS
<1>2. PICK r : r = report[d].delivered OBVIOUS
<1>3. PICK p : p = Parts[d] OBVIOUS
<1>4. PICK k : k = n - 1 OBVIOUS
<1>5. /\ Exactly(d, n) => Exactly(d, n)'
      /\ Exactly(d, k) => Exactly(d, k)'
      /\ Exactly(d, r) => Exactly(d, r)'
      /\ Exactly(d, p) => Exactly(d, p)'
      /\ Open(d, k) => Open(d, k)'
      /\ Open(d, r) => Open(d, r)'
  BY Settled
<1>6. Progress(d)'
  <2>1. /\ pc[d] \in {"idle", "upload", "staged", "send", "call"} => Exactly(d, k)
        /\ pc[d] = "answer" => Open(d, k)
        /\ pc[d] = "pause" => Exactly(d, n)
    BY <1>1, <1>4 DEF Progress
  <2>2. /\ pc'[d] \in {"idle", "upload", "staged", "send", "call"} => Exactly(d, k)'
        /\ pc'[d] = "answer" => Open(d, k)'
        /\ pc'[d] = "pause" => Exactly(d, n)'
        /\ pc'[d] # "over" => ~report'[d].told
    BY <1>5, <2>1 DEF Progress
  <2> QED BY <1>1, <1>4, <2>2 DEF Progress
<1>7. Told(d)'
  <2>1. report'[d].told =>
          /\ report'[d].success => ~report'[d].uncertain /\ Exactly(d, p)'
          /\ ~report'[d].success /\ ~report'[d].uncertain => Exactly(d, r)'
          /\ report'[d].uncertain => Open(d, r)'
    BY <1>2, <1>3, <1>5 DEF Told
  <2> QED BY <1>2, <1>3, <2>1 DEF Told
<1> QED BY <1>6, <1>7

\* A delivery that is not over stands somewhere and has told nothing.
LEMMA Standing ==
  ASSUME NEW d \in Deliveries, NEW n, NEW k, n = at'[d], k = n - 1, ~report'[d].told,
         pc'[d] \in Phases \ {"over"},
         pc'[d] \in {"idle", "upload", "staged", "send", "call"} => Exactly(d, k)',
         pc'[d] = "answer" => Open(d, k)',
         pc'[d] = "pause" => Exactly(d, n)'
  PROVE  Progress(d)' /\ Told(d)'
<1>1. Progress(d)' BY DEF Progress
<1>2. Told(d)' BY DEF Told
<1> QED BY <1>1, <1>2

\* One that fails tells what was performed before the request that failed.
LEMMA TellingFailure ==
  ASSUME SendTypeOK, NEW d \in Deliveries, NEW k, k = at[d] - 1,
         \/ Fail(d, FALSE) /\ Exactly(d, k)'
         \/ Fail(d, TRUE) /\ Open(d, k)'
  PROVE  Progress(d)' /\ Told(d)'
<1>1. PICK o \in BOOLEAN : Fail(d, o) /\ (o => Open(d, k)') /\ (~o => Exactly(d, k)') OBVIOUS
<1>2. pc'[d] = "over" BY <1>1 DEF Fail, Move, SendTypeOK
<1>3. report'[d] = [success |-> FALSE, delivered |-> k, uncertain |-> o, told |-> TRUE]
  BY <1>1 DEF Fail, Tell, SendTypeOK
<1>4. /\ ~report'[d].success /\ report'[d].uncertain = o /\ report'[d].delivered = k
  BY <1>3
<1>5. Progress(d)' BY <1>2 DEF Progress
<1>6. Told(d)' BY <1>1, <1>4 DEF Told
<1> QED BY <1>5, <1>6

\* What a step of one delivery leaves as it is.
LEMMA OthersStay ==
  ASSUME SendTypeOK, NEW d \in Deliveries, Step(d) \/ Refused(d) \/ Cancelled(d)
  PROVE  /\ log' = log
         /\ \A w \in Deliveries \ {d} :
              pc'[w] = pc[w] /\ at'[w] = at[w] /\ report'[w] = report[w] /\ On(w)' \subseteq On(w)
<1>1. /\ log' = log
      /\ wire' \subseteq wire \cup {<<d, at[d]>>}
      /\ \E p : Move(d, p)
      /\ at' = at \/ at' = [at EXCEPT ![d] = at[d] + 1]
      /\ report' = report \/ \E s, n, o : Tell(d, s, n, o)
  <2>1. ASSUME NEW o, Fail(d, o)
        PROVE  /\ \E p : Move(d, p) /\ at' = at
               /\ \E s, n, c : Tell(d, s, n, c)
    BY <2>1 DEF Fail
  <2>2. ASSUME NEW p, Proceed(d, p) PROVE Move(d, p) /\ at' = at /\ report' = report
    BY <2>2 DEF Proceed
  <2>3. CASE Prepare(d) BY <2>1, <2>2, <2>3 DEF Prepare
  <2>4. CASE Uploaded(d) BY <2>1, <2>2, <2>4 DEF Uploaded
  <2>5. CASE Preflight(d) BY <2>1, <2>2, <2>5 DEF Preflight
  <2>6. CASE EnterGate(d) BY <2>1, <2>6 DEF EnterGate
  <2>7. CASE Write(d) BY <2>2, <2>7 DEF Write
  <2>8. CASE Acknowledged(d) BY <2>2, <2>8 DEF Acknowledged
  <2>9. CASE Rejected(d) BY <2>1, <2>9 DEF Rejected
  <2>10. CASE Unknown(d) \/ NotWritten(d) BY <2>1, <2>10 DEF Unknown, NotWritten
  <2>11. CASE NextRequest(d)
    BY <2>11 DEF NextRequest, SendTypeOK
  <2>12. CASE Refused(d) BY <2>1, <2>12 DEF Refused
  <2>13. CASE Cancelled(d) BY <2>13 DEF Cancelled
  <2> QED BY <2>3, <2>4, <2>5, <2>6, <2>7, <2>8, <2>9, <2>10, <2>11, <2>12, <2>13 DEF Step
<1>2. ASSUME NEW w \in Deliveries \ {d}
      PROVE  pc'[w] = pc[w] /\ at'[w] = at[w] /\ report'[w] = report[w] /\ On(w)' \subseteq On(w)
  <2>1. pc'[w] = pc[w] BY <1>1 DEF Move, SendTypeOK
  <2>2. at'[w] = at[w] BY <1>1 DEF SendTypeOK
  <2>3. report'[w] = report[w] BY <1>1 DEF Tell, SendTypeOK
  <2>4. On(w)' \subseteq On(w) BY <1>1 DEF On
  <2> QED BY <2>1, <2>2, <2>3, <2>4
<1> QED BY <1>1, <1>2

\* A delivery tells the truth, and knows what QQ did.
LEMMA HonestStep ==
  ASSUME SendTypeOK, HonestInv, NEW d \in Deliveries, Step(d) \/ Refused(d) \/ Cancelled(d)
  PROVE  Progress(d)' /\ Told(d)'
<1>1. PICK n : n = at[d] OBVIOUS
<1>2. PICK k : k = n - 1 OBVIOUS
<1>3. n \in Nat /\ k \in Nat /\ k + 1 = n BY <1>1, <1>2 DEF SendTypeOK
<1>4. log' = log /\ PerformedFor(d)' = PerformedFor(d) BY OthersStay DEF PerformedFor
<1>5. /\ pc[d] \in {"idle", "upload", "staged", "send", "call"} => Exactly(d, k)
      /\ pc[d] = "answer" => Open(d, k)
      /\ pc[d] = "pause" => Exactly(d, n)
      /\ pc[d] # "over" => ~report[d].told
  BY <1>1, <1>2 DEF HonestInv, Progress
<1>6. ASSUME wire' = wire
      PROVE  /\ Exactly(d, n) => Exactly(d, n)'
             /\ Exactly(d, k) => Exactly(d, k)'
             /\ Open(d, k) => Open(d, k)'
  <2>1. On(d)' \subseteq On(d) BY <1>6 DEF On
  <2> QED BY <1>4, <2>1, Settled
<1>7. ASSUME NEW to \in Phases \ {"over"}, Move(d, to) PROVE pc'[d] = to
  BY <1>7 DEF Move, SendTypeOK
\* It fails or goes on before anything of the request is written.
<1>8. ASSUME wire' = wire, pc[d] \in {"idle", "upload", "staged", "send", "call"},
             \/ Fail(d, FALSE)
             \/ \E to \in {"upload", "staged", "send", "call"} :
                  Move(d, to) /\ UNCHANGED <<at, report>>
      PROVE  Progress(d)' /\ Told(d)'
  <2>1. Exactly(d, k)' BY <1>5, <1>6, <1>8
  <2>2. CASE Fail(d, FALSE) BY <1>1, <1>2, <2>1, <2>2, TellingFailure
  <2>3. ASSUME NEW to \in {"upload", "staged", "send", "call"}, Move(d, to),
               UNCHANGED <<at, report>>
        PROVE  Progress(d)' /\ Told(d)'
    <3>1. pc'[d] = to BY <1>7, <2>3 DEF Phases
    <3>2. at'[d] = n /\ ~report'[d].told BY <1>1, <1>5, <1>8, <2>3
    <3> QED BY <1>2, <2>1, <3>1, <3>2, Standing DEF Phases
  <2> QED BY <1>8, <2>2, <2>3
<1>9. CASE Prepare(d) BY <1>8, <1>9 DEF Prepare, Proceed
<1>10. CASE Uploaded(d) BY <1>8, <1>10 DEF Uploaded, Proceed
<1>11. CASE Preflight(d) BY <1>8, <1>11 DEF Preflight, Proceed
<1>12. CASE EnterGate(d) BY <1>8, <1>12 DEF EnterGate
<1>13. CASE NotWritten(d) \/ Refused(d) BY <1>8, <1>13 DEF NotWritten, Refused
<1>14. CASE Write(d)
  <2>1. pc'[d] = "answer" /\ UNCHANGED <<at, report>> BY <1>7, <1>14 DEF Write, Proceed, Phases
  <2>2. Exactly(d, k) /\ ~report[d].told BY <1>5, <1>14 DEF Write
  <2>3. On(d)' \subseteq {<<d, k + 1>>}
    <3>1. wire' = wire \cup {<<d, n>>} BY <1>1, <1>14 DEF Write
    <3> QED BY <1>3, <2>2, <3>1 DEF On, Exactly
  <2>4. Open(d, k)'
    <3>1. PerformedFor(d)' = FirstParts(d, k) BY <1>4, <2>2 DEF Exactly
    <3> QED BY <2>3, <3>1 DEF Open, FirstParts
  <2> QED BY <1>1, <1>2, <2>1, <2>2, <2>4, Standing DEF Phases
<1>15. CASE Acknowledged(d)
  <2>1. pc'[d] = "pause" /\ UNCHANGED <<at, report, wire>>
    BY <1>7, <1>15 DEF Acknowledged, Proceed, Phases
  <2>2. Open(d, k) /\ ~report[d].told BY <1>5, <1>15 DEF Acknowledged
  <2>3. \E i \in DOMAIN log : log[i] = <<d, n>> BY <1>1, <1>15 DEF Acknowledged, Performed
  <2>4. \E i \in DOMAIN PerformedFor(d) : PerformedFor(d)[i] = <<d, n>>
    BY <1>3, <2>3, PerformedFacts
  <2>5. PerformedFor(d) # FirstParts(d, k)
    <3>1. DOMAIN FirstParts(d, k) = 1..k /\ \A i \in 1..k : FirstParts(d, k)[i] = <<d, i>>
      BY <1>3, OneMore
    <3>2. \A i \in 1..k : <<d, i>> # <<d, n>> BY <1>3
    <3> QED BY <2>4, <3>1, <3>2
  <2>6. Exactly(d, n) BY <1>3, <2>2, <2>5 DEF Open
  <2>7. Exactly(d, n)' BY <1>6, <2>1, <2>6
  <2> QED BY <1>1, <1>2, <2>1, <2>2, <2>7, Standing DEF Phases
<1>16. CASE Rejected(d)
  <2>1. Open(d, k) /\ <<d, n>> \in On(d) BY <1>1, <1>5, <1>16 DEF Rejected, On
  <2>2. PerformedFor(d) = FirstParts(d, k) /\ On(d) \subseteq {<<d, n>>}
    BY <1>3, <2>1 DEF Open, Exactly
  <2>3. On(d)' = {} BY <1>1, <1>16, <2>2 DEF Rejected, On
  <2>4. Exactly(d, k)'
    <3>1. PerformedFor(d)' = FirstParts(d, k) BY <1>4, <2>2
    <3> QED BY <2>3, <3>1 DEF Exactly, FirstParts
  <2> QED BY <1>1, <1>2, <1>16, <2>4, TellingFailure DEF Rejected
<1>17. CASE Unknown(d)
  <2>1. Open(d, k)' BY <1>5, <1>6, <1>17 DEF Unknown
  <2> QED BY <1>1, <1>2, <1>17, <2>1, TellingFailure DEF Unknown
<1>18. CASE NextRequest(d)
  <2>1. wire' = wire /\ Exactly(d, n)' /\ ~report[d].told BY <1>5, <1>6, <1>18 DEF NextRequest
  <2>2. CASE at[d] = Parts[d]
    <3>1. Move(d, "over") /\ Tell(d, TRUE, at[d], FALSE) BY <1>18, <2>2 DEF NextRequest
    <3>2. pc'[d] = "over" /\ report'[d].success /\ ~report'[d].uncertain
      BY <3>1 DEF Move, Tell, SendTypeOK
    <3>3. Parts[d] = n BY <1>1, <2>2
    <3>4. Progress(d)' BY <3>2 DEF Progress
    <3>5. Told(d)' BY <2>1, <3>2, <3>3 DEF Told
    <3> QED BY <3>4, <3>5
  <2>3. CASE at[d] # Parts[d]
    <3>1. /\ Move(d, "send") /\ at' = [at EXCEPT ![d] = at[d] + 1] /\ UNCHANGED report
      BY <1>18, <2>3 DEF NextRequest
    <3>2. PICK m : m = n + 1 OBVIOUS
    <3>3. pc'[d] = "send" BY <1>7, <3>1 DEF Phases
    <3>4. at'[d] = m /\ m - 1 = n BY <1>1, <1>3, <3>1, <3>2 DEF SendTypeOK
    <3> QED BY <2>1, <3>1, <3>3, <3>4, Standing DEF Phases
  <2> QED BY <2>2, <2>3
<1>19. CASE Cancelled(d)
  <2>1. pc'[d] = "over" /\ ~report'[d].told BY <1>5, <1>19 DEF Cancelled, Move, SendTypeOK
  <2> QED BY <2>1 DEF Progress, Told
<1> QED BY <1>9, <1>10, <1>11, <1>12, <1>13, <1>14, <1>15, <1>16, <1>17, <1>18, <1>19 DEF Step

\* QQ performs a request, perhaps after its sender gave up: only where the outcome is
\* open, and it is closed then.
LEMMA HonestPerform ==
  ASSUME SendTypeOK, HonestInv, Perform, NEW d \in Deliveries PROVE Progress(d)' /\ Told(d)'
<1>1. PICK q \in wire : log' = Append(log, q) /\ wire' = wire \ {q} BY DEF Perform
<1>2. q \in Deliveries \X Nat BY DEF SendTypeOK
<1>3. UNCHANGED <<pc, at, report>> BY DEF Perform
<1>4. Progress(d) /\ Told(d) BY DEF HonestInv
<1>5. PerformedFor(d)' = IF q[1] = d THEN Append(PerformedFor(d), q) ELSE PerformedFor(d)
  BY <1>1, <1>2, PerformedFacts
<1>6. On(d)' = On(d) \ {q} /\ (q[1] = d => q \in On(d)) BY <1>1 DEF On
<1>7. ASSUME NEW n \in Nat, q[1] = d, Open(d, n) PROVE Open(d, n)'
  <2>1. PerformedFor(d) = FirstParts(d, n) /\ On(d) \subseteq {<<d, n + 1>>}
    BY <1>6, <1>7 DEF Open, Exactly
  <2>2. q = <<d, n + 1>> /\ On(d)' = {} BY <1>6, <1>7, <2>1
  <2>3. PerformedFor(d)' = FirstParts(d, n + 1) BY <1>5, <1>7, <2>1, <2>2, OneMore
  <2>4. Exactly(d, n + 1)' BY <2>2, <2>3 DEF Exactly, FirstParts
  <2> QED BY <2>4 DEF Open
<1>8. ASSUME NEW n, q[1] = d PROVE ~Exactly(d, n) BY <1>6, <1>8 DEF Exactly
<1>9. PICK k : k = at[d] - 1 OBVIOUS
<1>10. PICK r : r = report[d].delivered OBVIOUS
<1>11. k \in Nat /\ r \in Nat
  <2>1. at[d] \in Nat \ {0} /\ report[d] \in Report BY DEF SendTypeOK
  <2>2. report[d].delivered \in Nat BY <2>1 DEF Report
  <2> QED BY <1>9, <1>10, <2>1, <2>2
<1>12. CASE q[1] = d
  <2>1. pc[d] = "answer" \/ pc[d] = "over" BY <1>4, <1>8, <1>12 DEF Progress, SendTypeOK, Phases
  <2>2. pc[d] = "answer" => Open(d, k)' /\ ~report[d].told
    BY <1>4, <1>7, <1>9, <1>11, <1>12 DEF Progress
  <2>3. report[d].told => /\ report[d].uncertain /\ ~report[d].success
                          /\ Open(d, r)'
    BY <1>4, <1>7, <1>8, <1>10, <1>11, <1>12 DEF Told
  <2>4. Progress(d)' BY <1>3, <1>9, <2>1, <2>2 DEF Progress
  <2>5. Told(d)' BY <1>3, <1>10, <2>3 DEF Told
  <2> QED BY <2>4, <2>5
<1>13. CASE q[1] # d
  <2>1. PICK n : n = at[d] OBVIOUS
  <2>2. PICK p : p = Parts[d] OBVIOUS
  <2>3. PerformedFor(d)' = PerformedFor(d) /\ On(d)' = On(d) BY <1>5, <1>6, <1>13 DEF On
  <2>4. ASSUME NEW m PROVE (Exactly(d, m) => Exactly(d, m)') /\ (Open(d, m) => Open(d, m)')
    BY <2>3 DEF Exactly, Open, FirstParts
  <2>5. /\ pc[d] \in {"idle", "upload", "staged", "send", "call"} => Exactly(d, k)'
        /\ pc[d] = "answer" => Open(d, k)'
        /\ pc[d] = "pause" => Exactly(d, n)'
        /\ pc[d] # "over" => ~report[d].told
    BY <1>4, <1>9, <2>1, <2>4 DEF Progress
  <2>6. report[d].told =>
          /\ report[d].success => ~report[d].uncertain /\ Exactly(d, p)'
          /\ ~report[d].success /\ ~report[d].uncertain => Exactly(d, r)'
          /\ report[d].uncertain => Open(d, r)'
    BY <1>4, <1>10, <2>2, <2>4 DEF Told
  <2>7. Progress(d)' BY <1>3, <1>9, <2>1, <2>5 DEF Progress
  <2>8. Told(d)' BY <1>3, <1>10, <2>2, <2>6 DEF Told
  <2> QED BY <2>7, <2>8
<1> QED BY <1>12, <1>13

\* Every step keeps what was told true, and what is known of the deliveries under way.
LEMMA HonestNext == OutboundInv /\ HonestInv /\ [Next]_vars => HonestInv'
<1> SUFFICES ASSUME OutboundInv, HonestInv, [Next]_vars, NEW d \in Deliveries
             PROVE  Progress(d)' /\ Told(d)'
  BY DEF HonestInv
<1>0. SendTypeOK BY TypeParts DEF OutboundInv
<1>1. Progress(d) /\ Told(d) BY DEF HonestInv
<1>2. ASSUME log' = log, On(d)' \subseteq On(d), UNCHANGED <<pc, at, report>>
      PROVE  Progress(d)' /\ Told(d)'
  BY <1>1, <1>2, Unmoved
<1>3. ASSUME NEW w \in Deliveries, Step(w) \/ Refused(w) \/ Cancelled(w)
      PROVE  Progress(d)' /\ Told(d)'
  <2>1. CASE w = d BY <1>0, <1>3, <2>1, HonestStep
  <2>2. CASE w # d
    <3>1. /\ log' = log /\ pc'[d] = pc[d] /\ at'[d] = at[d] /\ report'[d] = report[d]
          /\ On(d)' \subseteq On(d)
      BY <1>0, <1>3, <2>2, OthersStay
    <3> QED BY <1>1, <3>1, Unmoved
  <2> QED BY <2>1, <2>2
<1>4. CASE Perform BY <1>0, <1>4, HonestPerform
<1>5. CASE Drop
  <2>1. On(d)' \subseteq On(d) BY <1>5 DEF Drop, On
  <2> QED BY <1>2, <1>5, <2>1 DEF Drop
<1>6. CASE UNCHANGED sendVars
  <2>1. On(d)' \subseteq On(d) BY <1>6 DEF sendVars, On
  <2> QED BY <1>2, <1>6, <2>1 DEF sendVars
<1>7. ASSUME NEW w \in Deliveries, Revoke(w) PROVE Progress(d)' /\ Told(d)'
  <2>1. On(d)' \subseteq On(d) BY <1>7 DEF Revoke, On
  <2> QED BY <1>2, <1>7, <2>1 DEF Revoke
<1> QED BY <1>3, <1>4, <1>5, <1>6, <1>7 DEF Next, UploadsMove, vars

\* Nothing was performed and nothing was told.
LEMMA HonestInit == Init => HonestInv
<1> SUFFICES ASSUME Init, NEW d \in Deliveries PROVE Progress(d) /\ Told(d) BY DEF HonestInv
<1>1. PerformedFor(d) = <<>>
  <2>1. log = <<>> /\ Len(log) = 0 /\ log \in Seq({}) BY DEF Init
  <2>2. Len(Kept(log, {d} \X Nat)) <= 0 /\ Kept(log, {d} \X Nat) \in Seq({}) BY <2>1, KeptFacts
  <2> QED BY <2>2 DEF PerformedFor
<1>2. FirstParts(d, 0) = <<>> BY DEF FirstParts
<1>3. On(d) = {} BY DEF Init, On
<1>4. pc[d] = "idle" /\ at[d] - 1 = 0 /\ ~report[d].told BY DEF Init, Untold
<1>5. Exactly(d, 0) BY <1>1, <1>2, <1>3 DEF Exactly
<1> QED BY <1>4, <1>5 DEF Progress, Told

\* A caller is told the truth (the partial results of adapter.py:193-200 and of
\* tools.py:359-377), for any deliveries on any number of connections, whatever QQ does
\* later with the requests that are still on the wire.
THEOREM ReportsAreHonest == Spec => []HonestReport
<1>1. Spec => []HonestInv BY Invariant, HonestInit, HonestNext, PTL DEF Spec
<1>2. HonestInv => HonestReport BY DEF HonestInv, Told, Open, Exactly, HonestReport
<1> QED BY <1>1, <1>2, PTL
=============================================================================
