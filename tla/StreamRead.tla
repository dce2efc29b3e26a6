----------------------------- MODULE StreamRead -----------------------------
(***************************************************************************)
(* One download over a multi-response action: stream_call and its bounded  *)
(* buffer (transport.py), the packet protocol (stream_download.py) and the *)
(* publication of the bytes in the cache (import_stream of media.py).      *)
(*                                                                         *)
(* The reader of the socket admits frames into the buffer, the download    *)
(* takes them out, and the connection may be lost, be replaced, or the     *)
(* access to the media be revoked between any two steps.  The peer sends   *)
(* whatever frames it likes.  Streams share nothing but the socket, so one *)
(* is modelled; waiting for a lock that others hold is a delay.            *)
(***************************************************************************)
EXTENDS Naturals, Sequences, FiniteSets, SequencesExt

CONSTANTS ChunkSize, \* bytes of a full chunk
          Limit,     \* the byte allowance of the download
          MaxBuffer, \* max_buffer_bytes
          MaxEpoch   \* bound: connections in one behaviour

ASSUME StreamAssumption == /\ {ChunkSize, Limit, MaxBuffer} \subseteq Nat \ {0}
                           /\ MaxEpoch \in Nat

VARIABLES
  link,      \* "up" (connected), "closing" (not ready any more) or "down"
  epoch,     \* number of the latest connection
  allowed,   \* access_check() succeeds
  converted, \* kind = "record": the announced size is not that of the result
  stage,     \* "idle", "queued" (for the store), "locking", "writing", "reading", "done"
  asked,     \* the epoch the download was asked for
  queue, frames, buffer, closed, \* the _PendingStream
  failed,    \* the error queued by fail(), "no" if there is none
  info,      \* the announced size, 0 before file_info
  count, total, short,           \* of the chunks taken so far
  outcome,   \* "none", "ok", "unsupported", "unavailable" or "failed"
  sent       \* history: the frames that arrived for the open stream

linkVars == <<link, epoch, allowed, converted>>
streamVars == <<queue, frames, buffer, closed, failed>>
packetVars == <<info, count, total, short>>
vars == <<linkVars, stage, asked, streamVars, packetVars, outcome, sent>>

\* What the peer may send: well-formed packets, right or wrong, the rejection of
\* an unknown action, of a missing file, any other rejection, and nonsense.
Packets == [kind : {"info"}, n : {0}, size : 1..Limit + 1]
      \cup [kind : {"chunk"}, n : 0..(Limit - 1) \div ChunkSize, size : 1..ChunkSize]
      \cup [kind : {"complete"}, n : 1..2, size : 1..Limit]
Frames == Packets \cup [kind : {"unknown", "missing", "rejected", "nonsense"}, n : {0}, size : {1}]

Weight(f) == IF f.kind = "chunk" THEN f.size ELSE 1

\* Mutant: room for the chunks and only one other frame.
MutMaxFrames == (Limit + ChunkSize - 1) \div ChunkSize + 1

\* Room for file_info, the chunks of a file of Limit bytes, and file_complete.
MaxFrames == (Limit + ChunkSize - 1) \div ChunkSize + 2

Open == stage \in {"locking", "writing", "reading"}  \* registered in _streams

\* The buffer's account is exact and within its bounds, so the reader of the
\* socket never finds the queue full, even when an error is put into it.
BufferExact == failed = "no" => buffer = SumFunction([i \in DOMAIN queue |-> Weight(queue[i])])

\* The variables have their types, the limits hold and the account is exact.
TypeOK ==
  /\ link \in {"up", "closing", "down"} /\ epoch \in 0..MaxEpoch
  /\ allowed \in BOOLEAN /\ converted \in BOOLEAN
  /\ stage \in {"idle", "queued", "locking", "writing", "reading", "done"}
  /\ asked \in 0..epoch
  /\ queue \in Seq(Packets) /\ Len(queue) <= MaxFrames
  /\ frames \in 0..MaxFrames + 1 /\ buffer \in 0..MaxBuffer
  /\ closed \in BOOLEAN
  /\ failed \in {"no", "frames", "bytes", "unsupported", "unavailable", "rejected", "invalid", "lost"}
  /\ info \in 0..Limit + 1 /\ count \in Nat /\ total \in 0..Limit /\ short \in BOOLEAN
  /\ outcome \in {"none", "ok", "unsupported", "unavailable", "failed"}
  /\ sent \in Seq(Frames)
  /\ BufferExact

Init ==
  /\ link = "down" /\ epoch = 0 /\ allowed = TRUE /\ converted \in BOOLEAN
  /\ stage = "idle" /\ asked = 0
  /\ queue = <<>> /\ frames = 0 /\ buffer = 0 /\ closed = FALSE /\ failed = "no"
  /\ info = 0 /\ count = 0 /\ total = 0 /\ short = FALSE
  /\ outcome = "none" /\ sent = <<>>

-----------------------------------------------------------------------------
(* _PendingStream *)

\* Mutant: the reader of the stream is not told.
MutFail(why) == /\ closed' = TRUE /\ failed' = "no"
                /\ queue' = <<>> /\ buffer' = 0

\* fail(): the first error drops what is buffered, a finished answer included.
Fail(why) == IF failed # "no" THEN UNCHANGED <<closed, failed, queue, buffer>>
             ELSE /\ closed' = TRUE /\ failed' = why
                  /\ queue' = <<>> /\ buffer' = 0

\* The connection is gone.
FailOpen == IF Open THEN Fail("lost") ELSE UNCHANGED <<closed, failed, queue, buffer>>

\* Mutant: a rejection in the middle of the answer looks like an unknown action.
MutRejection(f) == CASE f.kind = "unknown" -> "unsupported"
                     [] f.kind = "missing" /\ frames = 0 -> "unavailable"
                     [] OTHER -> "rejected"

\* Only the first frame can say that the action or the file does not exist.
Rejection(f) == CASE f.kind = "unknown" /\ frames = 0 -> "unsupported"
                  [] f.kind = "missing" /\ frames = 0 -> "unavailable"
                  [] OTHER -> "rejected"

\* admit(): the limits come first, then the envelope.
Admit(f) ==
  /\ frames' = frames + 1
  /\ \/ frames + 1 > MaxFrames /\ Fail("frames")
     \/ frames + 1 <= MaxFrames /\ buffer + Weight(f) > MaxBuffer /\ Fail("bytes")
     \/ /\ frames + 1 <= MaxFrames /\ buffer + Weight(f) <= MaxBuffer
        /\ \/ f.kind \in {"unknown", "missing", "rejected"} /\ Fail(Rejection(f))
           \/ f.kind = "nonsense" /\ Fail("invalid")
           \/ /\ f \in Packets
              /\ queue' = Append(queue, f) /\ buffer' = buffer + Weight(f)
              /\ closed' = (f.kind = "complete")
              /\ UNCHANGED failed

\* The reader of the current socket gets a frame for the open stream.  Any other
\* frame is late and changes nothing.
Receive(f) ==
  /\ stage \in {"writing", "reading"} /\ ~closed /\ link = "up" /\ epoch = asked
  /\ Admit(f)
  /\ sent' = Append(sent, f)
  /\ UNCHANGED <<linkVars, stage, asked, packetVars, outcome>>

-----------------------------------------------------------------------------
(* The connection and the access *)

Connect ==
  /\ link = "down" /\ epoch < MaxEpoch
  /\ link' = "up" /\ epoch' = epoch + 1
  /\ UNCHANGED <<allowed, converted, stage, asked, streamVars, packetVars, outcome, sent>>

\* The socket ends, its reader fails the streams.
SocketLost ==
  /\ link = "up" /\ link' = "closing"
  /\ FailOpen
  /\ UNCHANGED <<epoch, allowed, converted, stage, asked, frames, packetVars, outcome, sent>>

\* stop(), or the attachment is cancelled: the channel is not ready any more.
Withdrawn ==
  /\ link = "up" /\ link' = "closing"
  /\ UNCHANGED <<epoch, allowed, converted, stage, asked, streamVars, packetVars, outcome, sent>>

\* The attachment has been cleaned up.
Detached ==
  /\ link = "closing" /\ link' = "down"
  /\ FailOpen
  /\ UNCHANGED <<epoch, allowed, converted, stage, asked, frames, packetVars, outcome, sent>>

\* The message is recalled, or its sender loses access.
Revoke ==
  /\ allowed /\ allowed' = FALSE
  /\ UNCHANGED <<link, epoch, converted, stage, asked, streamVars, packetVars, outcome, sent>>

-----------------------------------------------------------------------------
(* The download *)

\* Mutant: the download checks its connection only when it starts.
MutFresh == TRUE

\* check_access() and the check of stream_call.
Fresh == allowed /\ link = "up" /\ epoch = asked

End(result) == /\ stage' = "done" /\ outcome' = result
               /\ queue' = <<>> /\ buffer' = 0

Failed == /\ End("failed") /\ UNCHANGED <<frames, closed, failed, packetVars>>

\* download(): the connection is noted, then the store is waited for.
Request ==
  /\ stage = "idle" /\ asked' = epoch
  /\ \/ /\ link = "up" /\ allowed
        /\ stage' = "queued" /\ UNCHANGED <<streamVars, packetVars, outcome>>
     \/ ~(link = "up" /\ allowed) /\ Failed
  /\ UNCHANGED <<linkVars, sent>>

\* The store is free: the quota allows the transfer or not, and a connection
\* that is still the same one gets the stream registered.
Begin ==
  /\ stage = "queued"
  /\ \/ Failed
     \/ Fresh /\ stage' = "locking" /\ UNCHANGED <<streamVars, packetVars, outcome>>
  /\ UNCHANGED <<linkVars, asked, sent>>

\* Under the send lock the request is written, on the same connection only.
Write ==
  /\ stage = "locking"
  /\ \/ link = "up" /\ epoch = asked /\ stage' = "writing"
        /\ UNCHANGED <<streamVars, packetVars, outcome>>
     \/ ~(link = "up" /\ epoch = asked) /\ Failed
  /\ UNCHANGED <<linkVars, asked, sent>>

Written ==
  /\ stage = "writing"
  /\ \/ stage' = "reading" /\ UNCHANGED <<streamVars, packetVars, outcome>>
     \/ Failed
  /\ UNCHANGED <<linkVars, asked, sent>>

\* The queued error is raised, whatever the connection does meanwhile.
TakeError ==
  /\ stage = "reading" /\ failed # "no"
  /\ End(IF failed \in {"unsupported", "unavailable"} THEN failed ELSE "failed")
  /\ UNCHANGED <<linkVars, asked, frames, closed, failed, packetVars, sent>>

NextInfo(f) == f.kind = "info" /\ info = 0 /\ (converted \/ f.size <= Limit)

\* Mutant: a chunk is not compared with the number expected.
MutNextChunk(f) == /\ f.kind = "chunk" /\ info # 0 /\ ~short
                   /\ f.size <= ChunkSize /\ total + f.size <= Limit

\* Chunks come in order, and only the last one may be short.
NextChunk(f) == /\ f.kind = "chunk" /\ info # 0 /\ ~short /\ f.n = count
                /\ f.size <= ChunkSize /\ total + f.size <= Limit

NextComplete(f) == /\ f.kind = "complete" /\ info # 0
                   /\ count > 0 /\ f.n = count /\ f.size = total
                   /\ converted \/ info = total

\* Mutant: the bytes taken are not given back.
MutPop(f) == queue' = Tail(queue) /\ UNCHANGED buffer

Pop(f) == queue' = Tail(queue) /\ buffer' = buffer - Weight(f)

TakeInfo(f) ==
  /\ Fresh /\ NextInfo(f)
  /\ Pop(f) /\ info' = f.size
  /\ UNCHANGED <<stage, outcome, frames, closed, failed, count, total, short>>

TakeChunk(f) ==
  /\ Fresh /\ NextChunk(f)
  /\ Pop(f)
  /\ count' = count + 1 /\ total' = total + f.size /\ short' = (f.size < ChunkSize)
  /\ UNCHANGED <<stage, outcome, frames, closed, failed, info>>

\* The bytes are published after the last check.
Publish(f) ==
  /\ Fresh /\ NextComplete(f)
  /\ End("ok") /\ UNCHANGED <<frames, closed, failed, packetVars>>

\* The connection or the access is gone, the packet is not the next one, or the
\* bytes are not of the kind asked for.
Refuse(f) ==
  /\ ~(Fresh /\ (NextInfo(f) \/ NextChunk(f)))
  /\ Failed

TakePacket ==
  /\ stage = "reading" /\ queue # <<>>
  /\ LET f == Head(queue) IN TakeInfo(f) \/ TakeChunk(f) \/ Publish(f) \/ Refuse(f)
  /\ UNCHANGED <<linkVars, asked, sent>>

\* A time-out or a cancellation, at any of the awaits.
GiveUp ==
  /\ stage \in {"queued", "locking", "writing", "reading"}
  /\ Failed
  /\ UNCHANGED <<linkVars, asked, sent>>

Next == \/ \E f \in Frames : Receive(f)
        \/ Connect \/ SocketLost \/ Withdrawn \/ Detached \/ Revoke
        \/ Request \/ Begin \/ Write \/ Written \/ TakeError \/ TakePacket \/ GiveUp

Spec == Init /\ [][Next]_vars

\* The event loop runs the cleanup of the socket and a download that can go on;
\* neither the peer nor the time-out is relied on.
FairSpec == Spec /\ WF_vars(Detached) /\ WF_vars(TakeError) /\ WF_vars(TakePacket)

-----------------------------------------------------------------------------
(* Properties *)

\* What is published is the whole answer of the peer: announced, in order, without
\* a gap, no short chunk but the last, as long as announced and within the limit.
WholeFile ==
  outcome = "ok" =>
    /\ Len(sent) = count + 2 /\ sent[1].kind = "info" /\ Last(sent).kind = "complete"
    /\ \A i \in 1..count : /\ sent[i + 1].kind = "chunk" /\ sent[i + 1].n = i - 1
                           /\ i < count => sent[i + 1].size = ChunkSize
    /\ LET size == SumFunctionOnSet([i \in DOMAIN sent |-> sent[i].size], 2..count + 1)
       IN  size <= Limit /\ (~converted => sent[1].size = size)

\* The caller may try another channel only if the peer knows no such action and
\* no byte was transferred.
FallbackOnlyUntouched == outcome = "unsupported" => Len(sent) = 1 /\ sent[1].kind = "unknown"

\* What a peer that follows the protocol sends for a file within the limit.
Honest(s) ==
  /\ s # <<>> => s[1].kind = "info"
  /\ \A i \in 2..Len(s) : \/ s[i].kind = "chunk" /\ s[i].n = i - 2
                          \/ s[i].kind = "complete" /\ i = Len(s)
  /\ \A i \in 2..Len(s) - 1 : s[i + 1].kind = "chunk" => s[i].size = ChunkSize
  /\ SumFunction([i \in DOMAIN s |-> IF s[i].kind = "chunk" THEN s[i].size ELSE 0]) <= Limit

\* An honest answer never exceeds the number of frames allowed.
HonestNotRefused == failed = "frames" => ~Honest(sent)

\* The connection the download was asked for, or the access to the media, is gone
\* before the bytes were published.
Lapsed == stage # "idle" /\ outcome # "ok" /\ ~(allowed /\ link = "up" /\ epoch = asked)

\* Such a download never publishes: not with an answer that was complete in the
\* buffer before, and not over the connection that replaces the lost one.
LapsedForGood == [](Lapsed => [](outcome # "ok"))

\* A read whose connection is lost ends without waiting for its time-out.
LostReadsEnd == stage = "reading" /\ link # "up" ~> stage # "reading"
=============================================================================
