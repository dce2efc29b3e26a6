-------------------------- MODULE StreamReadProofs ----------------------------
(***************************************************************************)
(* Theorems about StreamRead, for every chunk size, allowance and buffer.  *)
(***************************************************************************)
EXTENDS StreamRead, DataFacts

\* Tuples of variables, expanded throughout.
USE DEF linkVars, streamVars, packetVars

\* What a frame holds; every frame weighs something.
LEMMA FrameType ==
  /\ Packets \subseteq Frames
  /\ \A f \in Frames : f.size \in Nat /\ f.n \in Nat /\ Weight(f) \in Nat \ {0}
  /\ \A f \in Packets : f.kind \in {"info", "chunk", "complete"} /\ f.size \in 1..Limit + 1 + ChunkSize
  /\ \A f \in Packets : f.kind = "info" => f.size <= Limit + 1
<1>1. Limit \in Nat \ {0} /\ ChunkSize \in Nat \ {0} BY StreamAssumption
<1>2. Packets \subseteq Frames BY DEF Frames
<1>3. ASSUME NEW f \in Packets
      PROVE  /\ f.size \in 1..Limit + 1 + ChunkSize /\ f.n \in Nat
             /\ f.kind \in {"info", "chunk", "complete"}
             /\ f.kind = "info" => f.size <= Limit + 1
  <2>1. CASE f \in [kind : {"info"}, n : {0}, size : 1..Limit + 1] BY <1>1, <2>1
  <2>2. CASE f \in [kind : {"chunk"}, n : 0..(Limit - 1) \div ChunkSize, size : 1..ChunkSize]
    BY <1>1, <2>2
  <2>3. CASE f \in [kind : {"complete"}, n : 1..2, size : 1..Limit] BY <1>1, <2>3
  <2> QED BY <1>3, <2>1, <2>2, <2>3 DEF Packets
<1>4. ASSUME NEW f \in Frames
      PROVE  f.size \in Nat \ {0} /\ f.n \in Nat
  <2>1. CASE f \in Packets BY <1>1, <1>3, <2>1
  <2>2. CASE f \in [kind : {"unknown", "missing", "rejected", "nonsense"}, n : {0}, size : {1}]
    BY <2>2
  <2> QED BY <1>4, <2>1, <2>2 DEF Frames
<1>5. \A f \in Frames : Weight(f) \in Nat \ {0} BY <1>4 DEF Weight
<1> QED BY <1>2, <1>3, <1>4, <1>5

\* What the buffered packets weigh.
Weights(q) == [i \in DOMAIN q |-> Weight(q[i])]

\* The weight of a queue is the sum over its positions, a natural.
LEMMA WeightsType ==
  ASSUME NEW q \in Seq(Packets)
  PROVE  /\ SumFunction(Weights(q)) \in Nat
         /\ SumFunction(Weights(q)) = SumFunctionOnSet(Weights(q), 1..Len(q))
         /\ \A i \in 1..Len(q) : Weights(q)[i] = Weight(q[i]) /\ Weights(q)[i] \in Nat
<1>1. DOMAIN q = 1..Len(q) /\ Len(q) \in Nat /\ \A i \in 1..Len(q) : q[i] \in Packets OBVIOUS
<1>2. \A i \in 1..Len(q) : Weights(q)[i] = Weight(q[i]) /\ Weights(q)[i] \in Nat
  BY <1>1, FrameType DEF Weights
<1>3. SumFunction(Weights(q)) = SumFunctionOnSet(Weights(q), 1..Len(q))
  BY <1>1 DEF SumFunction, Weights
<1>4. IsFiniteSet(1..Len(q)) BY <1>1, FS_Interval
<1>5. SumFunctionOnSet(Weights(q), 1..Len(q)) \in Nat BY <1>2, <1>4, SumType
<1> QED BY <1>2, <1>3, <1>5

\* A packet admitted adds its weight.
LEMMA BufferAppend ==
  ASSUME NEW q \in Seq(Packets), NEW f \in Packets
  PROVE  SumFunction(Weights(Append(q, f))) = SumFunction(Weights(q)) + Weight(f)
<1> DEFINE r == Append(q, f)
<1>1. /\ r \in Seq(Packets) /\ Len(r) = Len(q) + 1 /\ Len(q) \in Nat /\ r[Len(q) + 1] = f
      /\ \A i \in 1..Len(q) : r[i] = q[i]
  OBVIOUS
<1> HIDE DEF r
<1>2. /\ SumFunction(Weights(r)) = SumFunctionOnSet(Weights(r), 1..Len(q) + 1)
      /\ SumFunction(Weights(q)) = SumFunctionOnSet(Weights(q), 1..Len(q))
      /\ \A i \in 1..Len(q) + 1 : Weights(r)[i] = Weight(r[i]) /\ Weights(r)[i] \in Nat
      /\ \A i \in 1..Len(q) : Weights(q)[i] = Weight(q[i])
  BY <1>1, WeightsType
<1>3. \A i \in 1..Len(q) : Weights(q)[i] = Weights(r)[i]
  <2>1. 1..Len(q) \subseteq 1..Len(q) + 1 BY <1>1
  <2> QED BY <1>1, <1>2, <2>1
<1>4. SumFunctionOnSet(Weights(r), 1..Len(q) + 1)
        = SumFunctionOnSet(Weights(q), 1..Len(q)) + Weights(r)[Len(q) + 1]
  BY <1>1, <1>2, <1>3, QueueSumAppend
<1>5. Weights(r)[Len(q) + 1] = Weight(f) BY <1>1, <1>2
<1> QED BY <1>2, <1>4, <1>5 DEF r

\* A packet taken takes its weight with it.
LEMMA BufferTail ==
  ASSUME NEW q \in Seq(Packets), q # <<>>
  PROVE  SumFunction(Weights(q)) = Weight(Head(q)) + SumFunction(Weights(Tail(q)))
<1> DEFINE r == Tail(q)
           n == Len(q)
<1>1. /\ r \in Seq(Packets) /\ Len(r) = n - 1 /\ n \in Nat \ {0} /\ q[1] = Head(q)
      /\ \A i \in 1..n - 1 : r[i] = q[i + 1]
  OBVIOUS
<1> HIDE DEF r, n
<1>2. /\ SumFunction(Weights(q)) = SumFunctionOnSet(Weights(q), 1..n)
      /\ SumFunction(Weights(r)) = SumFunctionOnSet(Weights(r), 1..n - 1)
      /\ \A i \in 1..n : Weights(q)[i] = Weight(q[i]) /\ Weights(q)[i] \in Nat
      /\ \A i \in 1..n - 1 : Weights(r)[i] = Weight(r[i])
  BY <1>1, WeightsType DEF n
<1>3. \A i \in 1..n - 1 : Weights(r)[i] = Weights(q)[i + 1]
  <2>1. \A i \in 1..n - 1 : i + 1 \in 1..n BY <1>1
  <2> QED BY <1>1, <1>2, <2>1
<1>4. SumFunctionOnSet(Weights(q), 1..n) = Weights(q)[1] + SumFunctionOnSet(Weights(r), 1..n - 1)
  BY <1>1, <1>2, <1>3, QueueSumTail
<1>5. Weights(q)[1] = Weight(Head(q)) BY <1>1, <1>2
<1> QED BY <1>2, <1>4, <1>5 DEF r

-----------------------------------------------------------------------------
(* Types *)

\* Why a stream may have failed.
Errors == {"no", "frames", "bytes", "unsupported", "unavailable", "rejected", "invalid", "lost"}

\* The frames that arrived are counted, and a stream that failed holds nothing.
Arrival ==
  /\ frames = Len(sent) /\ Len(queue) <= frames
  /\ ~closed => failed = "no" /\ frames <= MaxFrames
  /\ failed # "no" => queue = <<>>

TypeInv == TypeOK /\ Arrival

\* What TypeInv says of the buffer.
Buffer ==
  /\ queue \in Seq(Packets) /\ Len(queue) <= MaxFrames /\ buffer \in 0..MaxBuffer
  /\ closed \in BOOLEAN /\ failed \in Errors
  /\ failed = "no" => buffer = SumFunction(Weights(queue))
  /\ Len(queue) <= frames
  /\ ~closed => failed = "no" /\ frames <= MaxFrames
  /\ failed # "no" => queue = <<>>

\* And of the rest.
Rest ==
  /\ link \in {"up", "closing", "down"} /\ epoch \in 0..MaxEpoch
  /\ allowed \in BOOLEAN /\ converted \in BOOLEAN
  /\ stage \in {"idle", "queued", "locking", "writing", "reading", "done"}
  /\ asked \in 0..epoch
  /\ info \in 0..Limit + 1 /\ count \in Nat /\ total \in 0..Limit /\ short \in BOOLEAN
  /\ outcome \in {"none", "ok", "unsupported", "unavailable", "failed"}

\* And of the frames.
Counted == frames \in 0..MaxFrames + 1 /\ sent \in Seq(Frames) /\ frames = Len(sent)

\* The type invariant in its parts, now and after a step.
LEMMA TypeParts == /\ TypeInv <=> Buffer /\ Rest /\ Counted
                   /\ TypeInv' <=> Buffer' /\ Rest' /\ Counted'
BY DEF TypeInv, TypeOK, Arrival, BufferExact, Buffer, Rest, Counted, Errors, Weights

\* The limits are naturals; there is room for two frames at least.
LEMMA Bounds ==
  /\ {ChunkSize, Limit, MaxBuffer} \subseteq Nat \ {0} /\ MaxEpoch \in Nat
  /\ MaxFrames \in Nat /\ MaxFrames >= 2
BY StreamAssumption DEF MaxFrames

\* The empty buffer weighs nothing.
LEMMA EmptyBuffer == <<>> \in Seq(Packets) /\ Len(<<>>) = 0 /\ SumFunction(Weights(<<>>)) = 0
<1>1. DOMAIN Weights(<<>>) = {} BY DEF Weights
<1> QED BY <1>1, SumEmpty DEF SumFunction

\* fail() leaves a buffer that is well-formed and empty.
LEMMA FailTypes ==
  ASSUME Buffer, NEW why \in Errors \ {"no"}, Fail(why), frames' \in Nat
  PROVE  Buffer'
<1>1. CASE failed # "no"
  <2>1. UNCHANGED <<closed, failed, queue, buffer>> BY <1>1 DEF Fail
  <2>2. Len(queue) = 0 BY <1>1 DEF Buffer
  <2> QED BY <1>1, <2>1, <2>2 DEF Buffer
<1>2. CASE failed = "no"
  <2>1. closed' = TRUE /\ failed' = why /\ queue' = <<>> /\ buffer' = 0 BY <1>2 DEF Fail
  <2> QED BY <2>1, Bounds, EmptyBuffer DEF Buffer
<1> QED BY <1>1, <1>2

\* So does the end of the download.
LEMMA EndTypes ==
  ASSUME Buffer, queue' = <<>>, buffer' = 0, UNCHANGED <<frames, closed, failed>>, frames \in Nat
  PROVE  Buffer'
BY Bounds, EmptyBuffer DEF Buffer

\* admit() keeps the account of the buffer exact and within its bounds.
LEMMA AdmitTypes ==
  ASSUME Buffer, Counted, NEW f \in Frames, Admit(f), ~closed
  PROVE  Buffer' /\ frames' \in 0..MaxFrames + 1
<1>1. frames' = frames + 1 /\ frames \in Nat /\ frames <= MaxFrames /\ failed = "no"
  BY DEF Admit, Buffer, Counted
<1>2. frames' \in 0..MaxFrames + 1 /\ frames' \in Nat BY <1>1, Bounds
<1>3. ASSUME NEW why \in Errors \ {"no"}, Fail(why) PROVE Buffer'
  BY <1>2, <1>3, FailTypes
<1>4. Rejection(f) \in Errors \ {"no"} BY DEF Rejection, Errors
<1>5. CASE /\ frames + 1 <= MaxFrames /\ buffer + Weight(f) <= MaxBuffer /\ f \in Packets
           /\ queue' = Append(queue, f) /\ buffer' = buffer + Weight(f)
           /\ closed' = (f.kind = "complete") /\ UNCHANGED failed
  <2>1. Weight(f) \in Nat BY FrameType
  <2>2. queue' \in Seq(Packets) /\ Len(queue') = Len(queue) + 1 /\ Len(queue) \in Nat
    BY <1>5 DEF Buffer
  <2>3. buffer' \in 0..MaxBuffer BY <1>5, <2>1, Bounds DEF Buffer
  <2>4. buffer' = SumFunction(Weights(queue')) BY <1>1, <1>5, BufferAppend DEF Buffer
  <2>5. Len(queue') <= frames' /\ Len(queue') <= MaxFrames BY <1>1, <1>5, <2>2, Bounds DEF Buffer
  <2>6. closed' \in BOOLEAN /\ failed' = "no" BY <1>1, <1>5
  <2>7. /\ failed' = "no" => buffer' = SumFunction(Weights(queue'))
        /\ ~closed' => failed' = "no" /\ frames' <= MaxFrames
        /\ failed' # "no" => queue' = <<>>
    BY <1>1, <1>5, <2>4, <2>6
  <2>8. failed' \in Errors BY <2>6 DEF Errors
  <2> QED BY <1>2, <2>2, <2>3, <2>5, <2>6, <2>7, <2>8 DEF Buffer
<1>6. {"frames", "bytes", "invalid"} \subseteq Errors \ {"no"} BY DEF Errors
<1>7. \/ Fail("frames") \/ Fail("bytes") \/ Fail("invalid") \/ Fail(Rejection(f))
      \/ /\ frames + 1 <= MaxFrames /\ buffer + Weight(f) <= MaxBuffer /\ f \in Packets
         /\ queue' = Append(queue, f) /\ buffer' = buffer + Weight(f)
         /\ closed' = (f.kind = "complete") /\ UNCHANGED failed
  BY DEF Admit
<1>8. Buffer' BY <1>3, <1>4, <1>5, <1>6, <1>7
<1> QED BY <1>2, <1>8

\* Every step keeps the types, the bounds and the account.
LEMMA TypeStep == TypeInv /\ [Next]_vars => TypeInv'
<1> SUFFICES ASSUME Buffer, Rest, Counted, [Next]_vars PROVE Buffer' /\ Rest' /\ Counted'
  BY TypeParts
<1>0. frames \in Nat /\ {"lost"} \subseteq Errors \ {"no"} BY DEF Counted, Errors
<1>a. ASSUME UNCHANGED <<queue, buffer, closed, failed, frames>> PROVE Buffer'
  BY <1>a DEF Buffer
<1>b. ASSUME Failed PROVE Buffer' /\ stage' = "done" /\ outcome' = "failed"
                          /\ UNCHANGED <<frames, packetVars>>
  BY <1>0, <1>b, EndTypes DEF Failed, End
<1>c. ASSUME FailOpen, frames' = frames PROVE Buffer'
  BY <1>0, <1>a, <1>c, FailTypes DEF FailOpen
<1>1. ASSUME NEW f \in Frames, Receive(f) PROVE Buffer' /\ Rest' /\ Counted'
  <2>1. Buffer' /\ frames' \in 0..MaxFrames + 1 /\ frames' = frames + 1
    BY <1>1, AdmitTypes DEF Receive, Admit
  <2>2. sent' \in Seq(Frames) /\ Len(sent') = Len(sent) + 1 BY <1>1 DEF Receive, Counted
  <2> QED BY <1>1, <2>1, <2>2 DEF Receive, Rest, Counted
<1>2. CASE Connect \/ Withdrawn \/ Revoke
  <2>1. Buffer' /\ Counted'
    BY <1>2, <1>a DEF Connect, Withdrawn, Revoke, Counted
  <2>2. /\ link' \in {"up", "closing", "down"} /\ allowed' \in BOOLEAN
        /\ UNCHANGED <<converted, stage, asked, packetVars, outcome>>
    BY <1>2 DEF Connect, Withdrawn, Revoke, Rest
  <2>3. epoch' \in 0..MaxEpoch /\ asked \in 0..epoch'
    BY <1>2, Bounds DEF Connect, Withdrawn, Revoke, Rest
  <2> QED BY <2>1, <2>2, <2>3 DEF Rest
<1>3. CASE SocketLost \/ Detached
  BY <1>3, <1>c DEF SocketLost, Detached, Rest, Counted
<1>4. CASE Request \/ Begin \/ Write \/ Written \/ GiveUp
  BY <1>4, <1>a, <1>b DEF Request, Begin, Write, Written, GiveUp, Rest, Counted
<1>5. CASE TakeError
  <2>1. Buffer' BY <1>0, <1>5, EndTypes DEF TakeError, End
  <2> QED BY <1>5, <2>1 DEF TakeError, End, Rest, Counted
<1>6. CASE TakePacket
  <2> DEFINE f == Head(queue)
  <2>1. f \in Packets /\ failed = "no" /\ queue # <<>> BY <1>6 DEF TakePacket, Buffer
  <2>2. f \in Frames /\ f.size \in Nat /\ Weight(f) \in Nat BY <2>1, FrameType
  <2>3. ASSUME Pop(f), UNCHANGED <<frames, closed, failed>> PROVE Buffer'
    <3>1. buffer = Weight(f) + SumFunction(Weights(queue')) /\ buffer' = buffer - Weight(f)
          /\ queue' = Tail(queue)
      BY <2>1, <2>3, BufferTail DEF Pop, Buffer
    <3>2. queue' \in Seq(Packets) /\ Len(queue') = Len(queue) - 1 /\ Len(queue) \in Nat
      BY <2>1, <3>1 DEF Buffer
    <3>3. SumFunction(Weights(queue')) \in Nat BY <3>2, WeightsType
    <3>4. buffer' = SumFunction(Weights(queue')) /\ buffer' \in 0..MaxBuffer
      BY <2>2, <3>1, <3>3, Bounds DEF Buffer
    <3>5. Len(queue') <= frames /\ Len(queue') <= MaxFrames BY <1>0, <3>2, Bounds DEF Buffer
    <3> QED BY <2>1, <2>3, <3>2, <3>4, <3>5 DEF Buffer
  <2> HIDE DEF f
  <2>4. CASE TakeInfo(f)
    <3>1. Buffer' BY <2>3, <2>4 DEF TakeInfo
    <3>2. info' \in 0..Limit + 1
      BY <2>1, <2>2, <2>4, FrameType, Bounds DEF TakeInfo, NextInfo
    <3> QED BY <1>6, <2>4, <3>1, <3>2 DEF TakePacket, TakeInfo, Rest, Counted
  <2>5. CASE TakeChunk(f)
    <3>1. Buffer' BY <2>3, <2>5 DEF TakeChunk
    <3>2. count' \in Nat /\ total' \in 0..Limit /\ short' \in BOOLEAN
      BY <2>2, <2>5, Bounds DEF TakeChunk, NextChunk, Rest
    <3> QED BY <1>6, <2>5, <3>1, <3>2 DEF TakePacket, TakeChunk, Rest, Counted
  <2>6. CASE Publish(f)
    <3>1. Buffer' BY <1>0, <2>6, EndTypes DEF Publish, End
    <3> QED BY <1>6, <2>6, <3>1 DEF TakePacket, Publish, End, Rest, Counted
  <2>7. CASE Refuse(f)
    BY <1>6, <2>7, <1>b DEF TakePacket, Refuse, Rest, Counted
  <2> QED BY <1>6, <2>4, <2>5, <2>6, <2>7 DEF TakePacket, f
<1>7. CASE UNCHANGED vars BY <1>7, <1>a DEF vars, Rest, Counted
<1> QED BY <1>1, <1>2, <1>3, <1>4, <1>5, <1>6, <1>7 DEF Next

\* They hold at the start.
LEMMA TypeInit == Init => TypeInv
<1> SUFFICES ASSUME Init PROVE Buffer /\ Rest /\ Counted BY TypeParts
<1>0. /\ queue = <<>> /\ frames = 0 /\ buffer = 0 /\ closed = FALSE /\ failed = "no"
      /\ MaxFrames \in Nat /\ MaxBuffer \in Nat
  BY Bounds DEF Init
<1>1. Buffer
  <2>1. queue \in Seq(Packets) /\ Len(queue) = 0 /\ buffer = SumFunction(Weights(queue))
    BY <1>0, EmptyBuffer
  <2>2. failed \in Errors /\ closed \in BOOLEAN BY <1>0 DEF Errors
  <2>3. 0 <= MaxFrames /\ buffer \in 0..MaxBuffer /\ Len(queue) <= frames BY <1>0, <2>1
  <2> QED BY <1>0, <2>1, <2>2, <2>3 DEF Buffer
<1>2. Rest
  <2>1. MaxEpoch \in Nat /\ Limit \in Nat BY Bounds
  <2>2. epoch \in 0..MaxEpoch /\ asked \in 0..epoch BY <2>1 DEF Init
  <2>3. info \in 0..Limit + 1 /\ count \in Nat /\ total \in 0..Limit BY <2>1 DEF Init
  <2>4. allowed \in BOOLEAN /\ converted \in BOOLEAN /\ short \in BOOLEAN BY DEF Init
  <2>5. link = "down" /\ stage = "idle" /\ outcome = "none" BY DEF Init
  <2> QED BY <2>2, <2>3, <2>4, <2>5 DEF Rest
<1>3. Counted BY Bounds DEF Init, Counted
<1> QED BY <1>1, <1>2, <1>3

\* They hold always.
LEMMA TypeAlways == Spec => []TypeInv
BY TypeInit, TypeStep, PTL DEF Spec

\* TypeOK: the account of the buffer is exact, and neither the frames nor the bytes
\* exceed their limits, so the reader of the socket never finds the queue full.
THEOREM Types == Spec => []TypeOK
<1>1. TypeInv => TypeOK BY DEF TypeInv
<1> QED BY <1>1, TypeAlways, PTL

-----------------------------------------------------------------------------
(* The stream as it is read *)

Taken == Len(sent) - Len(queue)  \* packets the download has taken

Sizes(s) == [i \in DOMAIN s |-> s[i].size]

\* Nothing arrives or is taken before the request is written.
Unopened == stage \in {"idle", "queued", "locking"} =>
  sent = <<>> /\ info = 0 /\ count = 0 /\ total = 0 /\ ~short

\* What the errors say about the frames that arrived.
Verdict ==
  /\ stage # "done" => outcome = "none"
  /\ "unsupported" \in {failed, outcome} => Len(sent) = 1 /\ sent[1].kind = "unknown"
  /\ failed = "frames" => Len(sent) = MaxFrames + 1

\* The buffer is the end of what arrived, and the last packet closes the stream.
InOrder ==
  /\ \A i \in 1..Len(sent) : sent[i] \in Packets
  /\ \A i \in 1..Len(sent) : sent[i].kind = "complete" => i = Len(sent) /\ closed
  /\ \A i \in 1..Len(queue) : queue[i] = sent[Taken + i]

\* What was taken: the announcement, then the chunks in order, none of them short
\* but perhaps the last; the total is the sum of their sizes.
Progress ==
  /\ info = 0 => Taken = 0 /\ count = 0 /\ ~short
  /\ info # 0 => Taken = count + 1 /\ sent[1].kind = "info" /\ sent[1].size = info
  /\ \A i \in 1..count : /\ sent[i + 1].kind = "chunk" /\ sent[i + 1].n = i - 1
                         /\ i < count \/ ~short => sent[i + 1].size = ChunkSize
  /\ total = SumFunctionOnSet(Sizes(sent), 2..count + 1)

Reading == stage # "done" /\ failed = "no" => InOrder /\ Progress

\* The inductive invariant.
ReadInv == TypeInv /\ Unopened /\ Verdict /\ Reading /\ WholeFile

\* The sizes of what was taken are those of the frames, whatever else arrives.
LEMMA SizesKept ==
  ASSUME NEW s \in Seq(Frames), NEW t \in Seq(Frames), NEW n \in Nat, n + 1 <= Len(s) \/ n = 0,
         Len(s) <= Len(t), \A i \in 1..Len(s) : t[i] = s[i]
  PROVE  SumFunctionOnSet(Sizes(t), 2..n + 1) = SumFunctionOnSet(Sizes(s), 2..n + 1)
<1>1. IsFiniteSet(2..n + 1) BY FS_Interval
<1>2. \A i \in 2..n + 1 : i \in 1..Len(s) /\ i \in 1..Len(t) OBVIOUS
<1>3. \A i \in 2..n + 1 : Sizes(t)[i] = Sizes(s)[i] BY <1>2 DEF Sizes
<1> QED BY <1>1, <1>3, SumSame

\* One chunk more adds its size to the total.
LEMMA SizesNext ==
  ASSUME NEW s \in Seq(Frames), NEW n \in Nat, n + 2 <= Len(s)
  PROVE  SumFunctionOnSet(Sizes(s), 2..n + 2)
           = SumFunctionOnSet(Sizes(s), 2..n + 1) + s[n + 2].size
<1>1. IsFiniteSet(2..n + 2) /\ IsFiniteSet(2..n + 1) BY FS_Interval
<1>2. \A i \in 2..n + 2 : i \in 1..Len(s) OBVIOUS
<1>3. \A i \in 2..n + 2 : Sizes(s)[i] = s[i].size /\ s[i] \in Frames BY <1>2 DEF Sizes
<1>4. \A i \in 2..n + 2 : Sizes(s)[i] \in Nat BY <1>3, FrameType
<1>5. n + 2 \in 2..n + 2 /\ (2..n + 2) \ {n + 2} = 2..n + 1 OBVIOUS
<1>6. SumFunctionOnSet(Sizes(s), 2..n + 2)
        = Sizes(s)[n + 2] + SumFunctionOnSet(Sizes(s), 2..n + 1)
  BY <1>1, <1>4, <1>5, SumRemove
<1>7. \A i \in 2..n + 1 : Sizes(s)[i] \in Nat
  <2>1. \A i \in 2..n + 1 : i \in 2..n + 2 OBVIOUS
  <2> QED BY <1>4, <2>1
<1>8. SumFunctionOnSet(Sizes(s), 2..n + 1) \in Nat BY <1>1, <1>7, SumType
<1> QED BY <1>3, <1>4, <1>5, <1>6, <1>8

\* As long as nothing failed a frame that is admitted goes to the end of the buffer.
LEMMA Admitted ==
  ASSUME TypeInv, NEW f \in Frames, Receive(f)
  PROVE  /\ failed = "no" /\ ~closed /\ stage' = stage /\ stage \in {"writing", "reading"}
         /\ failed' = "no" => /\ f \in Packets /\ queue' = Append(queue, f)
                              /\ sent' = Append(sent, f) /\ closed' = (f.kind = "complete")
                              /\ UNCHANGED packetVars
<1>1. failed = "no" /\ ~closed BY DEF TypeInv, Arrival, Receive
<1>2. ASSUME NEW why, why # "no", Fail(why) PROVE failed' # "no" BY <1>1, <1>2 DEF Fail
<1>3. Rejection(f) # "no" BY DEF Rejection
<1>4. \/ failed' # "no"
      \/ f \in Packets /\ queue' = Append(queue, f) /\ closed' = (f.kind = "complete")
  <2>1. \/ Fail("frames") \/ Fail("bytes") \/ Fail("invalid") \/ Fail(Rejection(f))
        \/ f \in Packets /\ queue' = Append(queue, f) /\ closed' = (f.kind = "complete")
    BY DEF Receive, Admit
  <2> QED BY <1>2, <1>3, <2>1
<1> QED BY <1>1, <1>4 DEF Receive

\* A frame that arrives keeps the stream in order.
LEMMA ReceiveReading ==
  ASSUME TypeInv, Reading, NEW f \in Frames, Receive(f)
  PROVE  Reading'
<1> SUFFICES ASSUME failed' = "no" PROVE InOrder' /\ Progress' BY DEF Reading
<1> DEFINE n == Len(sent)
           k == Len(queue)
<1>1. /\ failed = "no" /\ ~closed /\ f \in Packets /\ queue' = Append(queue, f)
      /\ sent' = Append(sent, f) /\ closed' = (f.kind = "complete")
      /\ UNCHANGED <<info, count, total, short>>
  BY Admitted
<1>2. InOrder /\ Progress BY <1>1, Admitted DEF Reading
<1>3. /\ queue \in Seq(Packets) /\ sent \in Seq(Frames) /\ count \in Nat
      /\ n \in Nat /\ k \in Nat /\ k <= n
  BY TypeParts DEF Buffer, Rest, Counted
<1>4. /\ Len(sent') = n + 1 /\ sent'[n + 1] = f /\ \A i \in 1..n : sent'[i] = sent[i]
      /\ Len(queue') = k + 1 /\ queue'[k + 1] = f /\ \A i \in 1..k : queue'[i] = queue[i]
      /\ sent' \in Seq(Frames)
  BY <1>1, <1>3
<1>5. Taken = n - k /\ Taken' = n - k BY <1>3, <1>4 DEF Taken
<1> HIDE DEF n, k
<1>6. count = 0 \/ count + 1 <= n BY <1>2, <1>3, <1>5 DEF Progress
<1>7. InOrder'
  <2>1. \A i \in 1..n + 1 : i = n + 1 \/ i \in 1..n BY <1>3
  <2>2. \A i \in 1..n + 1 : sent'[i] \in Packets BY <1>1, <1>2, <1>4, <2>1 DEF InOrder, n
  <2>3. \A i \in 1..n + 1 : sent'[i].kind = "complete" => i = n + 1 /\ closed'
    BY <1>1, <1>2, <1>4, <2>1 DEF InOrder, n
  <2>4. ASSUME NEW i \in 1..k + 1 PROVE queue'[i] = sent'[(n - k) + i]
    <3>1. CASE i = k + 1
      <4>1. (n - k) + i = n + 1 BY <1>3, <3>1
      <4> QED BY <1>4, <3>1, <4>1
    <3>2. CASE i \in 1..k
      <4>1. (n - k) + i \in 1..n BY <1>3, <3>2
      <4>2. queue[i] = sent[(n - k) + i] BY <1>2, <1>5, <3>2 DEF InOrder, k
      <4> QED BY <1>4, <3>2, <4>1, <4>2
    <3> QED BY <1>3, <3>1, <3>2
  <2> QED BY <1>4, <1>5, <2>2, <2>3, <2>4 DEF InOrder
<1>8. Progress'
  <2>1. info = 0 => Taken' = 0 /\ count = 0 /\ ~short BY <1>2, <1>5 DEF Progress
  <2>2. info # 0 => Taken' = count + 1 /\ sent'[1].kind = "info" /\ sent'[1].size = info
    <3>1. info # 0 => 1 \in 1..n BY <1>2, <1>3, <1>5 DEF Progress
    <3> QED BY <1>2, <1>4, <1>5, <3>1 DEF Progress
  <2>3. ASSUME NEW i \in 1..count
        PROVE /\ sent'[i + 1].kind = "chunk" /\ sent'[i + 1].n = i - 1
              /\ i < count \/ ~short => sent'[i + 1].size = ChunkSize
    <3>1. i + 1 \in 1..n BY <1>3, <1>6
    <3> QED BY <1>2, <1>4, <3>1 DEF Progress
  <2>4. total = SumFunctionOnSet(Sizes(sent'), 2..count + 1)
    <3>1. SumFunctionOnSet(Sizes(sent'), 2..count + 1) = SumFunctionOnSet(Sizes(sent), 2..count + 1)
      <4>1. count + 1 <= Len(sent) \/ count = 0 BY <1>6 DEF n
      <4>2. Len(sent) <= Len(sent') /\ \A i \in 1..Len(sent) : sent'[i] = sent[i]
        BY <1>3, <1>4 DEF n
      <4> QED BY <1>3, <1>4, <4>1, <4>2, SizesKept
    <3> QED BY <1>2, <3>1 DEF Progress
  <2> QED BY <1>1, <2>1, <2>2, <2>3, <2>4 DEF Progress
<1> QED BY <1>7, <1>8

\* Steps that leave the packets and the frames alone.
LEMMA StillReading ==
  ASSUME Reading, UNCHANGED <<queue, packetVars, sent>>, closed' = closed \/ failed' # "no",
         stage' # "done" /\ failed' = "no" => stage # "done" /\ failed = "no"
  PROVE  Reading'
<1> SUFFICES ASSUME stage' # "done", failed' = "no" PROVE InOrder' /\ Progress' BY DEF Reading
<1>1. InOrder /\ Progress BY DEF Reading
<1>2. Taken' = Taken BY DEF Taken
<1> QED BY <1>1, <1>2 DEF InOrder, Progress

\* The packet taken is the one that follows those taken before.
LEMMA TakenNext ==
  ASSUME TypeInv, Verdict, Reading, stage = "reading", queue # <<>>
  PROVE  /\ failed = "no" /\ InOrder /\ Progress /\ outcome = "none"
         /\ Head(queue) \in Packets /\ Head(queue) = sent[Taken + 1]
         /\ Taken \in Nat /\ Taken + 1 <= Len(sent) /\ sent \in Seq(Frames)
         /\ Head(queue).kind = "complete" => Taken + 1 = Len(sent)
<1>1. /\ queue \in Seq(Packets) /\ sent \in Seq(Frames) /\ Len(queue) <= Len(sent)
      /\ failed = "no"
  BY TypeParts DEF Buffer, Counted
<1>2. Len(queue) \in Nat \ {0} /\ Len(sent) \in Nat /\ Head(queue) = queue[1]
      /\ Head(queue) \in Packets
  BY <1>1
<1>3. InOrder /\ Progress /\ outcome = "none" BY <1>1 DEF Reading, Verdict
<1>4. 1 \in 1..Len(queue) /\ Taken \in Nat /\ Taken + 1 \in 1..Len(sent)
      /\ Taken + 1 <= Len(sent)
  BY <1>1, <1>2 DEF Taken
<1>5. queue[1] = sent[Taken + 1] BY <1>3, <1>4 DEF InOrder
<1>6. sent[Taken + 1].kind = "complete" => Taken + 1 = Len(sent) BY <1>3, <1>4 DEF InOrder
<1> QED BY <1>1, <1>2, <1>3, <1>4, <1>5, <1>6

\* Taking a packet out leaves the rest of the buffer in order.
LEMMA OrderTaken ==
  ASSUME TypeInv, InOrder, queue # <<>>, queue' = Tail(queue), UNCHANGED <<sent, closed>>
  PROVE  InOrder' /\ Taken' = Taken + 1
<1>1. queue \in Seq(Packets) /\ sent \in Seq(Frames) BY TypeParts DEF Buffer, Counted
<1>2. /\ Len(queue) \in Nat \ {0} /\ Len(sent) \in Nat /\ Len(queue') = Len(queue) - 1
      /\ \A i \in 1..Len(queue) - 1 : queue'[i] = queue[i + 1]
  BY <1>1
<1>3. Taken' = Taken + 1 /\ Taken \in Int BY <1>2 DEF Taken
<1>4. ASSUME NEW i \in 1..Len(queue') PROVE queue'[i] = sent'[Taken' + i]
  <2>1. i + 1 \in 1..Len(queue) /\ i \in 1..Len(queue) - 1 /\ Taken' + i = Taken + (i + 1)
    BY <1>2, <1>3
  <2> QED BY <1>2, <2>1 DEF InOrder
<1> QED BY <1>3, <1>4 DEF InOrder

\* Taking the announcement keeps the account of what was taken.
LEMMA InfoReading ==
  ASSUME TypeInv, Verdict, Reading, stage = "reading", queue # <<>>, UNCHANGED sent,
         TakeInfo(Head(queue))
  PROVE  Reading'
<1> DEFINE f == Head(queue)
<1>1. /\ Progress /\ InOrder /\ f \in Packets /\ f = sent[Taken + 1] /\ failed = "no"
  BY TakenNext
<1>2. /\ f.kind = "info" /\ info = 0 /\ queue' = Tail(queue) /\ info' = f.size
      /\ UNCHANGED <<closed, count, total, short>>
  BY DEF TakeInfo, NextInfo, Pop
<1> HIDE DEF f
<1>3. InOrder' /\ Taken' = Taken + 1 BY <1>1, <1>2, OrderTaken
<1>4. Taken = 0 /\ count = 0 /\ info' # 0 BY <1>1, <1>2, FrameType, Bounds DEF Progress
<1>5. sent[1].kind = "info" /\ sent[1].size = info' BY <1>1, <1>2, <1>4
<1>6. Progress' BY <1>1, <1>2, <1>3, <1>4, <1>5 DEF Progress
<1> QED BY <1>3, <1>6 DEF Reading

\* Taking a chunk keeps it.
LEMMA ChunkReading ==
  ASSUME TypeInv, Verdict, Reading, stage = "reading", queue # <<>>, UNCHANGED sent,
         TakeChunk(Head(queue))
  PROVE  Reading'
<1> DEFINE f == Head(queue)
<1>1. /\ Progress /\ InOrder /\ f \in Packets /\ f = sent[Taken + 1] /\ failed = "no"
      /\ Taken + 1 <= Len(sent) /\ sent \in Seq(Frames) /\ Len(sent) \in Nat
  BY TakenNext
<1>2. /\ f.kind = "chunk" /\ info # 0 /\ ~short /\ f.n = count /\ f.size <= ChunkSize
      /\ queue' = Tail(queue) /\ count' = count + 1 /\ total' = total + f.size
      /\ short' = (f.size < ChunkSize) /\ UNCHANGED <<closed, info>>
  BY DEF TakeChunk, NextChunk, Pop
<1>3. f.size \in Nat /\ ChunkSize \in Nat /\ count \in Nat
  BY <1>1, FrameType, Bounds, TypeParts DEF Rest
<1> HIDE DEF f
<1>4. InOrder' /\ Taken' = Taken + 1 BY <1>1, <1>2, OrderTaken
<1>5. Taken = count + 1 /\ sent[1].kind = "info" /\ sent[1].size = info
  BY <1>1, <1>2 DEF Progress
<1>6. count + 2 <= Len(sent) /\ f = sent[count + 2] BY <1>1, <1>3, <1>5
<1>7. ASSUME NEW i \in 1..count + 1
      PROVE  /\ sent[i + 1].kind = "chunk" /\ sent[i + 1].n = i - 1
             /\ i < count + 1 \/ ~short' => sent[i + 1].size = ChunkSize
  <2>1. CASE i = count + 1
    <3>1. i + 1 = count + 2 /\ i - 1 = count /\ ~(i < count + 1) BY <1>3, <2>1
    <3>2. ~short' => f.size = ChunkSize
      <4>1. ~short' => ~(f.size < ChunkSize) BY <1>2
      <4>2. f.size <= ChunkSize BY <1>2
      <4> QED BY <1>3, <4>1, <4>2
    <3>3. sent[i + 1] = f BY <1>6, <3>1
    <3> QED BY <1>2, <3>1, <3>2, <3>3
  <2>2. CASE i \in 1..count BY <1>1, <1>2, <2>2 DEF Progress
  <2> QED BY <1>3, <2>1, <2>2
<1>8. total' = SumFunctionOnSet(Sizes(sent), 2..count + 2)
  BY <1>1, <1>2, <1>3, <1>6, SizesNext DEF Progress
<1>9. (count + 1) + 1 = count + 2 /\ Taken' = (count + 1) + 1 BY <1>3, <1>4, <1>5
<1>10. Progress' BY <1>2, <1>5, <1>7, <1>8, <1>9 DEF Progress
<1> QED BY <1>4, <1>10 DEF Reading

\* What is published is the whole answer.
LEMMA PublishWhole ==
  ASSUME TypeInv, Verdict, Reading, stage = "reading", queue # <<>>, UNCHANGED <<sent, converted>>,
         Publish(Head(queue))
  PROVE  WholeFile'
<1> DEFINE f == Head(queue)
<1>1. /\ Progress /\ f \in Packets /\ f = sent[Taken + 1] /\ sent \in Seq(Frames)
      /\ f.kind = "complete" => Taken + 1 = Len(sent)
  BY TakenNext
<1>2. /\ f.kind = "complete" /\ info # 0 /\ (converted \/ info = total)
      /\ UNCHANGED <<count, total>>
  BY DEF Publish, NextComplete
<1>3. total <= Limit /\ count \in Nat BY TypeParts, Bounds DEF Rest
<1> HIDE DEF f
<1>4. Taken = count + 1 /\ sent[1].kind = "info" /\ sent[1].size = info
  BY <1>1, <1>2 DEF Progress
<1>5. Len(sent) = count + 2 /\ Last(sent).kind = "complete" BY <1>1, <1>2, <1>3, <1>4 DEF Last
<1>6. \A i \in 1..count : /\ sent[i + 1].kind = "chunk" /\ sent[i + 1].n = i - 1
                          /\ i < count => sent[i + 1].size = ChunkSize
  BY <1>1 DEF Progress
<1>7. SumFunctionOnSet(Sizes(sent), 2..count + 1) = total BY <1>1 DEF Progress
<1>8. SumFunctionOnSet([i \in DOMAIN sent |-> sent[i].size], 2..count + 1) = total
  BY <1>7 DEF Sizes
<1> QED BY <1>2, <1>3, <1>4, <1>5, <1>6, <1>8 DEF WholeFile

\* Every step keeps the invariant.
LEMMA ReadStep == ReadInv /\ [Next]_vars => ReadInv'
<1> SUFFICES ASSUME TypeInv, TypeInv', Unopened, Verdict, Reading, WholeFile, [Next]_vars
             PROVE  Unopened' /\ Verdict' /\ Reading' /\ WholeFile'
  BY TypeStep DEF ReadInv
\* Steps that leave the packets, the frames and the verdict alone.
<1>a. ASSUME UNCHANGED <<closed, failed, queue, packetVars, outcome, sent, converted>>,
             stage' # "done" => stage # "done",
             stage' \in {"idle", "queued", "locking"} => stage \in {"idle", "queued", "locking"}
      PROVE  Unopened' /\ Verdict' /\ Reading' /\ WholeFile'
  <2>1. Reading' BY <1>a, StillReading
  <2>2. WholeFile' BY <1>a DEF WholeFile
  <2>3. Unopened' /\ Verdict' BY <1>a DEF Unopened, Verdict
  <2> QED BY <2>1, <2>2, <2>3
\* The ends that do not publish.
<1>b. ASSUME UNCHANGED <<failed, packetVars, sent, converted>>, stage' = "done",
             outcome' \in {"failed", failed} \ {"no", "frames", "ok"}
      PROVE  Unopened' /\ Verdict' /\ Reading' /\ WholeFile'
  BY <1>b DEF Unopened, Verdict, Reading, WholeFile
<1>c. ASSUME Failed, UNCHANGED <<sent, converted>>
      PROVE  Unopened' /\ Verdict' /\ Reading' /\ WholeFile'
  <2>1. /\ UNCHANGED <<failed, packetVars, sent, converted>> /\ stage' = "done"
        /\ outcome' = "failed"
    BY <1>c DEF Failed, End
  <2> QED BY <1>b, <2>1
<1>d. ASSUME FailOpen, UNCHANGED <<packetVars, outcome, sent, converted, stage>>
      PROVE  Unopened' /\ Verdict' /\ Reading' /\ WholeFile'
  <2>1. \/ UNCHANGED <<closed, failed, queue>>
        \/ failed' = "lost"
    BY <1>d DEF FailOpen, Fail
  <2>2. CASE UNCHANGED <<closed, failed, queue>> BY <1>a, <1>d, <2>2
  <2>3. CASE failed' = "lost"
    BY <1>d, <2>3 DEF Unopened, Verdict, Reading, WholeFile
  <2> QED BY <2>1, <2>2, <2>3
<1>1. ASSUME NEW f \in Frames, Receive(f)
      PROVE  Unopened' /\ Verdict' /\ Reading' /\ WholeFile'
  <2>1. /\ stage' = stage /\ stage \in {"writing", "reading"} /\ failed = "no"
        /\ outcome' = outcome /\ outcome = "none" /\ sent' = Append(sent, f)
    BY <1>1, Admitted DEF Receive, Verdict
  <2>2. Reading' BY <1>1, ReceiveReading
  <2>3. Unopened' /\ WholeFile' BY <2>1 DEF Unopened, WholeFile
  <2>4. frames = Len(sent) /\ sent \in Seq(Frames) /\ frames \in Nat /\ ~closed /\ frames <= MaxFrames
    BY <1>1 , TypeParts DEF Counted, Buffer, Receive
  <2>5. failed' = "unsupported" => Len(sent') = 1 /\ sent'[1].kind = "unknown"
    <3>1. failed' = "unsupported" => f.kind = "unknown" /\ frames = 0
      BY <1>1, <2>1 DEF Receive, Admit, Fail, Rejection
    <3> QED BY <2>1, <2>4, <3>1
  <2>6. failed' = "frames" => Len(sent') = MaxFrames + 1
    <3>1. failed' = "frames" => frames + 1 > MaxFrames
      BY <1>1, <2>1 DEF Receive, Admit, Fail, Rejection
    <3> QED BY <2>1, <2>4, <3>1, Bounds
  <2>7. Verdict' BY <2>1, <2>5, <2>6 DEF Verdict
  <2> QED BY <2>2, <2>3, <2>7
<1>2. CASE Connect \/ Withdrawn \/ Revoke
  BY <1>2, <1>a DEF Connect, Withdrawn, Revoke
<1>3. CASE SocketLost \/ Detached BY <1>3, <1>d DEF SocketLost, Detached
<1>4. CASE Request \/ Begin \/ Write \/ Written \/ GiveUp
  BY <1>4, <1>a, <1>c DEF Request, Begin, Write, Written, GiveUp
<1>5. CASE TakeError
  BY <1>5, <1>b DEF TakeError, End
<1>6. CASE TakePacket
  <2> DEFINE f == Head(queue)
  <2>1. stage = "reading" /\ queue # <<>> /\ UNCHANGED <<sent, converted>>
        /\ (TakeInfo(f) \/ TakeChunk(f) \/ Publish(f) \/ Refuse(f))
    BY <1>6 DEF TakePacket
  <2>2. failed = "no" /\ outcome = "none" BY <2>1, TakenNext
  <2> HIDE DEF f
  <2>3. CASE TakeInfo(f) \/ TakeChunk(f)
    <3>1. Reading' BY <2>1, <2>3, InfoReading, ChunkReading DEF f
    <3>2. UNCHANGED <<stage, outcome, failed>> BY <2>3 DEF TakeInfo, TakeChunk
    <3>3. Unopened' /\ Verdict' /\ WholeFile' BY <2>1, <2>2, <3>2 DEF Unopened, Verdict, WholeFile
    <3> QED BY <3>1, <3>3
  <2>4. CASE Publish(f)
    <3>1. WholeFile' BY <2>1, <2>4, PublishWhole DEF f
    <3>2. stage' = "done" /\ outcome' = "ok" /\ failed' = failed BY <2>4 DEF Publish, End
    <3>3. Unopened' /\ Verdict' /\ Reading' BY <2>2, <3>2 DEF Unopened, Verdict, Reading
    <3> QED BY <3>1, <3>3
  <2>5. CASE Refuse(f) BY <1>c, <2>1, <2>5 DEF Refuse
  <2> QED BY <2>1, <2>3, <2>4, <2>5
<1>7. CASE UNCHANGED vars BY <1>7, <1>a DEF vars
<1> QED BY <1>1, <1>2, <1>3, <1>4, <1>5, <1>6, <1>7 DEF Next

\* It holds at the start.
LEMMA ReadInit == Init => ReadInv
<1> SUFFICES ASSUME Init PROVE Unopened /\ Verdict /\ Reading /\ WholeFile
  BY TypeInit DEF ReadInv
<1>1. /\ sent = <<>> /\ queue = <<>> /\ info = 0 /\ count = 0 /\ total = 0 /\ short = FALSE
      /\ stage = "idle" /\ outcome = "none" /\ failed = "no"
  BY DEF Init
<1>2. Len(sent) = 0 /\ Len(queue) = 0 /\ 1..0 = {} /\ 2..count + 1 = {} BY <1>1
<1>3. Unopened /\ Verdict /\ WholeFile BY <1>1 DEF Unopened, Verdict, WholeFile
<1>4. InOrder /\ Taken = 0 BY <1>2 DEF InOrder, Taken
<1>5. total = SumFunctionOnSet(Sizes(sent), 2..count + 1) BY <1>1, <1>2, SumEmpty
<1>6. Progress BY <1>1, <1>2, <1>4, <1>5 DEF Progress
<1> QED BY <1>3, <1>4, <1>6 DEF Reading

\* It holds always.
LEMMA ReadAlways == Spec => []ReadInv
BY ReadInit, ReadStep, PTL DEF Spec

\* WholeFile: what is published is the whole answer of the peer, in order, without a
\* gap, as long as it was announced and within the allowance.
THEOREM PublishedWhole == Spec => []WholeFile
<1>1. ReadInv => WholeFile BY DEF ReadInv
<1> QED BY <1>1, ReadAlways, PTL

\* FallbackOnlyUntouched: another channel is tried only if the one frame that came
\* says that the peer knows no such action.
THEOREM FallbackSafe == Spec => []FallbackOnlyUntouched
<1>1. ReadInv => FallbackOnlyUntouched BY DEF ReadInv, Verdict, FallbackOnlyUntouched
<1> QED BY <1>1, ReadAlways, PTL

\* A lapsed download stays lapsed: access does not return, a new connection has a
\* greater number than the one asked for, and the last check precedes publication.
LEMMA LapseStep == TypeInv /\ Lapsed /\ [Next]_vars => Lapsed'
<1> SUFFICES ASSUME TypeInv, Lapsed, [Next]_vars PROVE Lapsed' OBVIOUS
<1>0. /\ asked \in 0..epoch /\ epoch \in Nat
      /\ stage # "idle" /\ outcome # "ok" /\ ~(allowed /\ link = "up" /\ epoch = asked)
  BY Bounds DEF TypeInv, TypeOK, Lapsed
<1>1. ASSUME NEW f \in Frames, Receive(f) PROVE Lapsed' BY <1>0, <1>1 DEF Receive, Lapsed
<1>2. CASE Connect
  <2>1. /\ epoch' = epoch + 1 /\ asked' = asked /\ stage' = stage /\ outcome' = outcome
    BY <1>2 DEF Connect
  <2>2. epoch' # asked' BY <1>0, <2>1
  <2> QED BY <1>0, <2>1, <2>2 DEF Lapsed
<1>3. CASE SocketLost \/ Withdrawn \/ Detached \/ Revoke
  BY <1>0, <1>3 DEF SocketLost, Withdrawn, Detached, Revoke, Lapsed
<1>4. CASE Request BY <1>0, <1>4 DEF Request
<1>5. CASE Begin \/ Write \/ Written \/ GiveUp
  BY <1>0, <1>5 DEF Begin, Write, Written, GiveUp, Failed, End, Lapsed
<1>6. CASE TakeError BY <1>0, <1>6 DEF TakeError, End, Lapsed
<1>7. CASE TakePacket
  BY <1>0, <1>7 DEF TakePacket, TakeInfo, TakeChunk, Publish, Refuse, Failed, End, Fresh, Lapsed
<1>8. CASE UNCHANGED vars BY <1>8 DEF vars, Lapsed
<1> QED BY <1>1, <1>2, <1>3, <1>4, <1>5, <1>6, <1>7, <1>8 DEF Next

\* LapsedForGood: once the access or the connection of a download is gone, nothing of
\* it is ever published, whatever is buffered and however often the peer reconnects.
THEOREM NeverAfterLapse == Spec => LapsedForGood
<1>1. TypeInv /\ Lapsed /\ [Next]_vars => Lapsed' BY LapseStep
<1>2. Lapsed => outcome # "ok" BY DEF Lapsed
<1> QED BY <1>1, <1>2, TypeAlways, PTL DEF Spec, LapsedForGood

-----------------------------------------------------------------------------
(* The number of frames *)

\* Division rounded up covers what is divided.
LEMMA RoundedUp ==
  ASSUME NEW a \in Nat, NEW b \in Nat \ {0}
  PROVE  b * ((a + b - 1) \div b) >= a
OBVIOUS

\* The chunks of a file within the allowance fit in the frames that are allowed: with
\* MaxFrames chunks but two the allowance is used up.
LEMMA FramesSuffice == ChunkSize * (MaxFrames - 2) >= Limit
<1> DEFINE d == (Limit + ChunkSize - 1) \div ChunkSize
<1>1. ChunkSize * d >= Limit BY Bounds, RoundedUp
<1>2. MaxFrames - 2 = d
  <2>1. d \in Int /\ MaxFrames = d + 2 BY Bounds DEF MaxFrames
  <2> HIDE DEF d
  <2> QED BY <2>1
<1> QED BY <1>1, <1>2

\* The sizes of the chunks of an answer.
ChunkSizes(s) == [i \in DOMAIN s |-> IF s[i].kind = "chunk" THEN s[i].size ELSE 0]

\* An honest peer sends no more frames than are allowed.
LEMMA HonestFits ==
  ASSUME NEW s \in Seq(Frames), Honest(s)
  PROVE  Len(s) # MaxFrames + 1
<1> SUFFICES ASSUME Len(s) = MaxFrames + 1 PROVE FALSE OBVIOUS
<1> DEFINE g == ChunkSizes(s)
           n == MaxFrames - 2
           P == {k \in 0..n : SumFunctionOnSet(g, 1..k + 1) = ChunkSize * k}
<1>1. /\ Limit \in Nat \ {0} /\ ChunkSize \in Nat \ {0} /\ n \in Nat /\ MaxFrames = n + 2
      /\ Len(s) = n + 3
  BY Bounds
<1>2. n >= 1
  <2>1. n = 0 => ChunkSize * n = 0 BY <1>1
  <2> QED BY <1>1, <2>1, FramesSuffice
<1> HIDE DEF n
<1>3. \A i \in 1..n + 3 : s[i] \in Frames BY <1>1
<1>4. \A i \in 1..n + 3 : g[i] = IF s[i].kind = "chunk" THEN s[i].size ELSE 0
  BY <1>1 DEF ChunkSizes
<1>5. \A i \in 1..n + 3 : g[i] \in Nat BY <1>3, <1>4, FrameType
<1>6. s[1].kind = "info" /\ \A i \in 2..n + 2 : s[i].kind = "chunk"
  <2>1. s # <<>> BY <1>1
  <2>2. \A i \in 2..n + 2 : i \in 2..Len(s) /\ i # Len(s) BY <1>1
  <2> QED BY <2>1, <2>2 DEF Honest
<1>7. \A i \in 2..n + 1 : s[i].size = ChunkSize
  <2>1. \A i \in 2..n + 1 : i \in 2..Len(s) - 1 /\ i + 1 \in 2..n + 2 BY <1>1
  <2> QED BY <1>6, <2>1 DEF Honest
<1>8. g[1] = 0 /\ (\A i \in 2..n + 1 : g[i] = ChunkSize) /\ g[n + 2] \in Nat \ {0}
  <2>1. 1 \in 1..n + 3 /\ n + 2 \in 1..n + 3 /\ n + 2 \in 2..n + 2 BY <1>1
  <2>2. \A i \in 2..n + 1 : i \in 1..n + 3 /\ i \in 2..n + 2 BY <1>1
  <2>3. s[n + 2].size \in Nat \ {0} BY <1>3, <1>6, <2>1, FrameType DEF Weight
  <2> QED BY <1>4, <1>6, <1>7, <2>1, <2>2, <2>3
<1> HIDE DEF g
<1>9. ASSUME NEW k \in 0..n + 2
      PROVE  /\ SumFunctionOnSet(g, 1..k + 1) = SumFunctionOnSet(g, 1..k) + g[k + 1]
             /\ SumFunctionOnSet(g, 1..k) \in Nat
  <2>1. \A i \in 1..k + 1 : g[i] \in Nat
    <3>1. \A i \in 1..k + 1 : i \in 1..n + 3 BY <1>1
    <3> QED BY <1>5, <3>1
  <2>2. \A i \in 1..k : g[i] \in Nat
    <3>1. \A i \in 1..k : i \in 1..n + 3 BY <1>1
    <3> QED BY <1>5, <3>1
  <2>3. IsFiniteSet(1..k) BY <1>1, FS_Interval
  <2>4. k \in Nat BY <1>1
  <2> QED BY <2>1, <2>2, <2>3, <2>4, QueueSumAppend, SumType
<1>10. P = 0..n
  <2>1. 0 \in P
    <3>1. 0 \in 0..n + 2 /\ 0 + 1 = 1 /\ 1..0 = {} /\ 0 \in 0..n BY <1>1
    <3>2. SumFunctionOnSet(g, 1..0) = 0 BY <3>1, SumEmpty
    <3>3. SumFunctionOnSet(g, 1..0 + 1) = SumFunctionOnSet(g, 1..0) + g[0 + 1] BY <1>9, <3>1
    <3>4. SumFunctionOnSet(g, 1..0 + 1) = 0 BY <1>8, <3>1, <3>2, <3>3
    <3>5. ChunkSize * 0 = 0 BY <1>1
    <3> QED BY <3>1, <3>4, <3>5
  <2>2. ASSUME NEW k \in 1..n, k - 1 \in P PROVE k \in P
    <3>1. k \in 0..n + 2 /\ k + 1 \in 2..n + 1 /\ (k - 1) + 1 = k /\ k \in 0..n BY <1>1
    <3>2. SumFunctionOnSet(g, 1..k) = ChunkSize * (k - 1) BY <2>2, <3>1
    <3>3. SumFunctionOnSet(g, 1..k + 1) = ChunkSize * (k - 1) + ChunkSize
      BY <1>8, <1>9, <3>1, <3>2
    <3>4. ChunkSize * (k - 1) + ChunkSize = ChunkSize * k BY <1>1
    <3> QED BY <3>1, <3>3, <3>4
  <2>3. P \in SUBSET (0..n) OBVIOUS
  <2> HIDE DEF P
  <2> QED BY <1>1, <2>1, <2>2, <2>3, UpTo
<1>11. SumFunctionOnSet(g, 1..n + 1) >= Limit
  <2>1. n \in 0..n BY <1>1
  <2>2. n \in P BY <1>10, <2>1
  <2> QED BY <2>2, FramesSuffice DEF n
<1>12. SumFunctionOnSet(g, 1..n + 3) <= Limit
  <2>1. DOMAIN s = 1..n + 3 /\ DOMAIN g = 1..n + 3 BY <1>1 DEF g, ChunkSizes
  <2> QED BY <2>1 DEF Honest, SumFunction, g, ChunkSizes
<1>13. /\ SumFunctionOnSet(g, 1..n + 2) = SumFunctionOnSet(g, 1..n + 1) + g[n + 2]
       /\ SumFunctionOnSet(g, 1..n + 3) = SumFunctionOnSet(g, 1..n + 2) + g[n + 3]
       /\ SumFunctionOnSet(g, 1..n + 1) \in Nat /\ g[n + 3] \in Nat
  <2>1. n + 1 \in 0..n + 2 /\ n + 2 \in 0..n + 2 /\ (n + 1) + 1 = n + 2 /\ (n + 2) + 1 = n + 3
        /\ n + 3 \in 1..n + 3
    BY <1>1
  <2> QED BY <1>5, <1>9, <2>1
<1> QED BY <1>1, <1>8, <1>11, <1>12, <1>13

\* HonestNotRefused: a peer that follows the protocol is never refused for the number
\* of its frames, because the limit is reached with one frame more than it can need.
THEOREM HonestServed == Spec => []HonestNotRefused
<1>1. ReadInv => HonestNotRefused
  <2> SUFFICES ASSUME TypeInv, Verdict, failed = "frames" PROVE ~Honest(sent)
    BY DEF ReadInv, HonestNotRefused
  <2>1. Len(sent) = MaxFrames + 1 /\ sent \in Seq(Frames)
    BY TypeParts DEF Verdict, Counted
  <2> QED BY <2>1, HonestFits
<1> QED BY <1>1, ReadAlways, PTL
===============================================================================
