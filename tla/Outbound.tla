------------------------------- MODULE Outbound -------------------------------
(***************************************************************************)
(* Deliveries of several requests: a text in parts, media with a caption,  *)
(* a file with its text, a bundle (adapter.py, outbound.py and the sending *)
(* tools).  Media are staged first; then each request passes the send      *)
(* gate, is checked, waits for the transport's lock and is checked again   *)
(* before it is written.  What the forms of reports say is the same: is it *)
(* a success, how many requests are known to be delivered, and is the      *)
(* outcome of one unknown.                                                 *)
(***************************************************************************)
EXTENDS StreamUpload, Queues

CONSTANTS
  Parts,      \* requests of each delivery; deliveries are numbered like uploads
  MediaAt,    \* the request that carries the media, 0 if none does
  Files,      \* deliveries of a file, which may be too big for one request
  Borrowed,   \* deliveries of media received in QQ (media:... references)
  Bundles,    \* deliveries by send_bundle()
  Hosted,     \* deliveries in a task of the host, which may be cancelled
  Nobody

Deliveries == Uploads

ASSUME OutboundAssumption ==
  /\ Parts \in [Deliveries -> Nat \ {0}]
  /\ \A d \in Deliveries : MediaAt[d] \in 0..Parts[d]
  /\ Files \cup Borrowed \subseteq {d \in Deliveries : MediaAt[d] # 0}
  /\ Bundles \cup Hosted \subseteq Deliveries
  /\ Nobody \notin Deliveries

VARIABLES
  pc, at,     \* of each delivery, and its current request
  sentOn,     \* connection on which the current call began
  gate,       \* _send_gate
  revoked,    \* deliveries whose borrowed media was recalled or expired
  wire,       \* requests written that QQ has neither performed nor dropped
  log,        \* requests in the order QQ performed them
  report      \* what the caller was told

sendVars == <<pc, at, sentOn, gate, revoked, wire, log, report>>
vars == <<linkVars, server, uploadVars, sendVars>>

Untold == [success |-> FALSE, delivered |-> 0, uncertain |-> TRUE, told |-> FALSE]

Init ==
  /\ UploadInit
  /\ pc = [d \in Deliveries |-> "idle"] /\ at = [d \in Deliveries |-> 1]
  /\ sentOn = [d \in Deliveries |-> 0]
  /\ gate = Nobody
  /\ revoked = {}
  /\ wire = {} /\ log = <<>>
  /\ report = [d \in Deliveries |-> Untold]

-----------------------------------------------------------------------------
Move(d, to) == pc' = [pc EXCEPT ![d] = to]
\* Mutant: the gate is never left.
MutRelease(d) == gate' = gate
Release(d) == gate' = IF gate = d THEN Nobody ELSE gate
Tell(d, success, delivered, uncertain) ==
  report' = [report EXCEPT ![d] = [success |-> success, delivered |-> delivered,
                                   uncertain |-> uncertain, told |-> TRUE]]

\* Mutant: the request that failed is subtracted twice.
MutFail(d, uncertain) ==
  /\ Move(d, "over") /\ Release(d)
  /\ Tell(d, FALSE, at[d] - 2, uncertain)
  /\ UNCHANGED <<at, sentOn>>

\* The exceptions of a request all end the delivery; only DeliveryUncertain leaves
\* its outcome open.
Fail(d, uncertain) ==
  /\ Move(d, "over") /\ Release(d)
  /\ Tell(d, FALSE, at[d] - 1, uncertain)
  /\ UNCHANGED <<at, sentOn>>

Proceed(d, to) == Move(d, to) /\ UNCHANGED <<at, sentOn, gate, report>>

\* validate_outbound_media() on the request n of the delivery.
Valid(d, n) == MediaAt[d] = n => /\ d \in Borrowed => d \notin revoked
                                 /\ up[d].pc = "done" => Usable(d)

\* The policy, the limits and, in groups, the freshness of the turn.
Refused(d) ==
  /\ pc[d] \in {"idle", "staged", "send"} /\ (pc[d] = "send" => gate = Nobody)
  /\ Fail(d, FALSE)
  /\ UNCHANGED <<linkVars, server, uploadVars, revoked, wire, log>>

\* outbound_reference(): borrowed media must be accessible, before and after they are
\* read and staged.
Available(d) == d \notin Borrowed \cap revoked

\* prepare_media(): borrowed media are read; a big file is uploaded, any other goes
\* into the request itself.
Prepare(d) ==
  /\ pc[d] = "idle"
  /\ \/ /\ ~Available(d)
        /\ Fail(d, FALSE)
        /\ UNCHANGED up
     \/ /\ Available(d)
        /\ Proceed(d, "staged")
        /\ UNCHANGED up
     \/ /\ Available(d) /\ d \in Files
        /\ Upload(d)
        /\ Proceed(d, "upload")
  /\ UNCHANGED <<linkVars, server, version, staged, lapsed, revoked, wire, log>>

Uploaded(d) ==
  /\ pc[d] = "upload"
  /\ \/ /\ up[d].pc = "done" /\ Available(d)
        /\ Proceed(d, "staged")
     \/ /\ up[d].pc = "failed" \/ (up[d].pc = "done" /\ ~Available(d))
        /\ Fail(d, FALSE)
  /\ UNCHANGED <<linkVars, server, uploadVars, revoked, wire, log>>

\* A bundle checks its references once more, together, before the first request.
Preflight(d) ==
  /\ pc[d] = "staged"
  /\ IF d \in Bundles /\ ~Valid(d, MediaAt[d]) THEN Fail(d, FALSE) ELSE Proceed(d, "send")
  /\ UNCHANGED <<linkVars, server, uploadVars, revoked, wire, log>>

\* Under the gate the media are validated; then the call begins, on the connection of
\* the moment, and waits for the transport's lock.
EnterGate(d) ==
  /\ pc[d] = "send" /\ gate = Nobody
  /\ \/ /\ ~Valid(d, at[d]) \/ ~connected
        /\ Fail(d, FALSE)
     \/ /\ Valid(d, at[d]) /\ connected
        /\ gate' = d
        /\ sentOn' = [sentOn EXCEPT ![d] = epoch]
        /\ Move(d, "call")
        /\ UNCHANGED <<at, report>>
  /\ UNCHANGED <<linkVars, server, uploadVars, revoked, wire, log>>

\* Mutant: nothing is looked at again after the wait for the lock.
MutMayWrite(d) == connected

\* The lock is there: the connection must be the same, and before_write() must agree.
MayWrite(d) == connected /\ epoch = sentOn[d] /\ Valid(d, at[d])

Write(d) ==
  /\ pc[d] = "call" /\ MayWrite(d)
  /\ wire' = wire \cup {<<d, at[d]>>}
  /\ Proceed(d, "answer")
  /\ UNCHANGED <<linkVars, server, uploadVars, revoked, log>>

\* ... or the time-out of the action ran out in the queue.
NotWritten(d) ==
  /\ pc[d] = "call"
  /\ Fail(d, FALSE)
  /\ UNCHANGED <<linkVars, server, uploadVars, revoked, wire, log>>

Performed(d) == {n \in 1..Parts[d] : \E i \in DOMAIN log : log[i] = <<d, n>>}

\* An answer: performed, and with a message ID; or refused, and not performed.
Acknowledged(d) ==
  /\ pc[d] = "answer" /\ connected /\ epoch = sentOn[d] /\ at[d] \in Performed(d)
  /\ Proceed(d, "pause")
  /\ UNCHANGED <<linkVars, server, uploadVars, revoked, wire, log>>

Rejected(d) ==
  /\ pc[d] = "answer" /\ connected /\ epoch = sentOn[d] /\ <<d, at[d]>> \in wire
  /\ wire' = wire \ {<<d, at[d]>>}
  /\ Fail(d, FALSE)
  /\ UNCHANGED <<linkVars, server, uploadVars, revoked, log>>

\* Mutant: a missing answer is reported as a plain failure.
MutUnknown(d) ==
  /\ pc[d] = "answer"
  /\ Fail(d, FALSE)
  /\ UNCHANGED <<linkVars, server, uploadVars, revoked, wire, log>>

\* No answer in time, a lost connection, or an acknowledgement without an ID.
Unknown(d) ==
  /\ pc[d] = "answer"
  /\ Fail(d, TRUE)
  /\ UNCHANGED <<linkVars, server, uploadVars, revoked, wire, log>>

\* After the interval the gate is left; the next request, or the end.
NextRequest(d) ==
  /\ pc[d] = "pause"
  /\ Release(d)
  /\ IF at[d] = Parts[d]
     THEN Move(d, "over") /\ Tell(d, TRUE, at[d], FALSE) /\ UNCHANGED at
     ELSE Move(d, "send") /\ at' = [at EXCEPT ![d] = @ + 1] /\ UNCHANGED report
  /\ UNCHANGED <<linkVars, server, uploadVars, sentOn, revoked, wire, log>>

\* The host cancels the task of its own delivery: it leaves the gate and says nothing.
\* (A tool call is shielded; an upload that is cancelled fails.)
Cancelled(d) ==
  /\ d \in Hosted /\ pc[d] \in {"staged", "send", "call", "answer", "pause"}
  /\ Move(d, "over") /\ Release(d)
  /\ UNCHANGED <<linkVars, server, uploadVars, at, sentOn, revoked, wire, log, report>>

Step(d) == \/ Prepare(d) \/ Uploaded(d) \/ Preflight(d) \/ EnterGate(d)
           \/ Write(d) \/ NotWritten(d) \/ Acknowledged(d) \/ Rejected(d) \/ Unknown(d)
           \/ NextRequest(d)

-----------------------------------------------------------------------------
(* The environment *)

\* QQ performs what was written, perhaps after its sender gave up.
Perform == \E q \in wire :
  /\ log' = Append(log, q) /\ wire' = wire \ {q}
  /\ UNCHANGED <<linkVars, server, uploadVars, pc, at, sentOn, gate, revoked, report>>

\* A request is lost with its connection.
Drop == \E q \in wire :
  /\ ~connected \/ epoch # sentOn[q[1]]
  /\ wire' = wire \ {q}
  /\ UNCHANGED <<linkVars, server, uploadVars, pc, at, sentOn, gate, revoked, log, report>>

Revoke(d) ==
  /\ d \in Borrowed \ revoked
  /\ revoked' = revoked \cup {d}
  /\ UNCHANGED <<linkVars, server, uploadVars, pc, at, sentOn, gate, wire, log, report>>

UploadsMove == /\ (\E u \in Uploads : UploadStep(u)) \/ CloseStreams \/ Environment
               /\ UNCHANGED sendVars

Next == \/ \E d \in Deliveries : Step(d) \/ Refused(d) \/ Cancelled(d) \/ Revoke(d)
        \/ Perform \/ Drop
        \/ UploadsMove

Spec == Init /\ [][Next]_vars

\* The event loop runs every task; calls and uploads end by their time-outs; the gate
\* is an asyncio lock, which serves its waiters in order.
Fairness ==
  /\ \A d \in Deliveries : SF_vars(Step(d))
  /\ \A u \in Uploads : WF_vars(UploadStep(u) /\ UNCHANGED sendVars)

FairSpec == Spec /\ Fairness

-----------------------------------------------------------------------------
(* Properties *)

TypeOK ==
  /\ UploadTypeOK
  /\ pc \in [Deliveries -> {"idle", "upload", "staged", "send", "call", "answer", "pause", "over"}]
  /\ at \in [Deliveries -> Nat \ {0}] /\ sentOn \in [Deliveries -> 0..MaxEpoch]
  /\ gate \in Deliveries \cup {Nobody} /\ revoked \subseteq Borrowed
  /\ wire \subseteq Deliveries \X Nat /\ log \in Seq(Deliveries \X Nat)
  /\ report \in [Deliveries -> [success : BOOLEAN, delivered : Nat, uncertain : BOOLEAN,
                                told : BOOLEAN]]

PerformedFor(d) == Kept(log, {d} \X Nat)
FirstParts(d, n) == [i \in 1..n |-> <<d, i>>]

\* What a caller is told stays true, whatever QQ does later: a success is the whole
\* delivery, once and in order; a plain failure names exactly what arrived, so that
\* the rest may be sent again; only an uncertain one leaves one request open.
HonestReport ==
  \A d \in Deliveries :
    LET r == report[d]
    IN  r.told =>
          /\ r.success => PerformedFor(d) = FirstParts(d, Parts[d])
          /\ ~r.success /\ ~r.uncertain => PerformedFor(d) = FirstParts(d, r.delivered)
          /\ r.uncertain => PerformedFor(d) \in {FirstParts(d, r.delivered),
                                                 FirstParts(d, r.delivered + 1)}

\* A request is written only while NapCat has the very file it names, unchanged since
\* it was hashed, and while the media it borrows is in force: through uploads, edits,
\* reconnections, restarts of NapCat, expiry, recalls, and the wait for the lock.
WritesWhatIsStaged ==
  [][\A d \in Deliveries :
       <<d, MediaAt[d]>> \in wire' \ wire =>
         /\ d \in Borrowed => d \notin revoked
         /\ up[d].pc # "none" =>
              /\ server[d].whole
              /\ server[d].chunks = [i \in 1..Chunks |-> up[d].hash]]_vars

\* Every delivery comes to an end, and leaves the gate and its upload slot.
DeliveriesEnd ==
  \A d \in Deliveries :
    pc[d] # "idle" ~> pc[d] = "over" /\ gate # d /\ d \notin Tasks
=============================================================================
