---------------------------- MODULE ActionChannel ----------------------------
(***************************************************************************)
(* The action half of OneBotTransport (transport.py): one authenticated    *)
(* WebSocket attachment at a time, actions correlated with their responses *)
(* by echo, the write lock, the failure of everything pending when an      *)
(* attachment ends, reconnection and stop.                                 *)
(*                                                                         *)
(* asyncio runs one callback at a time, so a step of this module is the    *)
(* code between two awaits.  A call is named by its echo, an attachment by *)
(* its epoch: ws is the epoch of self._ws, 0 for None.  The order in which *)
(* the write lock is granted is left open (asyncio grants it in FIFO       *)
(* order); nothing below relies on it.                                     *)
(***************************************************************************)
EXTENDS Naturals

CONSTANTS Calls,      \* the echoes that can be used
          MaxEpoch,   \* bound: attachments in one behaviour
          Forward,    \* config.mode = "forward" (otherwise "reverse")
          NoCall      \* the write lock is free, no login is pending

ASSUME ChannelAssumption == /\ MaxEpoch \in Nat
                            /\ Forward \in BOOLEAN
                            /\ NoCall \notin Calls

VARIABLES
  phase,      \* "down", "up", "stopping" (stop awaits ws.close), "cancelling"
  running,    \* self.running
  supervised, \* the forward supervisor task is alive
  first,      \* start() has returned: self._first is resolved
  epoch,      \* self._epoch
  ws,         \* self._ws
  open,       \* not ws.closed
  ready,      \* self.ready
  attach,     \* where the _attach coroutine is
  login,      \* the handshake call _attach awaits
  reading,    \* the reader task is in its receive loop
  validated,  \* history: epochs whose account was verified
  logins,     \* history: the calls made with _handshake=True
  stage,      \* where each call is, or its outcome
  future,     \* the call's future in self._pending
  onWs,       \* the socket captured by the call
  expected,   \* expected_epoch, 0 for None
  wroteOn,    \* write_started: the epoch written on, 0 if not started
  sendLock,   \* the holder of self._send_lock
  executed    \* the environment: actions NapCat has performed

connVars == <<phase, running, supervised, first, epoch, ws, open, ready, attach, login,
              reading, validated, logins>>
callVars == <<stage, future, onWs, expected, wroteOn, sendLock>>
vars == <<connVars, callVars, executed>>

Epochs == 0..MaxEpoch
Busy == {"locking", "writing", "awaiting"}
Outcomes == {"ok", "rejected", "notconnected", "vetoed", "uncertain", "cancelled"}

TypeOK ==
  /\ phase \in {"down", "up", "stopping", "cancelling"}
  /\ {running, supervised, first} \subseteq BOOLEAN
  /\ epoch \in Epochs /\ ws \in Epochs
  /\ open \in BOOLEAN /\ ready \in BOOLEAN /\ reading \in BOOLEAN
  /\ attach \in {"none", "handshake", "serving", "closing"}
  /\ login \in Calls \cup {NoCall}
  /\ validated \subseteq Epochs /\ logins \subseteq Calls
  /\ stage \in [Calls -> {"idle"} \cup Busy \cup Outcomes]
  /\ future \in [Calls -> {"none", "pending", "ok", "rejected", "failed"}]
  /\ onWs \in [Calls -> Epochs] /\ expected \in [Calls -> Epochs]
  /\ wroteOn \in [Calls -> Epochs]
  /\ sendLock \in Calls \cup {NoCall}
  /\ executed \subseteq Calls

Init ==
  /\ phase = "down" /\ running = FALSE /\ supervised = FALSE /\ first = FALSE
  /\ epoch = 0 /\ ws = 0 /\ open = FALSE /\ ready = FALSE
  /\ attach = "none" /\ login = NoCall /\ reading = FALSE
  /\ validated = {} /\ logins = {}
  /\ stage = [c \in Calls |-> "idle"]
  /\ future = [c \in Calls |-> "none"]
  /\ onWs = [c \in Calls |-> 0] /\ expected = [c \in Calls |-> 0]
  /\ wroteOn = [c \in Calls |-> 0]
  /\ sendLock = NoCall
  /\ executed = {}

-----------------------------------------------------------------------------
(* Calls *)

\* _fail_pending: every unresolved future gets DeliveryUncertain.
FailPending(f) == [c \in Calls |-> IF f[c] = "pending" THEN "failed" ELSE f[c]]

\* The echo is registered; the call now waits for the write lock.
Register(c, k, e) ==
  /\ stage' = [stage EXCEPT ![c] = "locking"]
  /\ future' = [future EXCEPT ![c] = "pending"]
  /\ onWs' = [onWs EXCEPT ![c] = k]
  /\ expected' = [expected EXCEPT ![c] = e]
  /\ UNCHANGED <<wroteOn, sendLock>>

\* Mutant: the write lock is not released on the way out.
MutFinish(c, outcome) ==
  /\ stage' = [stage EXCEPT ![c] = outcome]
  /\ future' = [future EXCEPT ![c] = "none"]
  /\ UNCHANGED <<sendLock, onWs, expected, wroteOn>>

\* Leave call(): the write lock is released if held, and the finally clause
\* forgets the echo and its future.
Finish(c, outcome) ==
  /\ stage' = [stage EXCEPT ![c] = outcome]
  /\ future' = [future EXCEPT ![c] = "none"]
  /\ sendLock' = IF sendLock = c THEN NoCall ELSE sendLock
  /\ UNCHANGED <<onWs, expected, wroteOn>>

\* The checks before an action is registered.
Connected(e) == e \in {0, epoch} /\ ws # 0 /\ open /\ ready

\* An action is issued with expected_epoch e.  An oversized frame is one more
\* refusal before registration, with the same effect as "notconnected".
Call(c, e) ==
  /\ stage[c] = "idle"
  /\ \/ Connected(e) /\ Register(c, ws, e)
     \/ ~Connected(e) /\ Finish(c, "notconnected")
  /\ UNCHANGED <<connVars, executed>>

\* Mutant: whichever socket is there after the wait will do.
MutSameSocket(c) == ws # 0 /\ open

\* The socket may have been replaced while the call waited for the lock.
SameSocket(c) == ws = onWs[c] /\ open /\ expected[c] \in {0, epoch}

\* Inside the write lock: the checks, before_write, and the start of the write.
\* before_write may raise (media recalled, expired, or staged elsewhere).
Write(c) ==
  /\ stage[c] = "locking" /\ sendLock = NoCall
  /\ \/ /\ SameSocket(c)
        /\ stage' = [stage EXCEPT ![c] = "writing"]
        /\ wroteOn' = [wroteOn EXCEPT ![c] = ws]
        /\ sendLock' = c
        /\ UNCHANGED <<future, onWs, expected>>
     \/ /\ ~SameSocket(c)
        /\ Finish(c, "notconnected")
     \/ /\ SameSocket(c) /\ c \notin logins
        /\ Finish(c, "vetoed")
  /\ UNCHANGED <<connVars, executed>>

\* ws.send_str returned: release the lock and wait for the response.
Written(c) ==
  /\ stage[c] = "writing"
  /\ stage' = [stage EXCEPT ![c] = "awaiting"]
  /\ sendLock' = NoCall
  /\ UNCHANGED <<future, onWs, expected, wroteOn, connVars, executed>>

\* ws.send_str raised ClientError or OSError.
WriteFails(c) ==
  /\ stage[c] = "writing" /\ ~open
  /\ Finish(c, "uncertain")
  /\ UNCHANGED <<connVars, executed>>

\* Mutant: every answer counts as success, status=async and failures included.
MutResume(c) ==
  /\ stage[c] = "awaiting"
  /\ \/ future[c] \in {"ok", "rejected"} /\ Finish(c, "ok")
     \/ future[c] = "failed" /\ Finish(c, "uncertain")
  /\ UNCHANGED <<connVars, executed>>

\* The future was resolved: by a response, or by FailPending.
Resume(c) ==
  /\ stage[c] = "awaiting"
  /\ \/ future[c] = "ok" /\ Finish(c, "ok")
     \/ future[c] = "rejected" /\ Finish(c, "rejected")
     \/ future[c] = "failed" /\ Finish(c, "uncertain")
  /\ UNCHANGED <<connVars, executed>>

\* Mutant: write_started is ignored, a timeout means "not written".
MutTimeout(c) ==
  /\ stage[c] \in Busy
  /\ Finish(c, "notconnected")
  /\ UNCHANGED <<connVars, executed>>

\* asyncio.timeout covers the wait for the lock, the write and the response.
\* It may win against a response that has already resolved the future.
Timeout(c) ==
  /\ stage[c] \in Busy
  /\ Finish(c, IF wroteOn[c] # 0 THEN "uncertain" ELSE "notconnected")
  /\ UNCHANGED <<connVars, executed>>

\* The caller's task is cancelled; the handshake is cancelled with _attach.
Cancel(c) ==
  /\ stage[c] \in Busy /\ c # login
  /\ Finish(c, "cancelled")
  /\ UNCHANGED <<connVars, executed>>

-----------------------------------------------------------------------------
(* The peer *)

\* NapCat performs an action whose bytes were handed to a socket, at any later
\* time or never; the connection may be gone by then.
PeerExecutes(c) ==
  /\ wroteOn[c] # 0 /\ c \notin executed
  /\ executed' = executed \cup {c}
  /\ UNCHANGED <<connVars, callVars>>

\* The reader matches a response with a pending echo.  status=ok with retcode 0
\* is sent for a performed action only.  A response whose echo is unknown or
\* already answered changes a counter and nothing else.
Respond(c, answer) ==
  /\ reading /\ wroteOn[c] # 0 /\ future[c] = "pending"
  /\ answer = "ok" => c \in executed
  /\ future' = [future EXCEPT ![c] = answer]
  /\ UNCHANGED <<stage, onWs, expected, wroteOn, sendLock, connVars, executed>>

SocketLost ==
  /\ open
  /\ open' = FALSE
  /\ UNCHANGED <<phase, running, supervised, first, epoch, ws, ready, attach, login,
                 reading, validated, logins, callVars, executed>>

-----------------------------------------------------------------------------
(* Attachments *)

\* The forward loop connects again while it is supervised and not stopped; the
\* reverse server takes a session whenever self._ws is None and it listens.
MayAttach == /\ attach = "none" /\ ws = 0 /\ epoch < MaxEpoch
             /\ IF Forward THEN phase = "up" /\ supervised ELSE phase # "down"

\* _attach up to its first await: a new epoch, a reader, the login call.
Attach(c) ==
  /\ MayAttach /\ stage[c] = "idle"
  /\ epoch' = epoch + 1 /\ ws' = epoch + 1
  /\ open' = TRUE /\ ready' = FALSE /\ reading' = TRUE
  /\ attach' = "handshake" /\ login' = c /\ logins' = logins \cup {c}
  /\ Register(c, epoch + 1, 0)
  /\ UNCHANGED <<phase, running, supervised, first, validated, executed>>

\* get_login_info named the configured account: the attachment serves.
LoginAccepted ==
  /\ attach = "handshake" /\ stage[login] = "ok"
  /\ attach' = "serving" /\ ready' = TRUE /\ login' = NoCall
  /\ validated' = validated \cup {ws} /\ first' = TRUE
  /\ UNCHANGED <<phase, running, supervised, epoch, ws, open, reading, logins,
                 callVars, executed>>

\* Mutant: the transport stays ready while its attachment is torn down.
MutEnterFinally == /\ attach' = "closing" /\ reading' = FALSE /\ login' = NoCall
                   /\ UNCHANGED ready

\* _attach enters its finally clause: not ready, the reader is cancelled.
EnterFinally == /\ attach' = "closing" /\ ready' = FALSE /\ reading' = FALSE
                /\ login' = NoCall

\* Another account: the forward supervisor gives up for good.
IdentityMismatch ==
  /\ attach = "handshake" /\ stage[login] = "ok"
  /\ EnterFinally
  /\ IF Forward THEN running' = FALSE /\ supervised' = FALSE
                ELSE UNCHANGED <<running, supervised>>
  /\ UNCHANGED <<phase, first, epoch, ws, open, validated, logins, callVars, executed>>

\* The handshake call failed, or the reader of a serving attachment ended.
AttachmentEnds ==
  /\ \/ attach = "handshake" /\ stage[login] \in Outcomes \ {"ok"}
     \/ attach = "serving" /\ ~reading
  /\ EnterFinally
  /\ UNCHANGED <<phase, running, supervised, first, epoch, ws, open, validated, logins,
                 callVars, executed>>

\* The receive loop ends with its socket and fails everything pending.
ReaderEnds ==
  /\ reading /\ ~open
  /\ reading' = FALSE
  /\ future' = FailPending(future)
  /\ UNCHANGED <<phase, running, supervised, first, epoch, ws, open, ready, attach, login,
                 validated, logins, stage, onWs, expected, wroteOn, sendLock, executed>>

\* The end of the finally clause: the socket is closed, self._ws is released
\* and whatever is still pending fails.
Detach ==
  /\ attach = "closing"
  /\ attach' = "none" /\ open' = FALSE /\ ws' = 0
  /\ future' = FailPending(future)
  /\ UNCHANGED <<phase, running, supervised, first, epoch, ready, login, reading, validated,
                 logins, stage, onWs, expected, wroteOn, sendLock, executed>>

-----------------------------------------------------------------------------
(* Lifecycle *)

\* start() is guarded by self.running, which is also false after IdentityMismatch
\* on a reconnection.  A start() that fails or times out before it returned
\* continues with StopBegins.
Start ==
  /\ ~running /\ (phase = "down" \/ (phase = "up" /\ first)) /\ attach = "none"
  /\ phase' = "up" /\ running' = TRUE /\ supervised' = Forward /\ first' = ~Forward
  /\ UNCHANGED <<epoch, ws, open, ready, attach, login, reading, validated, logins,
                 callVars, executed>>

\* stop() up to the await of ws.close().
StopBegins ==
  /\ phase = "up"
  /\ phase' = "stopping" /\ running' = FALSE /\ ready' = FALSE
  /\ future' = FailPending(future)
  /\ UNCHANGED <<supervised, first, epoch, ws, open, attach, login, reading, validated, logins,
                 stage, onWs, expected, wroteOn, sendLock, executed>>

\* The tasks are cancelled.  An _attach that is already in its finally clause is
\* interrupted there: self._ws keeps its socket until StopEnds.
StopCancels ==
  /\ phase = "stopping" /\ (ws # 0 => ~open)
  /\ phase' = "cancelling" /\ supervised' = FALSE
  /\ attach' = IF attach = "closing" THEN "none" ELSE attach
  /\ UNCHANGED <<running, first, epoch, ws, open, ready, login, reading, validated, logins,
                 callVars, executed>>

\* The cancellation reaches _attach, and with it a handshake call in progress.
AttachCancelled ==
  /\ phase = "cancelling" /\ attach \in {"handshake", "serving"}
  /\ EnterFinally
  /\ IF attach = "handshake" /\ stage[login] \in Busy
       THEN Finish(login, "cancelled") ELSE UNCHANGED callVars
  /\ UNCHANGED <<phase, running, supervised, first, epoch, ws, open, validated, logins, executed>>

\* gather and runner.cleanup have joined every task.
StopEnds ==
  /\ phase = "cancelling" /\ attach = "none"
  /\ phase' = "down" /\ ws' = 0 /\ open' = FALSE
  /\ UNCHANGED <<running, supervised, first, epoch, ready, attach, login, reading, validated,
                 logins, callVars, executed>>

-----------------------------------------------------------------------------
CallStep(c) == \/ \E e \in 0..epoch : Call(c, e)
               \/ Write(c) \/ Written(c) \/ WriteFails(c) \/ Resume(c)
               \/ Timeout(c) \/ Cancel(c)

PeerStep == \/ \E c \in Calls : PeerExecutes(c)
            \/ \E c \in Calls, answer \in {"ok", "rejected"} : Respond(c, answer)
            \/ SocketLost

ConnectionStep == \/ \E c \in Calls : Attach(c)
                  \/ LoginAccepted \/ IdentityMismatch \/ AttachmentEnds
                  \/ ReaderEnds \/ Detach
                  \/ Start \/ StopBegins \/ StopCancels \/ AttachCancelled \/ StopEnds

Next == (\E c \in Calls : CallStep(c)) \/ PeerStep \/ ConnectionStep

Spec == Init /\ [][Next]_vars

\* The event loop runs what is runnable.  Nothing is assumed of the peer, of the
\* network, of callers, or of timeouts.
FairSpec ==
  /\ Spec
  /\ \A c \in Calls : /\ WF_vars(Written(c) \/ WriteFails(c)) /\ WF_vars(Resume(c))
                      /\ SF_vars(Write(c))
  /\ WF_vars(LoginAccepted \/ AttachmentEnds) /\ WF_vars(ReaderEnds) /\ WF_vars(Detach)

-----------------------------------------------------------------------------
(* Properties *)

\* NotConnected is documented "No write was attempted": a caller told so, or one
\* whose before_write check vetoed the action, never has its action performed,
\* not even later.
UntouchedMeansNoEffect ==
  \A c \in Calls : stage[c] \in {"notconnected", "vetoed"} => c \notin executed

\* Data is returned to the caller only for an action NapCat has performed.
OkMeansEffect == \A c \in Calls : stage[c] = "ok" => c \in executed

\* An action bound to an epoch (stream chunks, staged media) is written on the
\* attachment of that epoch or nowhere, however long it waited for the lock.
EpochBound ==
  \A c \in Calls : wroteOn[c] # 0 /\ expected[c] # 0 => wroteOn[c] = expected[c]

\* Apart from the login query itself nothing is written on a socket before the
\* account behind it was verified, though the socket may be replaced while a call
\* waits for the write lock.
OnlyVerifiedPeers ==
  \A c \in Calls \ logins : wroteOn[c] # 0 => wroteOn[c] \in validated

\* An unresolved future always belongs to the present attachment: no way of losing
\* a connection leaves a caller waiting for a peer that is gone.
PendingIsCurrent == \A c \in Calls : future[c] = "pending" => ws # 0 /\ onWs[c] = ws

\* ready is only ever seen on the verified present attachment.
ReadyIsVerified == ready => ws \in validated /\ ws = epoch /\ attach = "serving"

\* When stop() returns nothing is left: no socket, no reader, no future unresolved.
StopIsClean ==
  phase = "down" => /\ ws = 0 /\ ~ready /\ ~reading /\ attach = "none"
                    /\ \A c \in Calls : future[c] # "pending"

\* A caller whose socket dies is told so without waiting for its own timeout.
LostCallsConclude ==
  \A c \in Calls : stage[c] \in Busy /\ ~open ~> stage[c] \notin Busy

\* The verdicts of Delivery: what each caller may believe.
Verdict(c) == CASE stage[c] = "idle" -> "idle"
                [] stage[c] \in Busy -> "open"
                [] stage[c] \in {"notconnected", "vetoed"} -> "untouched"
                [] stage[c] \in {"uncertain", "cancelled"} -> "unknown"
                [] OTHER -> stage[c]

D == INSTANCE Delivery WITH verdict <- [c \in Calls |-> Verdict(c)],
                            effects <- executed

\* The channel implements Delivery.
DeliverySpec == D!Spec
=============================================================================
