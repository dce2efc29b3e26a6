# Verification of hermes-napcat

hermes-napcat connects the Hermes agent to QQ through NapCat, which speaks OneBot 11 over one WebSocket.
This directory holds TLA+ models of the plugin's concurrent core, the TLC configurations that check them on
small instances, and theorems proved with TLAPS for every value of the constants. Paths below are relative to
the repository (`transport.py` is `src/hermes_napcat/transport.py`). The map from definitions to lines, the
mutant that breaks each property, and the list of hazards are in `PROJECT.json`.

To repeat the checks: `tlc -config X.cfg MCY.tla` for the runs below, `tlapm M.tla` for the proof modules.

## 1. The system

The plugin is one asyncio process. Code between two `await`s is not interrupted, so the hazards lie at the awaits:
what was read before one may be stale after it, a task may be cancelled at one, and a connection may be lost, or
replaced, at any of them. Nothing but the media cache is kept on disk, so a restart of the process begins from
nothing; what survives a lost connection, and what does not, is the recovery that matters.

| component | state | operations | hard behaviour | what makes it correct |
|---|---|---|---|---|
| action channel (`transport.py`) | socket, epoch, `ready`, `_pending` futures by echo, the send lock | `call`, `_attach`, reader, forward loop or reverse server, `start`, `stop` | time-outs against late answers, loss and replacement of the socket while callers wait, `stop` against a session that arrives | a verdict never says "not written" of an action that took effect; nothing is written to an unverified or newer peer; nobody waits on a dead socket |
| event lanes (`transport.py`) | two queues, byte budget, per-chat locks, pre-authentication buffer | `_receive`, `_enqueue`, workers, `start`/`stop` | parallel workers, cancellation, reconnection | order per chat, exact budget, only authenticated events, recalls overtake |
| stream reads (`transport.py`, `stream_download.py`, `media.py`) | the bounded `_PendingStream`, packet counters, the temporary file | `stream_call`, `download`, `import_stream` | packets against loss, replacement and revocation; errors put into a full queue | only whole, fresh files are published; the fallback is used only if nothing was transferred |
| stream upload (`stream_upload.py`) | slots and tasks, chunks sent, the path returned | `upload`, reset, `close` | files edited while they are read, restarts of NapCat, a path that outlives its connection | a path stands for the whole file that was hashed |
| group controller (`group_chat.py`) | queue and drain task per room, timers, `_pending`, serial numbers, room locks, model slots, history fetches | `receive`, `_enqueue`, `_drain`, `_addressed`, `_after_quiet`, `_evaluate`, `before_send`, `sent`, `close` | waits for lock, slot, history, classifier between check and use; cancellation; recalls | nothing outdated or recalled is answered, one answer per room, the queues' bound is exact |
| group continuation (`continuation.py`) | invitation per room, its pending and accepted supplements, a worker per room | `start`, `initial_finished`, `offer`, `recall`, `end`, `_run` | decisions about a snapshot while input goes on | a supplement is executed at most once, never with a privilege lost before; what is recalled does not come back; input is not forgotten |
| group context (`context.py`) | retained messages, tombstones, revisions | `put`, `recall`, `render` | late, unordered and repeated pages against live events and recalls | a recalled message is not shown again; the newest stay, once each |
| engagement, policy (`engagement.py`, `policy.py`) | `RecentIDs`, `WindowBudget`, allow-lists | `seen`, `take`, `trigger` | eviction at capacity, clock boundaries | no more answers than the budget |
| media references (`media_refs.py`) | handles, first stamps, tombstones, a floor | `remember`, `get`, `recall`, `clear` | eviction of what must not be forgotten, two clocks | a recalled medium is not reachable |
| file notices (`file_notices.py`) | files, notices and messages seen, an undo list | `normalize`, `admit`, `discard` | an admission undone after others | a file is dispatched once |
| media store (`media.py`) | cache directory, reserved bytes, two locks | downloads, imports, staging, pruning | threads against the event loop, transfers that fail half-way | the quota holds; no lock, reservation or partial file stays behind |
| adapters (`adapter.py`, `group_adapter.py`, `media_adapter.py`) | send gate, read gate, budgets of a turn, deduplication | `_receive`, `_dispatch_group`, `send`, `resolve_media` | checks before and waits after, in series | what is sent, shown or handed on is still allowed; reports are true |
| tools (`tools.py`, `group_tools.py`, `tool_policy.py`, `history.py`, `outbound.py`) | requests done and left of a bundle, calls left of an expansion | bundles, reads of messages and forwards | one request of several fails; recalls during a read | no delivery is reported falsely, nothing recalled is shown |
| conversions and set-up (`protocol.py`, `message_content.py`, `media_understanding.py`, `config.py`, `cli.py`, `plugin.py`, `hermes_runtime.py`) | none that changes while running | parsing, rendering, validation | - | - |

How they interact: the reader of the socket completes futures (action channel), fills stream buffers (stream reads)
and admits events (event lanes). Event workers call the adapter, which hands group messages to the controller's
synchronous `receive`; that fills the queues of a room or offers the message to the continuation. Drain tasks,
timers and the continuation's workers share the lock of their room and the model slots of all rooms, and hand turns
to Hermes, whose tools and answers come back as calls of the action channel. Recalls arrive on a lane of their own
and act on context, queues, invitations and media references. A turn's attachments and the media tools read through
handles of the references into the store, under one gate; everything that is sent passes one send gate, after its media
were staged in the store or uploaded to NapCat. A fetch of history fills the context for every reader who waits for it.

## 2. Modules

| module | models | role |
|---|---|---|
| `Delivery` | what the sender of an action may believe | abstract specification |
| `ActionChannel`, `MCActionChannel` | `call`, `_attach`, loops, `start`, `stop` | implements `Delivery` |
| `ChatFifo` | the order in which the handler sees the messages of a chat | abstract specification |
| `EventLanes`, `MCEventLanes` | `_receive`, `_enqueue`, the workers | implements `ChatFifo` |
| `EventLanesProofs` | | theorems about `EventLanes` |
| `StreamRead`, `MCStreamRead` | one download over `stream_call` | |
| `StreamReadProofs` | | theorems about `StreamRead` |
| `GroupChat`, `MCGroupChat` | the controller of `group_chat.py`, `_dispatch_group` | uses the continuation only as a holder of lock and slot |
| `GroupChatProofs` | | theorems about `GroupChat` |
| `GroupContinuation`, `MCGroupContinuation` | `continuation.py` | uses the controller only for how an invited turn begins and ends |
| `GroupContinuationProofs` | | theorems about `GroupContinuation` |
| `MediaReferences`, `MCMediaReferences` | `media_refs.py` | a component, with a specification of its own |
| `MediaStore` | quota, locks and files of `media.py` | a component of `MediaReads` |
| `MediaReads`, `MCMediaReads` | `media_adapter.py`, the attachments of a turn, the media tools | composes `MediaReferences` and `MediaStore` |
| `MediaReadsProofs` | | theorems about `MediaReferences`, `MediaStore` and `MediaReads` |
| `StreamUpload` | `stream_upload.py` | a component of `Outbound` |
| `Outbound`, `MCOutbound` | the send path of `adapter.py`, `outbound.py`, `media_adapter.py` and the sending tools | composes uploads with deliveries |
| `OutboundProofs` | | theorems about `Outbound` and `StreamUpload` |
| `RoomContext` | `context.py`, `RecentIDs` | a component of `ConversationReads` |
| `ConversationReads`, `MCConversationReads` | history, quotes, recent messages, forwards | composes the context with its readers |
| `CallsProofs` | | theorems about the two ends of a call: `ActionChannel`, and `ConversationReads` with `RoomContext` |
| `Queues` | what a selection keeps of a queue | a helper of the components |
| `DataFacts` | | lemmas on sums, queues and `Kept` that the proofs share |

Every action is the code from one await to the next (or a whole synchronous handler). Mutants (`Mut...`) stand next
to the definition they replace; nothing but the mutation check uses them.

### ActionChannel
`ws`, `epoch`, `ready`, `open` are the fields of `OneBotTransport`; `stage[c]` is where the coroutine of a call is and
then its outcome (the exception class the caller sees); `future[c]` is its entry of `_pending`; `attach` is where the
`_attach` coroutine is, `phase` where `stop` is. `Call` ends at the send lock, `Write` re-checks the socket under the
lock and starts to write, `Written`/`WriteFails` end the write, `Resume`, `Timeout` and `Cancel` are the three ways out
of the wait. The finally clause of `_attach` (close the socket, fail everything pending) is `EnterFinally` and `Detach`,
with other tasks running in between, as in the code. NapCat (`PeerExecutes`) performs a written action at any later
time, also after the caller gave up, and `Respond` may come late. `validated`, `logins`, `executed` are history.

`Delivery` says in three actions what the error classes of `transport.py:27-60` promise. `DeliverySpec` is the
refinement: `Verdict` maps outcomes to verdicts.

### EventLanes
Events are numbered as they arrive. `Receive` classifies an event, buffers it before the login was verified, or admits
it against both bounds; `LoginAccepted` empties the buffer in order. A worker takes an event, finds or makes the lock of its
chat and stands in line (`Take`), runs the handler (`Begin`, `Done`) and, in the finally clause, lowers the count of the
lock and refunds the bytes (`Release`). Workers carry the number of the `start` that made them, so that workers that
outlive a reconnection are told apart from those of a second `start`.

`ChatFifo` promises each chat a queue with losses. `ChatsAreQueues` is the refinement: an arrival is decided when it leaves the
reader's buffer or is refused (`Decided`), a message waits in the queue or with a worker that has not called the handler, and what
`stop` drains or a cancelled worker gives up is lost.

### StreamRead
The reader admits frames (`Receive`) into `queue` with the account `buffer`, or queues an error (`Fail`); the download
takes them (`TakePacket`, `TakeError`) and judges them as `decoded_chunks` does; `Publish` is the end of `import_stream`
with its last access check. The peer sends anything. Sizes are small numbers, contents are left out. One stream is
modelled since streams share nothing but the socket.

### GroupChat
`queue`, `pending`, `drain`, `timer`, `lock` are `_queues`, `_pending`, `_workers`, `_timers`, `_turn_locks`; `drain[r]` and
`timer[r]` say at which await the task is. `Heard` is the common part of `receive`; `Overhear`, `Chat`, `Control`, `Address`
its ways on; whether a reply is for the bot after all, and whether a user is over the rate, is left open and decided where
the code decides it (`Pop`, `Dispatch`). A room's `revision` is the flag `changed`. `HandOver` is the last part of
`_dispatch_group`, after the attachments were fetched. An answer to nobody's request goes `sleeping`, `lock`, `history`,
`deciding`, `slot`; then it leaves `_timers` and is `reply[r]`, guarded only by its ticket (`FirstSend`).
Left open: budgets, cooldowns, what the classifier says. Left out: the classifier's own slot (a delay between two
freshness checks). The history fetch is a wait here; `ConversationReads` says what it brings.

### GroupContinuation
An invitation is a number. `pending`, `accepted`, `cross` describe the open invitation of a room. `Invite`, `TurnBegins`,
`TurnEnds`, `TurnCancelled`, `Discard` are the controller's calls; `Offer`, `Recall` the members'; `Loop` to `Executed` are
the awaits of `_run` and `_evaluate`, with one action for each decision (`Consume`, `Conclude`, `Execute`, `Unconvinced`,
`DecisionFails`, `Reassess`). `Execute` consumes the selection and fixes the context of the task; then the execution waits for a slot of the
model, and `HandOver` gives it to Hermes. After that wait the code looks again only at the message of the principal, the last one selected
(`group_adapter.py:136-160`). A supplement before it, or an accepted one, that is recalled during the wait is still in the task's context, and
an invitation that ends during the wait does not stop the task; the model leaves both possible. No property excludes it, since the
documents promise nothing for content that a model was already given (`docs/GROUP_CHAT.md:203`), as the deciding one was. The two windows are replaced by the moments at which comparisons with the clock change.

### MediaReferences and MediaReads
A handle is the number of its issue, so the oldest one is the smallest. `seenStamp`, `tombExpiry` and `floor` are `_seen`,
`_recalled` and `_history_floor`; `Skew` is how far QQ's clock is ahead, `Ahead` how much of that `remember` accepts. In
`MediaStore`, `loopLock` and `threadLock` are the store's asyncio lock and the lock of the worker threads, `files` its directory.
A byte is a chunk. In `MediaReads` a reader goes `gate`, `transfer`, `bytes`, possibly `refresh` (`get_msg` for a new locator) and
`transfer` again; `EndOfBytes` publishes and then asks whether the handle may still be used; `RequestFails` is a request
or a wait for the store that fails before the first byte. A turn may begin with any handle issued so far, also one that lapsed while the
attachments before it were read. An HTTP transfer receives one chunk beyond its allowance and drops it; what is counted is what is written. `HandOver` is the last check before
the model sees the result. Nested attachments (forwards, file notices) cannot be refreshed.

Assumed: a transfer ends before its partial file is old enough to be pruned (`Tick`), since time-outs are at most 1800 s and
`cache_ttl_seconds` is at least 3600 (`config.py:131-155`); a server or NapCat reports a stale locator before the first byte; names
of cache files are random and never used again.

### StreamUpload and Outbound
The content of a local file is a version number, which an edit raises; a chunk holds the version it was read from. `server` is what
NapCat has of the upload: it loses it at a restart, by a reset, or when the retention is over. A delivery has `Parts[d]` requests,
of which `MediaAt[d]` names media. `Prepare` and `Uploaded` are the staging, `EnterGate` the checks under the send gate and the
begin of the call, `Write` the end of the wait for the transport's lock with `before_write`, `Acknowledged`, `Rejected` and `Unknown`
the three classes of answers, `NextRequest` the interval and the release. `report` holds what every form of report says: success,
how many requests were delivered, whether one is open. `Refused` stands for policy, limits and the freshness of the turn, each of which can
refuse at any of these points; freshness itself is in `GroupChat`. QQ may perform a written request at any later time.

Assumed: a request that NapCat answers with a failure is not performed later; NapCat keeps an assembled file for its holder's lifetime on the
same process (`Collect` only after `Lapse`: `validate` subtracts the time-out of a request from the retention); a file that is edited
while it is hashed matches nothing that is read later.

### RoomContext and ConversationReads
`room` is the list of retained messages, `recalled` the tombstones, oldest first. `Stored` is `put`: duplicate, cutoff,
insertion by stamp, the bound. A page is applied in one step (`Backfill`, `Filled`), as in the code. A turn goes `early` (a quote needed to know who is
addressed), `history`, `late` (a quote not looked up before), `attach`, and is dispatched with a second rendering; `Ask` to `Return` is
`recent_messages`; `Verify` to `Expanded` the expansion of a forward, whose parent is checked around each call. `fetching` is the one
task that any number of readers await and that survives them. NapCat's pages are arbitrary: any messages, any order, recalled ones too.

Assumed: stamps are not ahead of the local clock; the tombstones of the context and those of the media references are fed by
the same notices, so one store stands for both where a reader asks both, with the smaller of the two lives as `Window` and the
smaller of the two capacities as `Capacity`; rooms are not evicted (`config.py:370` keeps as many as there are
groups). Whether a fetch is due and whether the read budget allows a call are left open; text budgets, layout and `stop_at_last_bot_message` are left out (each only shows less).
The readers are those named above. The context of an invited turn is not among them: it is fixed by `continuation.py` (see `GroupContinuation`).

## 3. Runs

Each run finishes within about two minutes with two workers. Deadlock is not checked: each instance stops when its finite
supply of calls, sessions, events, messages or time is used, or after `stop`/`close`, as the program may.

| run | instance | asks | distinct states |
|---|---|---|---|
| `ActionChannel` | 3 calls (2 logins among them), 2 attachments, reverse, fair | are verdicts true, is only the verified account written to, is `stop` clean, is `Delivery` implemented, do callers learn of a loss | 278,536 |
| `EventLanes` | 2 chats, 3 events of sizes 1-2, queue of 2 and 3 bytes, 2 workers, 2 sessions, 2 starts, fair | budget, order, lock table, authentication; is `ChatFifo` implemented; do recalls overtake, is everything handled | 714,739 |
| `EventLanesWorkers` | 1 worker, forward, 2 starts | refutes the documented number of parallel chats (finding 1) | violation |
| `GroupContinuation` | 1 room, 2 invitations, 3 supplements, queue of 2, batch of 2, accepted list of 1, fair | no replay, no privilege regained, recalls during a decision, later input, is input assessed | 512,108 |
| `ContinuationStranded` | 1 room, 1 invitation, 2 supplements, fair | refutes a documented promise (finding 2) | violation |
| `StreamRead` | file of 3, chunks of 2, buffer of 3, 2 connections, fair | is only a whole file published, nothing after a lapse, are bounds exact, are honest answers accepted | 2,642,422 |
| `GroupChatSafety` | 2 rooms, 3 messages, queues of 2, one slot, symmetric | accounts, no circle of waits, freshness, recalls, no reopening | 3,129,418 |
| `GroupChatLive` | 1 room, 3 messages, fair | is every queued request answered or given up | 448,904 |
| `MediaReads` | 2 messages with an attachment each, 2 handles, one entry per table, a turn, a tool, a third transfer, a thread; quota and file of 2 bytes, turn of 3 | recalls against reads, quota, turn budget, nothing left behind | 1,936,499 |
| `MediaRecallSkew` | 2 messages, QQ's clock one tick ahead, one tombstone | refutes a comment of the code (finding 3) | violation |
| `Outbound` | a borrowed video of one request, a bundle of a text and a file; 2 chunks, one upload slot, 2 connections, 2 versions, fair | are reports true, is only what NapCat has sent, does every delivery end | 796,864 |
| `ConversationReads` | 3 messages, room of 2, one tombstone, pages of 2, window of 1, clock to 3; any two of a turn, a tool and an expansion; symmetric | is nothing recalled shown, are the newest kept | 2,150,326 |

Why these bounds are enough to be of interest: two attachments allow one replacement, which is when a check made on the
first is stale on the second; the calls beside the login allow one to hold the send lock while another waits or is
answered; two chats and two workers allow one chat to be handled by both; a queue of two is full when the third message
comes; two rooms and one slot allow a room to hold its lock while it waits for the other room; three messages allow a
request, what makes it outdated, and a third that is queued behind; a file of 3 bytes in chunks of 2 has a short last
chunk, and its buffer overflows; one entry per table makes the second recall evict the first tombstone, and the second first
stamp the first one; a quota as large as one transfer makes every overlap of transfer and thread a refusal; a turn's budget of a file and a
half lets it read two attachments, the second with an allowance below the limit of a file or with what the first gave back; two chunks allow an edit and a restart between them; the two
deliveries compete for gate and upload slot, one may fail after its first request, and one is cancelled by its host; three messages in a room
of two make the order of arrival matter. Bounds that exist only for the model checker (`MaxEpoch`, `MaxEvents`,
`MaxSessions`, `MaxStarts`, `MaxInvitations`, `MaxTime`, `MaxIds`, `MaxFiles`, `MaxVersion`, `PageSize`, `MaxReads`) are named as such where they are
declared. `MaxBatch` stands for `max_context_chars` and `MaxAccepted` for the count limit of accepted supplements (the code also evicts
by characters). Two rooms in `GroupContinuation` exceed what TLC can finish; that the queues of several rooms share one bound is
checked in `GroupChat` but not there. `ActionChannel` is run in reverse mode, the one with the race of a session against
`stop`; its theorems hold for both.

### Fairness
asyncio runs every callback that is ready and wakes the waiters of a lock, a semaphore or a queue in order, which
justifies weak fairness of the steps a task takes on its own and strong fairness of those that wait for a lock or slot
others use too. Beyond that each run assumes only what it needs:
- `ActionChannel`, `StreamRead`: nothing of the peer, the network, callers or time-outs.
- `Outbound`: uploads end by their time-outs (weak fairness), calls by theirs; a delivery's steps are strongly fair, since the send gate serves
  its waiters in order. Nothing is assumed of QQ, of the connection, or of the file.
- `MediaReads`, `ConversationReads`: only safety is checked, no fairness is stated. Each read is a series of calls with time-outs of their own.
- `EventLanes`: recall handlers return (they only edit tables). `MessagesAreHandled` states its own assumption that message
  handlers return; `RecallsDoNotWait` does without.
- `GroupContinuation`: decisions have time-outs, Hermes ends its turns. `InputIsAssessed` names its two exceptions (`stranded`).
- `GroupChat`: history and classifier have time-outs, Hermes ends its turns. Neither members nor the clock are assumed to act.

## 4. What the runs show

The channel's verdicts are true: a caller told `NotConnected` may retry, `DeliveryUncertain` covers everything else, and
an action bound to an epoch is never written on another. `stop` leaves nothing behind even if a reverse session arrives
during it. Messages of one chat keep their order with any interleaving of workers, and the byte budget survives
cancellation and drain. A download publishes only what is whole, and nothing once its access or its connection was gone, though the whole answer may lie in the buffer.
An unasked answer is begun only while the question is the last word in its room, although four awaits lie between the
decision and the first message; requests recalled while they waited are not answered; a conversation that a command ended
is not reopened by a reply that was queued before. Room locks and model slots are nested by three kinds of answers, and a request's
arrival cancels an evaluation that holds the lock; yet no room with a request ever waits in a circle (`NoCircle`). A supplement is executed at most once,
and a recall that falls into a decision makes the decision void: the recalled message comes back neither to the queue nor to the accepted ones.

A recalled medium is never handed on, though the recall may fall into the wait for the gate, the transfer, the renewal of its locator, or
the attachments after it; bytes of failed transfers stay charged to the turn, and the quota holds between transfers and
threads although each counts under a lock of its own, because a thread cannot be overtaken between its count and its file, and a transfer reserves
before it waits. A report on several requests is true whatever QQ does later, and a request that names an uploaded file is
written only while NapCat has the very content that was hashed. No reader shows a recalled message, though any page of history may bring it
back, as long as its tombstone is in force: `InForce` is relative to `dedup_capacity` later recalls, since this store,
unlike that of the media references, has no floor.

### Three findings
1. `EventLanesWorkers`. `docs/ARCHITECTURE.md:17` promises at most `event_workers` chats in parallel. When a reconnection
   meets another account, `_forward_loop` clears `running` and returns (`transport.py:248-253`) with the workers alive;
   a later `start()` makes new ones and forgets the old. More handlers run at once than configured.
2. `ContinuationStranded`. `docs/GROUP_CHAT.md:156` says that messages received during a decision are left for the next batch.
   If that decision fails or is not convincing, the worker ends without a look at the queue (`continuation.py:306`), and
   the message waits until somebody writes yet another one.

3. `MediaRecallSkew`. The comment at `media_refs.py:87` says that an overflow must not resurrect an old recall. `remember` accepts stamps
   up to 300 s ahead and files them under the present; an overflow raises the floor to the local time of that moment. A recalled message
   with such a stamp, whose tombstone was evicted, passes the floor a little later and gets a handle again. With `Skew = 0` the comment is a
   theorem.

A related weakness is modelled but contradicts no document: when Hermes cancels a turn, the cancellation ends the drain
task of the room, and the requests queued behind it are dropped (`group_chat.py:248-257`). `RequestsConclude` counts them as
given up; the type invariant of `GroupChat` shows that they are at least taken out of the account; `InputIsAssessed` excepts their invitations.

Seen while modelling, without a run: when exactly as many rows are retained as the limit allows and a quote that is not among them is
put in, `render` drops the oldest row without setting `truncated` (`context.py:232-237`).

## 5. Proofs

**CallsProofs, the channel** (from `ChannelAssumption`: `MaxEpoch` is a number, `Forward` a Boolean, `NoCall` no call). `TypeOK`,
`UntouchedMeansNoEffect`, `EpochBound`, `OnlyVerifiedPeers`, `PendingIsCurrent` and `StopIsClean` hold for any set of calls,
any number of attachments and both modes, and the channel implements `Delivery`. None of the properties is inductive.
`IInv` adds what the code relies on silently: who may own a future (`FutureInv`), that a call which has not begun to write
left no effect and that an "ok" answers a performed action (`WriteInv`), how socket, login and reader belong together
(`SocketInv`), that a call waiting for the lock was admitted on a verified socket (`AdmissionInv`), and, for each
state of the attachment, who may have an unresolved future (`PendingInv`). The hardest is the last: between the end of the
reader and the failure of what is pending, calls may still register futures, and they must be caught.
`ImplementsDelivery` shows that each step maps to a step of `Delivery` or to none.

**EventLanesProofs** (from `LanesAssumption`: limits are positive, bounds and sizes are numbers, `None` is no event). For any number of workers, chats,
events, sessions and starts: `LanesConsistent`, `BudgetExact`, `ChatsInOrder` and `ChatsAreFifo`, that is `Consistent`, `BytesExact`, `InOrderPerChat`
and `ChatsAreQueues`.
`LanesInv` has five parts. `Reader`: the buffer before authentication holds events of the present session only, in order. `Queued`: the
queues are bounded, ordered, older than the buffer, authenticated, and accounted for to the byte. `Items`: what a worker has taken is older than
what is queued. `LockInv`: a lock in the table belongs to one chat, is numbered by an event that left the queue, is counted
once for each worker that refers to it, and its waiters stand in the order of their events. Order per chat needs all of them: it would be lost if the
table forgot a lock while somebody waits, or if a younger event reached the lock first. `LoginAccepted` admits
the whole buffer in one step, so `AdmittedGood` is an induction over the buffer.
`ChatsAreFifo` maps each step to one of `ChatFifo`. `InOrder` is what it uses of the invariant: what is queued is decided and what is buffered is not, numbers in
the queue are distinct, and a message in the handler is the first of its chat. Two workers never hold the same message of a chat, which is why `Finish`
removes exactly one; `EnqueueGrows` says that what was queued stays.

**GroupChatProofs** (from `GroupChatAssumption`: the bounds are positive, `Nobody` is neither room nor message, and there are finitely many
rooms, which the configuration lists). For any rooms, messages and number of slots: types, with the exact account of the queues of all rooms
(`TypesCorrect`), at most one answer is under way in a room (`Exclusive`), nothing recalled is handed to Hermes
and an unasked answer begins and first speaks only while it is wanted (`Wanted`), ended
conversations stay ended (`NotReopened`), and locks and slots are never waited for in a circle (`NeverStuck`). The last is the
safety half of `RequestsConclude`, for any number of rooms, with guards in place of ENABLED: a request's room has a task that can go on, or waits for a
slot that is free or held by an answer under way. It needs the converse of `LockInv`: each value of a lock has an owner who will give it
back (`OwnerInv`), and a task drains every room in which something is queued (`DrainInv`). `IInv` says that the account is the sum of the queues (`PendingInv`; `AccountStep` reduces
each action to what it adds to or takes from one queue), who holds a room's lock (`LockInv`), that timers and answers are about
messages of their own room that nobody recalled (`CandidateInv`), and that an unchanged revision means an unchanged last
message (`FreshInv`). The lock is needed for freshness: an evaluation reads the revision anew, and would make an answer under
way look fresh if the two could overlap.

**GroupContinuationProofs** (from `ContinuationAssumption`: limits are positive, `ByAdmin` are messages, rooms are finitely many). For any
rooms, messages and invitations: `Types` (the pending supplements of all rooms stay within their common bound), `AtMostOnce` (`NeverReplayed`),
`PrivilegeIsLost`, `RecallsLast` (`RecalledIsForgotten`) and `SnapshotOnly`. `ReplayInv` adds to the types where a message can be: it is pending in at most
one room, only after it was offered, and only while it was not executed; a decision takes its snapshot out of the queue with the same step that
begins the execution. `PrivilegeNeverReturns` is inductive with the types: the record of contributors is never reduced while an invitation is open.
`RecalledIsForgotten` is inductive with the types too: what a decision moves to the accepted supplements was selected from its snapshot, and `Intact` has
compared the snapshot with the queue and the recalls after the wait (`AcceptFrom`, `ForgottenStep`).

**StreamReadProofs** (from `StreamAssumption`: sizes are positive). For every chunk size, limit and buffer and for any frames of
the peer: `Types` (the buffer's account is exact, frames and bytes stay within their limits), `PublishedWhole` (`WholeFile`),
`FallbackSafe` (`FallbackOnlyUntouched`), `HonestServed` (`HonestNotRefused`) and `NeverAfterLapse` (`LapsedForGood`: a lapse is final, since access is
not granted again and a lost connection does not come back under its number). `ReadInv` relates everything that
arrived (`sent`, a history variable) to the buffer and to what was taken: the buffer is the tail of it (`InOrder`), and what was taken is the
announcement and then the chunks in order, none short but perhaps the last, whose sizes add up to `total` (`Progress`). From this the last comparison of
sizes means that nothing is missing. `HonestServed` counts: a peer that keeps to the protocol sends no more frames than the limit allows,
since its full chunks alone would exceed the file.

**MediaReadsProofs** (from `HandleAssumption`, `StoreAssumption`, `ReadAssumption`; the two theorems about recalls also from `Skew = 0`, which finding 3
shows to be necessary). Handles: `RecalledForGood`, for any messages, attachments, lifetimes and capacities a recalled message never has a handle again.
`RecallIsFinal` is not inductive, since tombstones are forgotten; `RecallInv` says that each recalled message is `Barred`: its stamp lies in the past, and
either a tombstone outlives its lifetime, or the floor has passed it, or it has expired. An eviction turns the first into the second.
Store and reads: `TypesCorrect`, `NeverOverQuota` (`QuotaHolds`), `ReadsCleanUp` (`NothingLeaks`), `BudgetKept` (`TurnBudget`), `HandlesAsSpecified` (the
composition implements `RefSpec`) and `RecalledNotGiven` (`NothingRecalledGiven`), for any readers, transfers, threads and limits. `MediaInv` adds to the types:
- `PartInv`: each holder of a lock has exactly one half-written file, nobody else has one, and none is old enough to be pruned. The last clause rests on
  the guard of the clock in `Event`, which the limits of the configuration justify (section 2).
- `QuotaInv`: with what the transfer under way may still write the files fit into the quota. A thread that stages a copy must therefore count the
  reservation too, although it does not hold the lock of the loop.
- `Holding` and `Named`: what a reader holds is what its place in `resolve_media` says, and the handles it names still mean the attachments they meant.
  Numbers of handles are not reused (`Issued`), so a look at the handle after the last wait is a look at the attachment.
- `Budget`: spent, left and set aside for the attachment being read never exceed `max_turn_bytes`; during a transfer the bytes in the file
  count once. A transfer that fails keeps its allowance; that loses budget, and the inequality allows for it.

**OutboundProofs** (from `UploadAssumption` and `OutboundAssumption`: bounds are positive, `MediaAt` names a request). `TypesCorrect`; `Staged`, which is
`WritesWhatIsStaged`; and `ReportsAreHonest`, which is `HonestReport`; for any number of uploads, chunks, connections, versions and deliveries. `OutboundInv`
adds to the types that NapCat assembles a file once and from all its chunks (`Assembly`), that a usable path stands for the whole hashed file
(`Path`, `Holds`), and that a delivery past its staging has no upload or a complete one (`Prepared`). The argument for `Staged`: the hash is compared
with what was read and with what NapCat assembled, both on one connection; whatever takes the file away afterwards, a restart or the retention,
makes `Usable` false for good, and `before_write` asks for `Usable` after the last wait. For `ReportsAreHonest`, `HonestInv` says at each stage of a
delivery what QQ has done for it: exactly the requests before the present one, with nothing left on the wire (`Exactly`), or, once the present one was
written and until its answer is known, perhaps that one too (`Open`). `Told` says the same of what was reported. QQ may act at any time
(`HonestPerform`), but only on what is on the wire, and `Exactly` leaves nothing there.

**CallsProofs, the readers** (from `ContextAssumption` and `ReadsAssumption`: bounds are positive, each turn answers a message, `None` is none). For any
messages, window, size of the room, number of tombstones and readers, and for pages of any length: `ReadsTypesHold` (`ReadsTypeOK`), `RoomStaysGood`,
`ShownIsNotRecalled` (`NothingRecalledShown`) and `NewestAreKept` (`NewestKept`). `ReadsInv` adds to the types:
- `Aligned`: the tombstones are exactly the last of all recalls, each with its end. Hence a recall in force has its tombstone (`InForceIsRecalled`), and
  what `put`, `lookup` and the last looks of the readers refuse is at least what is recalled. No notice comes twice for a message, so `Bury` replaces none.
- `GoodRoom`: the room is sorted by stamps, holds nothing twice, and nothing that was never sent or whose recall is in force. Sorting is what makes
  "the last `Buffer` of the list" mean "the newest"; without it neither `NewestKept` nor the bound would follow.
- `AskedFor`: what a reader asks NapCat about was sent, so an answer may be put into the room like a page.

`NothingRecalledShown` then needs no memory of where the reader has waited: each showing step takes from the room as it is, or looks at the tombstones again.
`NewestKept` is harder for a page than for an event, because a page is many `put`s in one step and any of them may drop what an earlier one
kept. `StoredDrops` says that one `put` drops a message in the window only from a full room of newer ones; `FullStays` that such a room remains
so whatever is put next, since a message that enters it is no older than the one it drives out; `FilledGood` is the induction over the page. The lemmas under them
say what `Kept`, `Newest` and `Insert` do for every sequence (`KeptInOrder`, `NewestInOrder`, `InsertInOrder`). The two halves of the module share no name:
the reads assume nothing of the channel but that a call answers, fails or is given up.

**DataFacts.** The induction theorems of the library take an operator as a parameter, which the provers cannot instantiate. So these lemmas argue by a
smallest counterexample instead: a nonempty set of numbers has a least element (`Smallest`, from well-foundedness), a set that contains
0 and is closed under successor up to n is 0..n (`UpTo`), and a nonempty family of subsets of a finite set has a minimal member (`SmallestSet`). The
recursive functions behind `SumFunctionOnSet` and `Kept` are shown to exist as tables, and to be the only ones with their equations
(`TableExists`, `TablesAgree`, `KeptIsRun`). From this follow `SumRemove`, `SumUpdate`, `SumBounds`, `QueueSumAppend`,
`QueueSumTail`, `KeptAppend`, `KeptFacts`, `KeptAll`, `KeptSplit` and `KeptInjective`, which are what the components use.

**Only model-checked.** Liveness (`LostCallsConclude`, `RecallsDoNotWait`, `MessagesAreHandled`, `InputIsAssessed`,
`RequestsConclude`, `LostReadsEnd`, `DeliveriesEnd`): fairness and ENABLED are beyond the prover (of `RequestsConclude`, `NeverStuck` proves that nobody waits in a circle). Every invariant
and every action property that a run checks is also a theorem, and so are both refinements.
`EpochBound`, `PendingIsCurrent` and the types of the channel and `InOrderPerChat` of the lanes are proved, not run on
their own.

## 6. Plan

The modules stand in the order in which they were written: the action channel and the lanes first, since everything else relies on
them, then the two components with the most interleavings (controller and continuation), then what composes several files (media reads,
deliveries, conversation reads). What is left, most useful first:

1. Admission (`adapter.py:113-192`, `file_notices.py`, `RecentIDs` as `seen` and `own`): deduplication and its undo when attachments or the host fail;
   a file that arrives as a message and as a notice is dispatched once.
2. `run_agent_action`: identical actions of two tool calls at once; the grants of `tool_policy.py`.
3. `WindowBudget` against a reference definition (at most so many in any window).
4. The table of processing turns of `group_adapter.py` across a reconnection, and the paging of private history.
5. An abstract specification of the at-most-once execution of a request, implemented by `GroupChat` and `GroupContinuation`.

## 7. Not modelled, and why

- Parsing, rendering and set-up (`protocol.py`, `message_content.py`, `media_understanding.py`, `config.py`, `cli.py`, `plugin.py`) have no state that changes
  while the plugin runs. `hermes_runtime.py` and the host are external: turns end, fail or are cancelled as `group_adapter.py` sees it.
- `file_notices.py` and the deduplication of `_receive`: one chat's messages are handled one after another (`EventLanes`, `ChatsAreQueues`), so their
  steps do not interleave; first in the plan, since the undo is a long sequence of legal calls.
- `_verified_reply`, `tool_policy.py`, `WindowBudget`, the parsing of the classifier's answer: left open where their result is used.
- Coalescing in `run_agent_action`; `read_private_history`; the budgets of text and of a forward's tree.
- Image and audio checks of `media.py`: data processing.

Hazards the code has and no model covers:
- `_io` waits for a cancelled thread once (`stream_upload.py:44-53`); a second cancellation would close the file while the thread reads it.
- A request that NapCat reports as failed, or as accepted asynchronously (`retcode` 1), may be performed; `Rejected` takes a failure at
  its word, and so do the reports.
- Two identical tool calls, and a file that comes twice with a failure in between (see the plan).
