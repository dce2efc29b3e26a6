-------------------------- MODULE GroupContinuation --------------------------
(***************************************************************************)
(* GroupContinuation (continuation.py): after an invited request members   *)
(* of the group may supplement it.  Supplements queue up, one worker per   *)
(* room waits for the request to finish and for a quiet moment, has a      *)
(* model assess a snapshot of the queue, and executes what was selected:   *)
(* it waits for a slot of the model and hands the turn to Hermes.          *)
(*                                                                         *)
(* An invitation is a number, a message a model value.  The contents of a  *)
(* closed Invitation object are never read again, so pending, accepted,    *)
(* cross and window describe the open invitation of each room.  Clocks are *)
(* replaced by the moments at which their comparisons change: a window is  *)
(* "open", "idle" (may be renewed) or "over" (past the deadline).          *)
(***************************************************************************)
EXTENDS Naturals, Sequences, FiniteSets, SequencesExt, Queues

CONSTANTS Rooms, Messages,
          ByAdmin,       \* the messages whose author is a configured admin
          MaxPending,    \* max_pending_messages, over all rooms
          MaxAccepted,   \* live_buffer_messages
          MaxBatch,      \* messages that fit max_context_chars
          MaxInvitations \* bound: invitations in one behaviour

ASSUME ContinuationAssumption == /\ {MaxPending, MaxAccepted, MaxBatch} \subseteq Nat \ {0}
                                 /\ MaxInvitations \in Nat
                                 /\ ByAdmin \subseteq Messages
                                 /\ IsFiniteSet(Rooms)  \* the groups of the configuration

VARIABLES
  invited,      \* invitations made so far
  current,      \* self._states: the open invitation of each room, 0 if none
  ready,        \* the invitations whose ready event is set
  initial,      \* invitations whose own request is still to be answered
  window,       \* expires and deadline against the clock
  pending,      \* state.pending, in order of arrival
  accepted,     \* state.accepted
  cross,        \* state.cross_chat_allowed
  contributors, \* history: everything ever accepted, evicted and recalled included
  offered,      \* history: the messages offered so far
  recalled,     \* the messages whose recall the context remembers
  lock,         \* self.locks: "free", "turn" (a direct request), "worker"
  worker,       \* where the _run task of each room is, "none" if there is none
  held,         \* the invitation the worker works on
  latest,       \* the last pending message before the quiet window
  batch,        \* the snapshot being assessed
  turn,         \* the FollowupExecution under way: what was selected, in order
  executions,   \* history: how often each message was selected for execution
  stranded,     \* history: a worker ended although input was pending, or the
                \* request of an open invitation was dropped
  closed        \* self._closed

stateVars == <<invited, current, ready, initial, window, pending, accepted, cross, contributors>>
inputVars == <<offered, recalled>>
workVars == <<lock, worker, held, latest, batch, turn, executions, stranded>>
vars == <<stateVars, inputVars, workVars, closed>>

Invitations == 1..MaxInvitations
NoMessage == "none"

TypeOK ==
  /\ invited \in 0..MaxInvitations
  /\ current \in [Rooms -> 0..invited]
  /\ ready \subseteq 1..invited /\ initial \subseteq (1..invited) \X Rooms
  /\ window \in [Rooms -> {"open", "idle", "over"}]
  /\ {pending, accepted, batch} \subseteq [Rooms -> Seq(Messages)]
  /\ \A r \in Rooms : /\ Len(pending[r]) <= MaxPending
                      /\ Len(accepted[r]) <= MaxAccepted
                      /\ Len(batch[r]) <= MaxBatch
  /\ cross \in [Rooms -> BOOLEAN]
  /\ contributors \in [Rooms -> SUBSET Messages]
  /\ offered \subseteq Messages /\ recalled \subseteq Messages
  /\ lock \in [Rooms -> {"free", "turn", "worker"}]
  /\ worker \in [Rooms -> {"none", "loop", "ready", "quiet", "lock", "deciding", "slot",
                       "executing"}]
  /\ held \in [Rooms -> 0..invited]
  /\ latest \in [Rooms -> Messages \cup {NoMessage}]
  /\ turn \in [Rooms -> Seq(Messages)]
  /\ executions \in [Messages -> Nat]
  /\ stranded \in BOOLEAN /\ closed \in BOOLEAN

Init ==
  /\ invited = 0 /\ current = [r \in Rooms |-> 0] /\ ready = {} /\ initial = {}
  /\ window = [r \in Rooms |-> "over"]
  /\ pending = [r \in Rooms |-> <<>>] /\ accepted = [r \in Rooms |-> <<>>]
  /\ cross = [r \in Rooms |-> FALSE] /\ contributors = [r \in Rooms |-> {}]
  /\ offered = {} /\ recalled = {}
  /\ lock = [r \in Rooms |-> "free"] /\ worker = [r \in Rooms |-> "none"]
  /\ held = [r \in Rooms |-> 0] /\ latest = [r \in Rooms |-> NoMessage]
  /\ batch = [r \in Rooms |-> <<>>] /\ turn = [r \in Rooms |-> <<>>]
  /\ executions = [m \in Messages |-> 0]
  /\ stranded = FALSE /\ closed = FALSE

Without(s, S) == Kept(s, Messages \ S)
LastPending(r) == IF pending[r] = <<>> THEN NoMessage ELSE Last(pending[r])

-----------------------------------------------------------------------------
(* Invitations *)

\* end(): the state is popped, emptied and its waiters are released.
End(r) ==
  /\ current' = [current EXCEPT ![r] = 0]
  /\ pending' = [pending EXCEPT ![r] = <<>>]
  /\ ready' = ready \cup ({current[r]} \ {0})

\* start(): a new request ends the invitation before it.
Invite(r, byAdmin) ==
  /\ ~closed /\ invited < MaxInvitations
  /\ invited' = invited + 1
  /\ current' = [current EXCEPT ![r] = invited + 1]
  /\ ready' = ready \cup ({current[r]} \ {0})
  /\ initial' = initial \cup {<<invited + 1, r>>}
  /\ window' = [window EXCEPT ![r] = "open"]
  /\ pending' = [pending EXCEPT ![r] = <<>>]
  /\ accepted' = [accepted EXCEPT ![r] = <<>>]
  /\ cross' = [cross EXCEPT ![r] = byAdmin]
  /\ contributors' = [contributors EXCEPT ![r] = {}]
  /\ UNCHANGED <<inputVars, workVars, closed>>

\* The request is being answered, under the lock of its room.
TurnBegins(r) ==
  /\ ~closed
  /\ \E i \in Invitations : <<i, r>> \in initial
  /\ lock[r] = "free"
  /\ lock' = [lock EXCEPT ![r] = "turn"]
  /\ UNCHANGED <<stateVars, inputVars, worker, held, latest, batch, turn, executions,
                 stranded, closed>>

\* Requests of a room are answered in order.
Oldest(i, r) == /\ <<i, r>> \in initial
                /\ \A j \in Invitations : <<j, r>> \in initial => i <= j

Renewed(r) == IF window[r] = "idle" THEN "open" ELSE window[r]

\* Mutant: a turn that failed does not release the worker.
MutTurnEnds(i, r) ==
  /\ Oldest(i, r) /\ lock[r] = "turn"
  /\ lock' = [lock EXCEPT ![r] = "free"]
  /\ initial' = initial \ {<<i, r>>}
  /\ UNCHANGED <<invited, current, ready, window, pending, accepted, cross, contributors,
                 inputVars, worker, held, latest, batch, turn, executions, stranded, closed>>

\* initial_finished(): whatever the outcome, the worker may start to assess, and
\* the idle window of an invitation that is still open is renewed.
TurnEnds(i, r) ==
  /\ Oldest(i, r) /\ lock[r] = "turn"
  /\ lock' = [lock EXCEPT ![r] = "free"]
  /\ initial' = initial \ {<<i, r>>}
  /\ ready' = ready \cup {i}
  /\ window' = IF current[r] = i THEN [window EXCEPT ![r] = Renewed(r)] ELSE window
  /\ UNCHANGED <<invited, current, pending, accepted, cross, contributors, inputVars,
                 worker, held, latest, batch, turn, executions, stranded, closed>>

\* Hermes cancelled the turn.  The cancellation ends the task that answers the
\* requests of the room, so the requests still queued are dropped: nobody will
\* set the ready event of their invitations.
TurnCancelled(i, r) ==
  /\ Oldest(i, r) /\ lock[r] = "turn"
  /\ lock' = [lock EXCEPT ![r] = "free"]
  /\ initial' = {w \in initial : w[2] # r}
  /\ ready' = ready \cup {i}
  /\ window' = IF current[r] = i THEN [window EXCEPT ![r] = Renewed(r)] ELSE window
  /\ stranded' = (stranded \/ <<current[r], r>> \in initial \ {<<i, r>>})
  /\ UNCHANGED <<invited, current, pending, accepted, cross, contributors, inputVars,
                 worker, held, latest, batch, turn, executions, closed>>

\* The request is not answered after all: discard() ends its own invitation only.
Discard(i, r) ==
  /\ Oldest(i, r)
  /\ initial' = initial \ {<<i, r>>}
  /\ lock' = IF lock[r] = "turn" THEN [lock EXCEPT ![r] = "free"] ELSE lock
  /\ IF current[r] = i THEN End(r) ELSE UNCHANGED <<current, pending, ready>>
  /\ UNCHANGED <<invited, window, accepted, cross, contributors, inputVars,
                 worker, held, latest, batch, turn, executions, stranded, closed>>

\* An administrator's control command, or the recall of the request.
Withdraw(r) ==
  /\ current[r] # 0
  /\ End(r)
  /\ UNCHANGED <<invited, initial, window, accepted, cross, contributors, inputVars,
                 workVars, closed>>

WindowPasses(r, to) ==
  /\ current[r] # 0
  /\ \/ window[r] = "open" /\ to \in {"idle", "over"}
     \/ window[r] = "idle" /\ to = "over"
  /\ window' = [window EXCEPT ![r] = to]
  /\ UNCHANGED <<invited, current, ready, initial, pending, accepted, cross, contributors,
                 inputVars, workVars, closed>>

-----------------------------------------------------------------------------
(* Input *)

TotalPending == SumFunctionOnSet([r \in Rooms |-> Len(pending[r])], Rooms)

\* offer(): within the window a supplement is queued, or dropped when the queues
\* of all rooms are full; a worker is started unless the room has one.  Message
\* identifiers are fresh: the controller has dropped duplicates and recalls.
Offer(r, m) ==
  /\ ~closed /\ m \notin offered \cup recalled
  /\ current[r] # 0 /\ window[r] = "open"
  /\ offered' = offered \cup {m}
  /\ \/ TotalPending >= MaxPending /\ UNCHANGED <<pending, worker>>
     \/ /\ TotalPending < MaxPending
        /\ pending' = [pending EXCEPT ![r] = Append(@, m)]
        /\ worker' = IF worker[r] = "none" THEN [worker EXCEPT ![r] = "loop"] ELSE worker
  /\ UNCHANGED <<invited, current, ready, initial, window, accepted, cross, contributors,
                 recalled, lock, held, latest, batch, turn, executions, stranded, closed>>

\* Mutant: the authors that remain decide about the cross-chat privilege again.
MutRecall(m) ==
  /\ ~closed /\ m \in offered \ recalled
  /\ recalled' = recalled \cup {m}
  /\ pending' = [r \in Rooms |-> Without(pending[r], {m})]
  /\ accepted' = [r \in Rooms |-> Without(accepted[r], {m})]
  /\ cross' = [r \in Rooms |-> ToSet(Without(accepted[r], {m})) \subseteq ByAdmin]
  /\ UNCHANGED <<invited, current, ready, initial, window, contributors, offered,
                 workVars, closed>>

\* recall(): the message leaves both queues, the privilege stays as it is.
Recall(m) ==
  /\ ~closed /\ m \in offered \ recalled
  /\ recalled' = recalled \cup {m}
  /\ pending' = [r \in Rooms |-> Without(pending[r], {m})]
  /\ accepted' = [r \in Rooms |-> Without(accepted[r], {m})]
  /\ UNCHANGED <<invited, current, ready, initial, window, cross, contributors, offered,
                 workVars, closed>>

-----------------------------------------------------------------------------
(* The worker of a room *)

\* What the worker still sees of the invitation it works on.
HeldPending(r) == IF held[r] = current[r] THEN pending[r] ELSE <<>>
HeldLatest(r) == IF HeldPending(r) = <<>> THEN NoMessage ELSE Last(HeldPending(r))

Goto(r, pc) == worker' = [worker EXCEPT ![r] = pc]

\* The worker ends; input that is left waits for the next message.
Exit(r) == /\ Goto(r, "none")
           /\ stranded' = (stranded \/ pending'[r] # <<>>)

\* The top of the loop: stop when there is nothing to assess.
Loop(r) ==
  /\ worker[r] = "loop"
  /\ \/ /\ current[r] = 0 \/ pending[r] = <<>>
        /\ Goto(r, "none") /\ UNCHANGED held
     \/ /\ current[r] # 0 /\ pending[r] # <<>>
        /\ Goto(r, "ready") /\ held' = [held EXCEPT ![r] = current[r]]
  /\ UNCHANGED <<stateVars, inputVars, lock, latest, batch, turn, executions, stranded, closed>>

\* The initial turn is over: note the last input and wait for a quiet moment.
Wait(r) ==
  /\ worker[r] = "ready" /\ held[r] \in ready
  /\ Goto(r, "quiet") /\ latest' = [latest EXCEPT ![r] = HeldLatest(r)]
  /\ UNCHANGED <<stateVars, inputVars, lock, held, batch, turn, executions, stranded, closed>>

\* Somebody spoke meanwhile: wait again.
Quiet(r) ==
  /\ worker[r] = "quiet"
  /\ Goto(r, IF HeldLatest(r) = latest[r] THEN "lock" ELSE "loop")
  /\ UNCHANGED <<stateVars, inputVars, lock, held, latest, batch, turn, executions,
                 stranded, closed>>

\* Under the lock the snapshot is taken, if there is something to assess and the
\* decision budget allows.
Snapshot(r) ==
  /\ worker[r] = "lock" /\ lock[r] = "free"
  /\ \/ /\ HeldPending(r) = <<>>
        /\ Goto(r, "loop")
        /\ UNCHANGED <<lock, batch, stranded>>
     \/ /\ HeldPending(r) # <<>>
        /\ lock' = [lock EXCEPT ![r] = "worker"]
        /\ batch' = [batch EXCEPT ![r] =
                       IF Len(pending[r]) <= MaxBatch THEN pending[r]
                                                      ELSE SubSeq(pending[r], 1, MaxBatch)]
        /\ Goto(r, "deciding")
        /\ UNCHANGED stranded
  /\ UNCHANGED <<stateVars, inputVars, held, latest, turn, executions, closed>>

\* The decision budget of the hour is spent: the worker ends.
BudgetSpent(r) ==
  /\ worker[r] = "lock" /\ lock[r] = "free" /\ HeldPending(r) # <<>>
  /\ UNCHANGED pending /\ Exit(r)
  /\ UNCHANGED <<invited, current, ready, initial, window, accepted, cross, contributors,
                 inputVars, lock, held, latest, batch, turn, executions, closed>>

Release(r) == /\ lock' = [lock EXCEPT ![r] = "free"]
              /\ batch' = [batch EXCEPT ![r] = <<>>]

\* The model failed or answered nonsense: the input is kept and the worker ends.
DecisionFails(r) ==
  /\ worker[r] = "deciding"
  /\ Release(r)
  /\ UNCHANGED pending /\ Exit(r)
  /\ UNCHANGED <<invited, current, ready, initial, window, accepted, cross, contributors,
                 inputVars, held, latest, turn, executions, closed>>

\* Mutant: a message recalled during the decision is noticed only if the whole
\* invitation is gone.
MutIntact(r) == held[r] = current[r] /\ pending[r] # <<>>

\* The snapshot is still what is pending.
Intact(r) == /\ held[r] = current[r]
             /\ ToSet(batch[r]) \subseteq ToSet(pending[r]) \ recalled

\* Otherwise it is assessed again from the top.
Reassess(r) ==
  /\ worker[r] = "deciding" /\ ~Intact(r)
  /\ Release(r) /\ Goto(r, "loop")
  /\ UNCHANGED <<stateVars, inputVars, held, latest, turn, executions, stranded, closed>>

\* Low confidence, or a contributor who may no longer take part.
Unconvinced(r) ==
  /\ worker[r] = "deciding" /\ Intact(r)
  /\ Release(r)
  /\ UNCHANGED pending /\ Exit(r)
  /\ UNCHANGED <<invited, current, ready, initial, window, accepted, cross, contributors,
                 inputVars, held, latest, turn, executions, closed>>

Selection(r, S) == Kept(batch[r], S)

\* Mutant: accepted supplements are never evicted.
MutAccept(r, S) ==
  /\ accepted' = [accepted EXCEPT ![r] = @ \o Selection(r, S)]
  /\ cross' = [cross EXCEPT ![r] = @ /\ S \subseteq ByAdmin]
  /\ contributors' = [contributors EXCEPT ![r] = @ \cup S]

\* _accept: the oldest are evicted beyond the limit; a contributor who is not an
\* admin takes the cross-chat privilege away.
Accept(r, S) ==
  LET all == accepted[r] \o Selection(r, S)
      n   == IF Len(all) > MaxAccepted THEN MaxAccepted ELSE Len(all)
  IN  /\ accepted' = [accepted EXCEPT ![r] = SubSeq(all, Len(all) - n + 1, Len(all))]
      /\ cross' = [cross EXCEPT ![r] = @ /\ S \subseteq ByAdmin]
      /\ contributors' = [contributors EXCEPT ![r] = @ \cup S]

Remaining(r) == Without(pending[r], ToSet(batch[r]))

\* "listen" and "unrelated": the snapshot is consumed, and relevant input renews
\* the window unless it is too old for that.
Consume(r, S) ==
  /\ worker[r] = "deciding" /\ Intact(r) /\ S \subseteq ToSet(batch[r])
  /\ Accept(r, S)
  /\ pending' = [pending EXCEPT ![r] = Remaining(r)]
  /\ \/ UNCHANGED window
     \/ S # {} /\ window' = [window EXCEPT ![r] = Renewed(r)]
  /\ Release(r) /\ Goto(r, "loop")
  /\ UNCHANGED <<invited, current, ready, initial, inputVars, held, latest, turn,
                 executions, stranded, closed>>

\* Mutant: the end of the discussion is decided whatever arrived meanwhile.
MutConclude(r, S) ==
  /\ worker[r] = "deciding" /\ Intact(r) /\ S # {} /\ S \subseteq ToSet(batch[r])
  /\ Accept(r, S)
  /\ End(r)
  /\ Release(r) /\ Goto(r, "loop")
  /\ UNCHANGED <<invited, initial, window, inputVars, held, latest, turn, executions,
                 stranded, closed>>

\* "end": the invitation is over only if nothing arrived during the decision.
Conclude(r, S) ==
  /\ worker[r] = "deciding" /\ Intact(r) /\ S # {} /\ S \subseteq ToSet(batch[r])
  /\ Accept(r, S)
  /\ IF Remaining(r) = <<>>
       THEN End(r)
       ELSE /\ pending' = [pending EXCEPT ![r] = Remaining(r)]
            /\ UNCHANGED <<current, ready>>
  /\ Release(r) /\ Goto(r, "loop")
  /\ UNCHANGED <<invited, initial, window, inputVars, held, latest, turn, executions,
                 stranded, closed>>

\* Mutant: the snapshot is taken off the queue after the execution has succeeded.
MutExecute(r, S) ==
  /\ worker[r] = "deciding" /\ Intact(r) /\ S # {} /\ S \subseteq ToSet(batch[r])
  /\ Accept(r, S)
  /\ turn' = [turn EXCEPT ![r] = Selection(r, S)]
  /\ executions' = [m \in Messages |-> executions[m] + (IF m \in S THEN 1 ELSE 0)]
  /\ Goto(r, "slot")
  /\ UNCHANGED <<invited, current, ready, initial, window, pending, inputVars, lock, held,
                 latest, batch, stranded, closed>>

\* "execute": the snapshot is consumed before anything else happens; the execution
\* then waits for a slot of the model.
Execute(r, S) ==
  /\ worker[r] = "deciding" /\ Intact(r) /\ S # {} /\ S \subseteq ToSet(batch[r])
  /\ Accept(r, S)
  /\ pending' = [pending EXCEPT ![r] = Remaining(r)]
  /\ \/ UNCHANGED window
     \/ window' = [window EXCEPT ![r] = Renewed(r)]
  /\ turn' = [turn EXCEPT ![r] = Selection(r, S)]
  /\ executions' = [m \in Messages |-> executions[m] + (IF m \in S THEN 1 ELSE 0)]
  /\ batch' = [batch EXCEPT ![r] = <<>>]
  /\ Goto(r, "slot")
  /\ UNCHANGED <<invited, current, ready, initial, inputVars, lock, held, latest, stranded,
                 closed>>

RenewHeld(r) == window' = IF held[r] = current[r]
                            THEN [window EXCEPT ![r] = Renewed(r)] ELSE window

\* The slot is free: Hermes gets the turn as it was selected, unless the message
\* of its principal, the last one, has been recalled.  The messages before it and
\* the invitation are not looked at again.
HandOver(r) ==
  /\ worker[r] = "slot" /\ Last(turn[r]) \notin recalled
  /\ Goto(r, "executing")
  /\ UNCHANGED <<stateVars, inputVars, lock, held, latest, batch, turn, executions, stranded,
                 closed>>

\* The turn succeeded or failed, or was not handed over: the principal was recalled
\* or may not be received any more.  A failure is never replayed.
Executed(r) ==
  /\ worker[r] \in {"slot", "executing"}
  /\ RenewHeld(r)
  /\ turn' = [turn EXCEPT ![r] = <<>>]
  /\ Release(r) /\ Goto(r, "loop")
  /\ UNCHANGED <<invited, current, ready, initial, pending, accepted, cross, contributors,
                 inputVars, held, latest, executions, stranded, closed>>

\* Hermes cancelled the turn: the cancellation ends the worker too.
ExecutionCancelled(r) ==
  /\ worker[r] = "executing"
  /\ RenewHeld(r)
  /\ turn' = [turn EXCEPT ![r] = <<>>]
  /\ Release(r)
  /\ UNCHANGED pending /\ Exit(r)
  /\ UNCHANGED <<invited, current, ready, initial, accepted, cross, contributors, inputVars,
                 held, latest, executions, closed>>

\* close(): the workers are cancelled and joined, and every state is forgotten.
Close ==
  /\ ~closed /\ closed' = TRUE
  /\ current' = [r \in Rooms |-> 0] /\ pending' = [r \in Rooms |-> <<>>]
  /\ ready' = ready \cup ({current[r] : r \in Rooms} \ {0})
  /\ worker' = [r \in Rooms |-> "none"] /\ turn' = [r \in Rooms |-> <<>>]
  /\ batch' = [r \in Rooms |-> <<>>]
  /\ lock' = [r \in Rooms |-> IF lock[r] = "worker" THEN "free" ELSE lock[r]]
  /\ UNCHANGED <<invited, initial, window, accepted, cross, contributors, inputVars, held,
                 latest, executions, stranded>>

-----------------------------------------------------------------------------
InvitationStep(r) ==
  \/ \E byAdmin \in BOOLEAN : Invite(r, byAdmin)
  \/ TurnBegins(r) \/ Withdraw(r)
  \/ \E i \in Invitations : TurnEnds(i, r) \/ TurnCancelled(i, r) \/ Discard(i, r)
  \/ \E to \in {"idle", "over"} : WindowPasses(r, to)
  \/ \E m \in Messages : Offer(r, m)

Decision(r) == \/ DecisionFails(r) \/ Reassess(r) \/ Unconvinced(r)
               \/ \E S \in SUBSET Messages : Consume(r, S) \/ Conclude(r, S) \/ Execute(r, S)

WorkerStep(r) == \/ Loop(r) \/ Wait(r) \/ Quiet(r) \/ Snapshot(r) \/ BudgetSpent(r)
                 \/ Decision(r) \/ HandOver(r) \/ Executed(r) \/ ExecutionCancelled(r)

Next == \/ \E r \in Rooms : InvitationStep(r) \/ WorkerStep(r)
        \/ \E m \in Messages : Recall(m)
        \/ Close

Spec == Init /\ [][Next]_vars

\* Timers fire, decisions have timeouts and Hermes turns end; locks and slots are
\* granted in turn.  Nothing is assumed of members, administrators or the clock.
FairSpec ==
  /\ Spec
  /\ \A r \in Rooms :
       /\ WF_vars(Loop(r)) /\ WF_vars(Wait(r)) /\ WF_vars(Quiet(r))
       /\ SF_vars(Snapshot(r)) /\ WF_vars(Decision(r))
       /\ WF_vars(HandOver(r) \/ Executed(r) \/ ExecutionCancelled(r))
       /\ SF_vars(TurnBegins(r))
       /\ \A i \in Invitations : WF_vars(TurnEnds(i, r))

-----------------------------------------------------------------------------
(* Properties *)

\* A supplement is executed at most once, however decisions, failures and
\* cancellations fall: it is consumed before any side effect.
NeverReplayed == \A m \in Messages : executions[m] <= 1

\* The cross-chat privilege is there only if every author ever accepted was an
\* admin: neither recall nor eviction gives it back.
PrivilegeNeverReturns == \A r \in Rooms : cross[r] => contributors[r] \subseteq ByAdmin

\* A recalled supplement stays forgotten: no decision that was under way when the
\* recall came brings it back among the accepted supplements or into the queue, so
\* nothing that is assessed or executed later is shown it.
RecalledIsForgotten ==
  \A r \in Rooms : (ToSet(pending[r]) \cup ToSet(accepted[r])) \cap recalled = {}

\* A decision consumes its snapshot and nothing else: what arrived meanwhile
\* stays pending, even when the discussion is declared over.
LaterInputSurvives ==
  [][\A r \in Rooms : worker[r] = "deciding" /\ worker'[r] # "deciding" /\ ~closed'
                        => \A m \in ToSet(pending[r]) \ ToSet(batch[r]) : m \in ToSet(pending'[r])]_vars

\* Every supplement is assessed or its invitation ends, unless a worker gave up
\* or the request of the invitation was dropped from the queue of its room.
InputIsAssessed ==
  [](~stranded) => \A r \in Rooms, m \in Messages :
                     m \in ToSet(pending[r]) ~> m \notin ToSet(pending[r])

\* "New messages received during the decision are left for the next batch."
LeftForNextBatch ==
  \A r \in Rooms, m \in Messages :
    worker[r] = "deciding" /\ m \in ToSet(pending[r]) \ ToSet(batch[r])
      ~> m \notin ToSet(pending[r]) \/ m \in ToSet(batch[r])
=============================================================================
