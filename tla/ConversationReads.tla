--------------------------- MODULE ConversationReads ---------------------------
(***************************************************************************)
(* The reads of a conversation that end in something the model is shown:   *)
(* the context of an addressed turn, with the message it quotes            *)
(* (group_chat.py, group_adapter.py), the tools for recent messages, and   *)
(* the reads below a verified message, such as a forwarded record          *)
(* (history.py, adapter.py).  They wait for NapCat, and recalls arrive     *)
(* meanwhile.  One fetch of history serves all who want it.  Whether one   *)
(* is due (the cooldown, the state of the transport) and whether the read  *)
(* budget allows a call are left open.                                     *)
(***************************************************************************)
EXTENDS RoomContext

CONSTANTS
  Turns,        \* addressed turns
  Current,      \* message that each turn answers
  Tools,        \* calls of qq_get_recent_messages
  Expansions,   \* reads below a verified message
  None,
  Limit,        \* history_limit
  MaxNodes,     \* max_forward_nodes, of calls for nested content
  PageSize,     \* bound: messages of a page
  MaxReads      \* bound: readers of one behaviour

Readers == Turns \cup Tools \cup Expansions

ASSUME ReadsAssumption ==
  /\ {Limit, PageSize, MaxNodes, MaxReads} \subseteq Nat \ {0}
  /\ Current \in [Turns -> Messages] /\ None \notin Messages

VARIABLES
  fetching,  \* a task of _fetches is running
  pc,        \* of each reader
  about,     \* the quoted message, the anchor, the verified message
  quote,     \* the record of a quoted message in hand
  calls,     \* calls made for nested content
  shown      \* messages that the last step showed to the model

readVars == <<fetching, pc, about, quote, calls>>
conversationVars == <<contextVars, readVars, shown>>

ReadsInit ==
  /\ ContextInit
  /\ fetching = FALSE
  /\ pc = [r \in Readers |-> "idle"]
  /\ about = [r \in Readers |-> None] /\ quote = [r \in Readers |-> None]
  /\ calls = [r \in Readers |-> 0]
  /\ shown = {}

-----------------------------------------------------------------------------
Goto(r, to) == pc' = [pc EXCEPT ![r] = to]
Keep == UNCHANGED <<fetching, about, quote, calls>>

MayBegin(r) == pc[r] = "idle" /\ Cardinality({s \in Readers : pc[s] # "idle"}) < MaxReads

\* A reader ends; its locals are gone.
End(r, what) ==
  /\ Goto(r, "over")
  /\ about' = [about EXCEPT ![r] = None] /\ quote' = [quote EXCEPT ![r] = None]
  /\ calls' = [calls EXCEPT ![r] = 0]
  /\ shown' = what
  /\ UNCHANGED fetching

\* NapCat answers with any messages of the group that were sent, in any order, the
\* recalled ones included; or the call fails or times out.
Sent == {m \in Messages : sent[m] # 0}
Pages == UNION {{s \in [1..n -> Sent] : IsInjective(s)} : n \in 0..PageSize}

\* The answer of get_group_msg_history is applied as a whole, or not at all.
PageArrives == (\E page \in Pages : Backfill(page)) \/ UNCHANGED contextVars

-----------------------------------------------------------------------------
(* ensure_history() *)

\* A running fetch is joined; else one is started if it is due.
EnsureHistory(r, next) ==
  \/ fetching' = TRUE /\ Goto(r, "joined")
  \/ ~fetching /\ Goto(r, next) /\ UNCHANGED fetching

\* The shared task ends, whoever still waits for it.
FetchEnds ==
  /\ fetching /\ fetching' = FALSE
  /\ PageArrives
  /\ UNCHANGED <<pc, about, quote, calls>>

\* A waiter goes on after the task has ended.
Joined(r) ==
  /\ pc[r] = "joined" /\ ~fetching
  /\ Goto(r, IF r \in Turns THEN "late" ELSE "return")
  /\ Keep /\ UNCHANGED contextVars

-----------------------------------------------------------------------------
(* An addressed turn, which may quote a message *)

\* Whether the turn is addressed to the bot may depend on the quote, which is then
\* looked up before the lock of the room, and otherwise after it.
BeginTurn(t) ==
  /\ MayBegin(t) /\ Contains(room, Current[t])
  /\ \E q \in (Sent \ {Current[t]}) \cup {None} : about' = [about EXCEPT ![t] = q]
  /\ \E to \in {"early", "history"} : Goto(t, to)
  /\ UNCHANGED <<contextVars, fetching, quote, calls>>

After(t) == IF pc[t] \in {"early", "asked"} THEN "history" ELSE "attach"

\* _quote(): nothing to quote, a retained message, or a question to NapCat.
Quote(t) ==
  /\ pc[t] \in {"early", "late"}
  /\ \/ /\ about[t] = None \/ quote[t] # None \/ IsRecalled(about[t])
        /\ Goto(t, After(t)) /\ UNCHANGED quote
     \/ /\ about[t] # None /\ quote[t] = None /\ Known(about[t])
        /\ Goto(t, After(t)) /\ quote' = [quote EXCEPT ![t] = about[t]]
     \/ /\ about[t] # None /\ quote[t] = None
        /\ ~IsRecalled(about[t]) /\ ~Known(about[t])
        /\ Goto(t, IF pc[t] = "early" THEN "asked" ELSE "asked late") /\ UNCHANGED quote
  /\ UNCHANGED <<contextVars, fetching, about, calls>>

\* The answer of get_msg: the record is returned even if put() refused it.
QuoteAnswered(t) ==
  /\ pc[t] \in {"asked", "asked late"}
  /\ Goto(t, After(t))
  /\ \/ Backfill(<<about[t]>>) /\ quote' = [quote EXCEPT ![t] = about[t]]
     \/ UNCHANGED <<contextVars, quote>>
  /\ UNCHANGED <<fetching, about, calls>>

TurnHistory(t) ==
  /\ pc[t] = "history"
  /\ EnsureHistory(t, "late")
  /\ UNCHANGED <<contextVars, about, quote, calls>>

\* Mutant: the quote in hand is not looked at again.
MutQuoted(t) == {quote[t]} \ {None}

\* _dispatch_group(): after the attachments were awaited, both messages are looked at
\* again and the context is rendered again: the rows up to the current message, the
\* quote in place of the oldest of them.
Quoted(t) == IF quote[t] # None /\ ~IsRecalled(quote[t]) THEN {quote[t]} ELSE {}

Rows(t) ==
  LET upTo == Kept(Pruned(room), {m \in Messages \ {Current[t]} : sent[m] <= sent[Current[t]]})
      rest == Kept(Newest(upTo, Limit), Messages \ Quoted(t))
  IN  ToSet(Newest(rest, Limit - Cardinality(Quoted(t)))) \cup Quoted(t)

Dispatch(t) ==
  /\ pc[t] = "attach"
  /\ End(t, IF IsRecalled(Current[t]) THEN {} ELSE Rows(t) \cup {Current[t]})
  /\ UNCHANGED contextVars

-----------------------------------------------------------------------------
(* recent_messages() *)

\* With an anchor, which must be retained, a page is fetched for this call alone.
Ask(q) ==
  /\ MayBegin(q)
  /\ \/ EnsureHistory(q, "return") /\ UNCHANGED about
     \/ \E m \in Sent : /\ Known(m)
                        /\ about' = [about EXCEPT ![q] = m]
                        /\ Goto(q, "page") /\ UNCHANGED fetching
  /\ UNCHANGED <<contextVars, quote, calls>>

OwnPage(q) ==
  /\ pc[q] = "page"
  /\ PageArrives
  /\ Goto(q, "return") /\ Keep

\* The anchor must still be there; what stands before it is returned.
Before(m, rows) == SubSeq(rows, 1, SelectInSeq(rows, LAMBDA k : k = m) - 1)

Return(q) ==
  /\ pc[q] = "return"
  /\ LET rows == IF about[q] = None THEN Pruned(room) ELSE Before(about[q], Pruned(room))
     IN  End(q, ToSet(Newest(rows, Limit)))
  /\ UNCHANGED contextVars

-----------------------------------------------------------------------------
(* verified_message() and expand_forward() *)

Verify(e) ==
  /\ MayBegin(e)
  /\ \E m \in Sent : ~IsRecalled(m) /\ about' = [about EXCEPT ![e] = m]
  /\ Goto(e, "nested")
  /\ UNCHANGED <<contextVars, fetching, quote, calls>>

\* check_parent(), before and after each call.
Readable(e) == ~IsRecalled(about[e]) /\ Recent(about[e])

\* An answer names more content to ask for, within the budget, ...
Nested(e) ==
  /\ pc[e] = "nested" /\ calls[e] < MaxNodes
  /\ Readable(e)
  /\ calls' = [calls EXCEPT ![e] = @ + 1]
  /\ UNCHANGED <<contextVars, fetching, pc, about, quote>>

\* ... or was the last one.
Expanded(e) ==
  /\ pc[e] = "nested"
  /\ End(e, IF Readable(e) THEN {about[e]} ELSE {})
  /\ UNCHANGED contextVars

-----------------------------------------------------------------------------
\* A reader is cancelled or its call fails; a shared fetch goes on.
Cancelled(r) ==
  /\ pc[r] \notin {"idle", "over"}
  /\ End(r, {})
  /\ UNCHANGED contextVars

Quiet == \/ ContextNext /\ UNCHANGED readVars
         \/ FetchEnds
         \/ \E t \in Turns : BeginTurn(t) \/ Quote(t) \/ QuoteAnswered(t) \/ TurnHistory(t)
         \/ \E q \in Tools : Ask(q) \/ OwnPage(q)
         \/ \E e \in Expansions : Verify(e) \/ Nested(e)
         \/ \E r \in Turns \cup Tools : Joined(r)

ReadsNext == \/ Quiet /\ shown' = {}
             \/ \E t \in Turns : Dispatch(t)
             \/ \E q \in Tools : Return(q)
             \/ \E e \in Expansions : Expanded(e)
             \/ \E r \in Readers : Cancelled(r)

ReadsSpec == ReadsInit /\ [][ReadsNext]_conversationVars

-----------------------------------------------------------------------------
(* Properties *)

States == {"idle", "early", "asked", "history", "joined", "late", "asked late", "attach",
           "page", "return", "nested", "over"}

ReadsTypeOK ==
  /\ ContextTypeOK
  /\ fetching \in BOOLEAN
  /\ pc \in [Readers -> States]
  /\ about \in [Readers -> Messages \cup {None}] /\ quote \in [Readers -> Messages \cup {None}]
  /\ calls \in [Readers -> 0..MaxNodes]
  /\ shown \subseteq Messages

\* Nothing that was recalled is shown to the model afterwards, though the recall came
\* while the reader waited for a page, for the message it quotes, for nested content
\* or for an attachment, and though a page that was asked for earlier brings it back.
NothingRecalledShown == \A m \in shown : ~InForce(m)
=============================================================================
