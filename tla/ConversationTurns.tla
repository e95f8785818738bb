------------------------- MODULE ConversationTurns -------------------------
(***************************************************************************)
(* The turns of the conversation engine, and the operators' hand-overs,   *)
(* as concurrent transactions over one Postgres database at READ           *)
(* COMMITTED (src/src/modules/conversations).                              *)
(*                                                                         *)
(* A turn finds or opens the session of its (agent, channel, user) key,    *)
(* waits for the conversation's advisory lock, stores the user's message,  *)
(* and then either answers from code (a guardrail) or prepares a prompt    *)
(* from the history, folds what falls out of it into the summary, asks the *)
(* provider and stores the reply.  Everything is committed at once when    *)
(* the request ends.  A hand-over is an operator's close or escalate call, *)
(* which takes no advisory lock.                                           *)
(*                                                                         *)
(* A process's uncommitted writes live in tx[p]; they become visible to    *)
(* the others in Commit(p).  The text of a message is one of three         *)
(* classes, told apart by the guardrails.                                  *)
(***************************************************************************)
EXTENDS Integers, FiniteSets, FiniteSetsExt

CONSTANTS
  Turns,      \* requests that each run one turn
  Handovers,  \* operator requests that each close or escalate a conversation
  Keys,       \* session keys: (agent, channel, external_user_id)
  Convs,      \* the pool of conversation ids
  LockKeys,   \* the advisory lock space a conversation id is folded into
  LockKey,    \* the folding; it may map two conversations to one lock
  Callers,    \* how turns are run, see AllCallers
  NoOne,      \* nobody holds the lock
  NoConv,     \* no conversation
  NoKey       \* the key of a conversation id that is not in use

(* "buffered": the REST call and the console's preview.  "streamed": the   *)
(* SSE call.  "streamedWithTools": the SSE call to an agent with tools,    *)
(* which is answered from the buffered path.  "whatsapp": the webhook or   *)
(* the worker, which commits what a failed turn has written.               *)
AllCallers == {"buffered", "streamed", "streamedWithTools", "whatsapp"}

Procs == Turns \cup Handovers

ASSUME TurnsAssumption ==
  /\ Turns \cap Handovers = {}
  /\ NoOne \notin Procs
  /\ NoConv \notin Convs
  /\ NoKey \notin Keys
  /\ Callers \subseteq AllCallers
  /\ LockKey \in [Convs -> LockKeys]

Texts    == {"plain", "restricted", "trigger"}
Statuses == {"active", "escalated", "closed"}
Roles    == {"user", "reply", "decline", "handoff", "summary"}

(* "reply", "decline" and "handoff" are ASSISTANT rows: the model's answer *)
(* and the two guardrail responses.  basis: how many spoken rows the       *)
(* prompt of a "reply" was built from, 0 for the others.                   *)
Row == [seq : Nat, role : Roles, turn : Turns, basis : Nat]

Request == [key : Keys, conv : Convs \cup {NoConv}, text : Texts,
            caller : Callers]

VARIABLES
  conversation, \* [Convs -> committed conversation row]
  message,      \* [Convs -> set of committed message rows]
  advisory,     \* [LockKeys -> who holds the transaction-scoped lock]
  rowlock,      \* [Convs -> who has an uncommitted write of the row]
  pc,           \* [Procs -> what the process does next]
  request,      \* [Turns -> what the turn was asked]
  tx            \* [Procs -> the transaction's private state]

vars == <<conversation, message, advisory, rowlock, pc, request, tx>>

Unused == [key |-> NoKey, status |-> "none", summarised |-> 0]

NoRequest == [key |-> NoKey, conv |-> NoConv, text |-> "none",
              caller |-> "none"]

(* conv: the conversation the process works on; created: inserted by this  *)
(* transaction; status: the status it has written, "same" if none; rows:   *)
(* the messages it has inserted; folded: the summarised_through it has     *)
(* written, 0 if none; next: the result of next_sequence; basis, cut: the  *)
(* history read and the rows dropped from it; prepared: calls of _prepare. *)
NoTx == [conv |-> NoConv, created |-> FALSE, status |-> "same", rows |-> {},
         folded |-> 0, next |-> 0, basis |-> 0, cut |-> 0, prepared |-> 0]

Init ==
  /\ conversation = [c \in Convs |-> Unused]
  /\ message = [c \in Convs |-> {}]
  /\ advisory = [l \in LockKeys |-> NoOne]
  /\ rowlock = [c \in Convs |-> NoOne]
  /\ pc = [p \in Procs |-> "idle"]
  /\ request = [t \in Turns |-> NoRequest]
  /\ tx = [p \in Procs |-> NoTx]

-----------------------------------------------------------------------------
(* What a statement of transaction p sees: what is committed, and its own  *)
(* writes.                                                                 *)

Rows(p) == message[tx[p].conv] \cup tx[p].rows

Status(p) ==
  IF tx[p].status # "same" THEN tx[p].status
  ELSE conversation[tx[p].conv].status

(* Mutant: summarised_through is written back even when nothing was folded. *)
Summarised_Overwritten(p) == tx[p].folded

Summarised(p) ==
  IF tx[p].folded > 0 THEN tx[p].folded
  ELSE conversation[tx[p].conv].summarised

next_sequence(p) == Max({0} \cup {r.seq : r \in Rows(p)}) + 1

(* history()[:-1]: the spoken rows but the last, which is the live message. *)
Spoken(rows) == {r \in rows : r.role # "summary"}

(* Mutant: the live message is left in the history.                        *)
PromptHistory_WithLive(p) == Spoken(Rows(p))

PromptHistory(p) ==
  {r \in Spoken(Rows(p)) : \E s \in Spoken(Rows(p)) : s.seq > r.seq}

(* What trim may drop from history h: its oldest rows, never the question  *)
(* of an answer it keeps.  Which of them depends on the budget.            *)
Droppable(h) ==
  {d \in SUBSET h : \A r \in d, s \in h :
     (s.seq < r.seq \/ s.turn = r.turn) => s \in d}

(* The open sessions find_open_session can see: committed and ACTIVE.      *)
find_open_session(k) ==
  {c \in Convs : conversation[c].key = k /\ conversation[c].status = "active"}

Goto(p, label) == pc' = [pc EXCEPT ![p] = label]

-----------------------------------------------------------------------------
(* A turn, one action per statement that another process can come between. *)

(* send_message / stream_message is called.  A conversation id is given    *)
(* only by the console's preview.                                          *)
Receive(t) ==
  /\ pc[t] = "idle"
  /\ \E r \in Request :
       /\ r.conv # NoConv => r.caller = "buffered"
       /\ request' = [request EXCEPT ![t] = r]
       /\ Goto(t, IF r.conv = NoConv THEN "find" ELSE "load")
  /\ UNCHANGED <<conversation, message, advisory, rowlock, tx>>

(* The message is empty or too long, or the agent is not configured or not *)
(* serving this channel.                                                   *)
Refuse(t) ==
  /\ pc[t] = "idle"
  /\ Goto(t, "refused")
  /\ UNCHANGED <<conversation, message, advisory, rowlock, request, tx>>

(* _session_for with a conversation id.                                    *)
LoadSession(t) ==
  LET c == request[t].conv IN
  /\ pc[t] = "load"
  /\ IF conversation[c].status = "active"
     THEN /\ tx' = [tx EXCEPT ![t].conv = c]
          /\ Goto(t, "lock")
     ELSE /\ Goto(t, "rollback")
          /\ UNCHANGED tx
  /\ UNCHANGED <<conversation, message, advisory, rowlock, request>>

(* open_session, its first select.                                         *)
FindSession(t) ==
  LET open == find_open_session(request[t].key) IN
  /\ pc[t] = "find"
  /\ IF open # {}
     THEN /\ \E c \in open : tx' = [tx EXCEPT ![t].conv = c]
          /\ Goto(t, "lock")
     ELSE /\ Goto(t, "insert")
          /\ UNCHANGED tx
  /\ UNCHANGED <<conversation, message, advisory, rowlock, request>>

(* Mutant: there is no unique index of open sessions to wait on.           *)
Contended_NoIndex(t, k) == FALSE

(* A transaction that holds an entry of the unique index of open sessions  *)
(* for key k and may still roll it back: INSERT ... ON CONFLICT waits.     *)
Contended(t, k) ==
  \/ \E u \in Turns \ {t} : tx[u].created /\ request[u].key = k
  \/ \E c \in find_open_session(k) : rowlock[c] \notin {NoOne, t}

(* open_session, its INSERT ... ON CONFLICT DO NOTHING.                    *)
InsertSession(t) ==
  LET k == request[t].key IN
  /\ pc[t] = "insert"
  /\ ~Contended(t, k)
  /\ IF find_open_session(k) # {}
     THEN UNCHANGED <<tx, rowlock>>
     ELSE \E c \in Convs :
            /\ conversation[c].status = "none"
            /\ rowlock[c] = NoOne
            /\ rowlock' = [rowlock EXCEPT ![c] = t]
            /\ tx' = [tx EXCEPT ![t].conv = c, ![t].created = TRUE]
  /\ Goto(t, "reselect")
  /\ UNCHANGED <<conversation, message, advisory, request>>

(* get_session rolls a failed request back; handle_inbound swallows the    *)
(* exception and its caller commits what the turn has written.             *)
AfterError(t) ==
  IF request[t].caller = "whatsapp" THEN "commit" ELSE "rollback"

(* open_session, its second select, and the RuntimeError after it.         *)
ReselectSession(t) ==
  LET open == find_open_session(request[t].key) IN
  /\ pc[t] = "reselect"
  /\ \/ /\ tx[t].created
        /\ Goto(t, "lock")
        /\ UNCHANGED tx
     \/ /\ ~tx[t].created
        /\ \E c \in open : tx' = [tx EXCEPT ![t].conv = c]
        /\ Goto(t, "lock")
     \/ /\ ~tx[t].created /\ open = {}
        /\ Goto(t, "noSession")
        /\ UNCHANGED tx
  /\ UNCHANGED <<conversation, message, advisory, rowlock, request>>

RaiseNoSession(t) ==
  /\ pc[t] = "noSession"
  /\ Goto(t, AfterError(t))
  /\ UNCHANGED <<conversation, message, advisory, rowlock, request, tx>>

(* Mutant: the advisory lock is not taken.                                 *)
lock_conversation_NotTaken(t) ==
  /\ pc[t] = "lock"
  /\ Goto(t, "sequence")
  /\ UNCHANGED <<conversation, message, advisory, rowlock, request, tx>>

(* The blocking, transaction-scoped advisory lock.                         *)
lock_conversation(t) ==
  LET l == LockKey[tx[t].conv] IN
  /\ pc[t] = "lock"
  /\ advisory[l] = NoOne
  /\ advisory' = [advisory EXCEPT ![l] = t]
  /\ Goto(t, "sequence")
  /\ UNCHANGED <<conversation, message, rowlock, request, tx>>

(* _store of the user's message: the select of next_sequence ...           *)
ReadSequence(t) ==
  /\ pc[t] = "sequence"
  /\ tx' = [tx EXCEPT ![t].next = next_sequence(t)]
  /\ Goto(t, "store")
  /\ UNCHANGED <<conversation, message, advisory, rowlock, request>>

(* ... and the insert, with the update of last_message_at that waits for   *)
(* the conversation's row and keeps it until the end of the transaction.   *)
StoreUser(t) ==
  LET c == tx[t].conv IN
  /\ pc[t] = "store"
  /\ rowlock[c] \in {NoOne, t}
  /\ rowlock' = [rowlock EXCEPT ![c] = t]
  /\ tx' = [tx EXCEPT ![t].rows = @ \cup
       {[seq |-> tx[t].next, role |-> "user", turn |-> t, basis |-> 0]}]
  /\ Goto(t, IF request[t].text = "plain" THEN "prepare" ELSE "guardrail")
  /\ UNCHANGED <<conversation, message, advisory, request>>

(* _store of any later row of the turn, whose row lock is already held.    *)
WithRow(t, role, basis) ==
  tx[t].rows \cup
    {[seq |-> next_sequence(t), role |-> role, turn |-> t, basis |-> basis]}

(* The status _escalate leaves, having read the row again under its lock.  *)
(* Mutant: a closed conversation is left closed, an open one left open.    *)
_escalate_Skipped(t) == tx[t].status

_escalate(t) == IF Status(t) = "escalated" THEN tx[t].status ELSE "escalated"

(* The guardrail answers: a restricted topic is declined, an escalation    *)
(* trigger is answered and the conversation escalated, unless it already   *)
(* is.                                                                     *)
GuardrailAnswer(t) ==
  /\ pc[t] = "guardrail"
  /\ \/ /\ request[t].text = "restricted"
        /\ tx' = [tx EXCEPT ![t].rows = WithRow(t, "decline", 0)]
     \/ /\ request[t].text = "trigger"
        /\ tx' = [tx EXCEPT ![t].rows = WithRow(t, "handoff", 0),
                            ![t].status = _escalate(t)]
  /\ Goto(t, "commit")
  /\ UNCHANGED <<conversation, message, advisory, rowlock, request>>

(* Where a prepared turn goes: an agent with tools leaves the streamed     *)
(* path for _answer, which prepares again.                                 *)
AfterPrepare(t, prepared) ==
  IF request[t].caller = "streamedWithTools" /\ prepared = 1
  THEN "prepare" ELSE "answer"

(* _prepare: reads the history and trims it; if more rows are dropped than *)
(* the summary covers, they are folded first.                              *)
Prepare(t) ==
  /\ pc[t] = "prepare"
  /\ \E d \in Droppable(PromptHistory(t)) :
       LET n == tx[t].prepared + 1 IN
       /\ tx' = [tx EXCEPT ![t].basis = Cardinality(PromptHistory(t)),
                           ![t].cut = Cardinality(d), ![t].prepared = n]
       /\ Goto(t, IF Cardinality(d) > Summarised(t) THEN "fold"
                  ELSE AfterPrepare(t, n))
  /\ UNCHANGED <<conversation, message, advisory, rowlock, request>>

(* _fold_into_summary once the provider has answered; a provider that      *)
(* fails leaves the summary as it was.                                     *)
Fold(t) ==
  /\ pc[t] = "fold"
  /\ \/ tx' = [tx EXCEPT ![t].folded = tx[t].cut,
                         ![t].rows = WithRow(t, "summary", 0)]
     \/ UNCHANGED tx
  /\ Goto(t, AfterPrepare(t, tx[t].prepared))
  /\ UNCHANGED <<conversation, message, advisory, rowlock, request>>

(* The model's reply is stored: the whole of it, or for a stream that the  *)
(* provider or the visitor cut short, what had been written.               *)
StoreReply(t) ==
  /\ pc[t] = "answer"
  /\ tx' = [tx EXCEPT ![t].rows = WithRow(t, "reply", tx[t].basis)]
  /\ Goto(t, "commit")
  /\ UNCHANGED <<conversation, message, advisory, rowlock, request>>

(* A stream that ended before any text: nothing is stored for the reply.   *)
StreamEmpty(t) ==
  /\ pc[t] = "answer"
  /\ request[t].caller = "streamed"
  /\ Goto(t, "commit")
  /\ UNCHANGED <<conversation, message, advisory, rowlock, request, tx>>

(* _answer: an LLMError becomes PROVIDER_UNAVAILABLE.                      *)
ProviderFails(t) ==
  /\ pc[t] = "answer"
  /\ request[t].caller # "streamed"
  /\ Goto(t, AfterError(t))
  /\ UNCHANGED <<conversation, message, advisory, rowlock, request, tx>>

-----------------------------------------------------------------------------
(* An operator's close or escalate.                                        *)

(* get(), and the early return when there is nothing to do.                *)
ReadConversation(o) ==
  /\ pc[o] = "idle"
  /\ \E c \in Convs, s \in {"closed", "escalated"} :
       /\ conversation[c].status # "none"
       /\ IF conversation[c].status = s
          THEN /\ Goto(o, "commit")
               /\ UNCHANGED tx
          ELSE /\ Goto(o, "update")
               /\ tx' = [tx EXCEPT ![o].conv = c, ![o].status = s]
  /\ UNCHANGED <<conversation, message, advisory, rowlock, request>>

(* The UPDATE, which waits for the row and does not read it again.         *)
UpdateStatus(o) ==
  LET c == tx[o].conv IN
  /\ pc[o] = "update"
  /\ rowlock[c] = NoOne
  /\ rowlock' = [rowlock EXCEPT ![c] = o]
  /\ Goto(o, "commit")
  /\ UNCHANGED <<conversation, message, advisory, request, tx>>

-----------------------------------------------------------------------------
(* The end of a transaction.                                               *)

(* Mutant: a session-scoped advisory lock outlives the transaction.        *)
ReleaseLocks_RowsOnly(p) ==
  /\ rowlock' = [c \in Convs |-> IF rowlock[c] = p THEN NoOne
                                 ELSE rowlock[c]]
  /\ UNCHANGED advisory

ReleaseLocks(p) ==
  /\ advisory' = [l \in LockKeys |-> IF advisory[l] = p THEN NoOne
                                     ELSE advisory[l]]
  /\ rowlock' = [c \in Convs |-> IF rowlock[c] = p THEN NoOne
                                 ELSE rowlock[c]]

Forget(p) ==
  /\ tx' = [tx EXCEPT ![p] = NoTx]
  /\ request' = [t \in Turns |-> IF t = p THEN NoRequest ELSE request[t]]

(* The conversation row as the commit of p leaves it.                      *)
Committed(p) ==
  LET c == tx[p].conv IN
  [key        |-> IF tx[p].created THEN request[p].key
                  ELSE conversation[c].key,
   status     |-> IF tx[p].status = "same" /\ tx[p].created THEN "active"
                  ELSE Status(p),
   summarised |-> Summarised(p)]

Commit(p) ==
  LET c == tx[p].conv IN
  /\ pc[p] = "commit"
  /\ IF c = NoConv
     THEN UNCHANGED <<conversation, message>>
     ELSE /\ conversation' = [conversation EXCEPT ![c] = Committed(p)]
          /\ message' = [message EXCEPT ![c] = Rows(p)]
  /\ ReleaseLocks(p)
  /\ Forget(p)
  /\ Goto(p, "done")

Rollback(p) ==
  /\ pc[p] = "rollback"
  /\ ReleaseLocks(p)
  /\ Forget(p)
  /\ Goto(p, "failed")
  /\ UNCHANGED <<conversation, message>>

Over == {"done", "failed", "refused"}

(* The worker process or its connection dies: Postgres rolls back.         *)
Crash(p) ==
  /\ pc[p] \notin Over \cup {"idle"}
  /\ ReleaseLocks(p)
  /\ Forget(p)
  /\ Goto(p, "failed")
  /\ UNCHANGED <<conversation, message>>

-----------------------------------------------------------------------------
(* Every step of a turn that the server takes by itself.                   *)
Progress(t) ==
  \/ LoadSession(t) \/ FindSession(t) \/ InsertSession(t)
  \/ ReselectSession(t) \/ RaiseNoSession(t)
  \/ lock_conversation(t) \/ ReadSequence(t) \/ StoreUser(t)
  \/ GuardrailAnswer(t) \/ Prepare(t) \/ Fold(t)
  \/ StoreReply(t) \/ StreamEmpty(t) \/ ProviderFails(t)
  \/ Commit(t) \/ Rollback(t)

Handover(o) == UpdateStatus(o) \/ Commit(o)

(* Everybody has finished.                                                 *)
Finished ==
  /\ \A t \in Turns : pc[t] \in Over
  /\ UNCHANGED vars

Next ==
  \/ \E t \in Turns : Receive(t) \/ Refuse(t) \/ Progress(t)
  \/ \E o \in Handovers : ReadConversation(o) \/ Handover(o)
  \/ \E p \in Procs : Crash(p)
  \/ Finished

(* A started request is driven to its end: statements return, waits end    *)
(* when the lock is free, and every provider call has a timeout.  Nothing  *)
(* is assumed of arrivals and crashes.                                     *)
Spec ==
  /\ Init /\ [][Next]_vars
  /\ \A t \in Turns : WF_vars(Progress(t))
  /\ \A o \in Handovers : WF_vars(Handover(o))

-----------------------------------------------------------------------------
(* Properties.                                                             *)

ConversationRow ==
  [key : Keys \cup {NoKey}, status : Statuses \cup {"none"},
   summarised : Nat]

Tx == [conv : Convs \cup {NoConv}, created : BOOLEAN,
       status : {"same", "escalated", "closed"}, rows : SUBSET Row,
       folded : Nat, next : Nat, basis : Nat, cut : Nat, prepared : Nat]

Labels == {"idle", "load", "find", "insert", "reselect", "noSession", "lock",
           "sequence", "store", "guardrail", "prepare", "fold", "answer",
           "update", "commit", "rollback"} \cup Over

(* Every row, lock and private state is of the declared kind; in           *)
(* particular no row is ever committed with a status the enum lacks.       *)
TypeOK ==
  /\ conversation \in [Convs -> ConversationRow]
  /\ message \in [Convs -> SUBSET Row]
  /\ advisory \in [LockKeys -> Turns \cup {NoOne}]
  /\ rowlock \in [Convs -> Procs \cup {NoOne}]
  /\ pc \in [Procs -> Labels]
  /\ request \in [Turns -> Request \cup {NoRequest}]
  /\ tx \in [Procs -> Tx]

(* The sequences of rows are 1, 2, ..., n, each taken once.                *)
Numbered(rows) ==
  /\ \A r, s \in rows : r.seq = s.seq => r = s
  /\ \E n \in 0..Cardinality(rows) : {r.seq : r \in rows} = 1..n

(* uq_conversation_open_session and open_session: however first messages   *)
(* race, a visitor never has two open sessions for one key.                *)
OneOpenSession ==
  \A k \in Keys : \A c, d \in find_open_session(k) : c = d

(* next_sequence under the lock: the rows of a conversation are numbered   *)
(* 1, 2, 3, ... and the unique constraint is never what stops a turn.      *)
SequencesInOrder == \A c \in Convs : Numbered(message[c])

(* What locking.py is for: a transcript is a sequence of whole turns, with *)
(* no row of one turn between two rows of another, and each turn opens     *)
(* with the message it answers.                                            *)
WholeTurns ==
  \A c \in Convs : \A r, s \in message[c] :
    r.turn = s.turn /\ r.seq <= s.seq =>
      /\ \A m \in message[c] :
           r.seq <= m.seq /\ m.seq <= s.seq => m.turn = r.turn
      /\ \E m \in message[c] :
           m.turn = r.turn /\ m.role = "user" /\ m.seq <= r.seq

(* A reply was built from the history as it stands in the transcript: all  *)
(* that was said before the message it answers, and nothing else.          *)
RepliesFromWholeHistory ==
  \A c \in Convs : \A r, u \in message[c] :
    r.role = "reply" /\ u.role = "user" /\ u.turn = r.turn =>
      r.basis = Cardinality({m \in Spoken(message[c]) : m.seq < u.seq})

(* A visitor who was told a person will take over is in a conversation     *)
(* that is not open to the agent any more, whatever an operator did in     *)
(* the meantime.                                                           *)
HandoffIsKept ==
  \A c \in Convs :
    (\E r \in message[c] : r.role = "handoff")
      => conversation[c].status \in {"escalated", "closed"}

(* A session that has ended is never reopened, and the part of the history *)
(* the summary covers never shrinks, nor exceeds what has been said.       *)
SessionsOnlyAdvance ==
  [][\A c \in Convs :
       /\ conversation[c].status \notin {"none", "active"}
            => conversation'[c].status \notin {"none", "active"}
       /\ conversation'[c].summarised >= conversation[c].summarised
       /\ conversation'[c].summarised <= Cardinality(Spoken(message'[c]))]_vars

(* Every request that the server has accepted is answered or fails: no     *)
(* turn waits for ever on a session, a lock or another turn.               *)
EveryTurnEnds ==
  \A t \in Turns : pc[t] \in {"find", "load"} ~> pc[t] \in Over

(* The committed transcripts are those of turns run one after another.     *)
Serial == INSTANCE SerialTurns WITH conversation <- conversation, message <- message
TurnsAreSerial == Serial!Spec

(* find_open_session's promise, and escalate's: nothing the agent says is  *)
(* added to a conversation that is already closed or a human's.            *)
NoReplyAfterTheEnd ==
  [][\A c \in Convs :
       conversation[c].status \in {"escalated", "closed"} =>
         \A r \in message'[c] \ message[c] : r.role # "reply"]_vars

-----------------------------------------------------------------------------
(* The inductive invariant behind the proofs (ConversationTurns_proofs).   *)

(* A turn that has its conversation's lock and has not ended.              *)
Writing == {"sequence", "store", "guardrail", "prepare", "fold", "answer"}
InTurn(t) ==
  \/ pc[t] \in Writing
  \/ pc[t] = "commit" /\ tx[t].conv # NoConv

(* Only turns insert rows and sessions, and rows are finitely many.        *)
TypeInv ==
  /\ TypeOK
  /\ \A c \in Convs : IsFiniteSet(message[c])
  /\ \A p \in Procs : IsFiniteSet(tx[p].rows)
  /\ \A o \in Handovers : tx[o].rows = {} /\ ~tx[o].created

(* What a turn has by the time it is where it is: nothing before it has    *)
(* found its conversation, and the conversation's lock when it writes.     *)
Placed(t) ==
  /\ InTurn(t) => /\ tx[t].conv \in Convs
                  /\ advisory[LockKey[tx[t].conv]] = t
  /\ pc[t] = "lock" => tx[t].conv \in Convs
  /\ pc[t] \in {"idle", "load", "find", "insert", "noSession"} \cup Over
       => tx[t] = NoTx
  /\ pc[t] = "reselect" /\ ~tx[t].created => tx[t] = NoTx
  /\ pc[t] \in {"reselect", "lock", "sequence", "store"} => tx[t].rows = {}
  /\ pc[t] = "load" => request[t].conv \in Convs
  /\ pc[t] \notin {"idle"} \cup Over => request[t] \in Request

(* Rows are written by the turn that holds the conversation's lock.        *)
LockInv == \A t \in Turns : Placed(t)

(* The numbering is right with and without a turn's uncommitted rows.      *)
SequenceInv ==
  /\ SequencesInOrder
  /\ \A t \in Turns :
       /\ InTurn(t) => Numbered(Rows(t))
       /\ pc[t] = "store" => tx[t].next = next_sequence(t)

(* An uncommitted session is the only one of its key, and nobody else      *)
(* works on it.                                                            *)
Creating(t) ==
  /\ tx[t].conv \in Convs
  /\ rowlock[tx[t].conv] = t
  /\ conversation[tx[t].conv].status = "none"
  /\ request[t] \in Request
  /\ find_open_session(request[t].key) = {}
  /\ \A u \in Turns \ {t} :
       tx[u].created => request[u].key # request[t].key

SessionInv ==
  /\ OneOpenSession
  /\ \A p \in Procs :
       tx[p].conv \in Convs /\ ~tx[p].created
         => conversation[tx[p].conv].status # "none"
  /\ \A t \in Turns : tx[t].created => Creating(t)

IInv == TypeInv /\ LockInv /\ SequenceInv /\ SessionInv

=============================================================================
