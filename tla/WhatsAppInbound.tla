-------------------------- MODULE WhatsAppInbound --------------------------
(***************************************************************************)
(* Inbound WhatsApp messages: Meta delivers each message by webhook, once  *)
(* or several times; the webhook claims it by inserting its ledger row and *)
(* either answers it in the request (inline mode) or commits the claim and *)
(* hands a task to a Celery worker (redis mode)                            *)
(* (src/src/modules/channels/whatsapp, src/src/core/queue.py).             *)
(*                                                                         *)
(* A delivery carries one message.  All messages are of one contact, so    *)
(* their turns share one conversation lock.  Tasks are acknowledged late:  *)
(* the broker hands the task of a dead worker out again.  The window and   *)
(* the template rules of send() decide whether a reply goes out, which is  *)
(* a choice here.                                                          *)
(***************************************************************************)
EXTENDS Integers, FiniteSets

CONSTANTS
  Wamids,     \* the provider's ids of the messages
  Handlers,   \* webhook requests, each serving one delivery
  Workers,    \* Celery workers
  Modes,      \* the queue modes considered, a subset of AllModes
  MaxRetries, \* max_retries of process_inbound_task
  MaxFaults,  \* bound: crashes and raised errors of workers
  NoOne,      \* nobody holds the conversation's lock
  NoMessage   \* a process without a message

AllModes == {"inline", "redis"}
Procs == Handlers \cup Workers

ASSUME InboundAssumption ==
  /\ Handlers \cap Workers = {} /\ NoOne \notin Procs
  /\ NoMessage \notin Wamids
  /\ Modes \subseteq AllModes
  /\ MaxRetries \in Nat /\ MaxFaults \in Nat

VARIABLES
  mode,      \* QUEUE_MODE
  row,       \* [Wamids -> committed status of the ledger row, or "none"]
  turns,     \* [Wamids -> committed turns that the message was put to]
  replies,   \* [Wamids -> replies the contact has received]
  abandoned, \* [Wamids -> runs that ended without a commit]
  dropped,   \* messages whose task was lost: see Drop, Unrecorded, Kill
  queue,     \* the tasks the broker may hand out
  lock,      \* who holds the conversation's advisory lock
  pc,        \* [Procs -> what the process does next]
  run,       \* [Procs -> the message it works on, and its transaction]
  faults     \* crashes and raised errors so far

vars == <<mode, row, turns, replies, abandoned, dropped, queue, lock, pc,
          run, faults>>

Settled == {"processed", "failed"}

(* claimed: the row is inserted by this transaction; wrote: the status it  *)
(* has written; turned: it has run a turn; retries: of the task it runs.   *)
NoRun == [msg |-> NoMessage, claimed |-> FALSE, wrote |-> "none",
          turned |-> FALSE, retries |-> 0]

Task(p) == [msg |-> run[p].msg, retries |-> run[p].retries]

Init ==
  /\ mode \in Modes
  /\ row = [m \in Wamids |-> "none"]
  /\ turns = [m \in Wamids |-> 0]
  /\ replies = [m \in Wamids |-> 0]
  /\ abandoned = [m \in Wamids |-> 0]
  /\ dropped = {}
  /\ queue = {}
  /\ lock = NoOne
  /\ pc = [p \in Procs |-> "idle"]
  /\ run = [p \in Procs |-> NoRun]
  /\ faults = 0

ledger == <<row, turns, replies, abandoned, dropped>>

Goto(p, label) == pc' = [pc EXCEPT ![p] = label]

Unlocked(p) == IF lock = p THEN NoOne ELSE lock

-----------------------------------------------------------------------------
(* The webhook.                                                            *)

(* The unique constraint: the row is there.                                *)
Seen(m) == row[m] # "none"

(* Mutant: nothing to wait for without the constraint.                     *)
Contended_NoIndex(h, m) == FALSE

(* Another request has inserted the row and not committed.                 *)
Contended(h, m) == \E g \in Handlers \ {h} : run[g].claimed /\ run[g].msg = m

(* record_inbound: Meta delivers a message, again if it likes; its row is  *)
(* claimed, or the delivery is a duplicate and is over.                    *)
RecordInbound(h) ==
  /\ pc[h] = "idle"
  /\ \E m \in Wamids :
       /\ ~Contended(h, m)
       /\ IF Seen(m)
          THEN Goto(h, "over") /\ UNCHANGED run
          ELSE /\ Goto(h, IF mode = "inline" THEN "route" ELSE "commitClaim")
               /\ run' = [run EXCEPT ![h].msg = m, ![h].claimed = TRUE]
  /\ UNCHANGED <<mode, ledger, queue, lock, faults>>

(* _dispatch in redis mode: the claim is committed before it is enqueued.  *)
CommitClaim(h) ==
  /\ pc[h] = "commitClaim"
  /\ row' = [row EXCEPT ![run[h].msg] = "received"]
  /\ run' = [run EXCEPT ![h].claimed = FALSE]
  /\ Goto(h, "enqueue")
  /\ UNCHANGED <<mode, turns, replies, abandoned, dropped, queue, lock,
                 faults>>

(* enqueue: a broker that cannot be reached is logged and forgotten.       *)
Enqueue(h) ==
  /\ pc[h] = "enqueue"
  /\ \/ queue' = queue \cup {Task(h)}
     \/ UNCHANGED queue
  /\ Goto(h, "over")
  /\ run' = [run EXCEPT ![h] = NoRun]
  /\ UNCHANGED <<mode, ledger, lock, faults>>

(* The request dies or raises; what it has not committed is rolled back.   *)
Interrupt(h) ==
  LET m == run[h].msg IN
  /\ pc[h] \notin {"idle", "over"}
  /\ abandoned' = IF run[h].claimed
                  THEN [abandoned EXCEPT ![m] = @ + 1] ELSE abandoned
  /\ lock' = Unlocked(h)
  /\ run' = [run EXCEPT ![h] = NoRun]
  /\ Goto(h, "over")
  /\ UNCHANGED <<mode, row, turns, replies, dropped, queue, faults>>

-----------------------------------------------------------------------------
(* handle_inbound, run by a webhook or a worker.                           *)

(* Disabled channels and auto-reply off: recorded, not answered.           *)
(* Unreadable or empty messages: a fixed reply.  Else a turn.              *)
Route(p) ==
  /\ pc[p] = "route"
  /\ \/ /\ run' = [run EXCEPT ![p].wrote = "processed"]
        /\ Goto(p, "commit")
     \/ /\ \E status \in Settled :
             run' = [run EXCEPT ![p].wrote = status]
        /\ Goto(p, "send")
     \/ /\ Goto(p, "lock")
        /\ UNCHANGED run
  /\ UNCHANGED <<mode, ledger, queue, lock, faults>>

(* The turn waits for the conversation, which it keeps until it commits.   *)
Lock(p) ==
  /\ pc[p] = "lock" /\ lock = NoOne
  /\ lock' = p
  /\ Goto(p, "turn")
  /\ UNCHANGED <<mode, ledger, queue, run, faults>>

(* channels.handle answers, or raises and the message is marked FAILED.    *)
Turn(p) ==
  /\ pc[p] = "turn"
  /\ \E status \in Settled :
       /\ run' = [run EXCEPT ![p].wrote = status, ![p].turned = TRUE]
       /\ Goto(p, IF status = "processed" THEN "send" ELSE "commit")
  /\ UNCHANGED <<mode, ledger, queue, lock, faults>>

(* _reply: the provider accepts the message, or send() fails and the       *)
(* failure is recorded on the outbound row.                                *)
Send(p) ==
  /\ pc[p] = "send"
  /\ \/ replies' = [replies EXCEPT ![run[p].msg] = @ + 1]
     \/ UNCHANGED replies
  /\ Goto(p, "commit")
  /\ UNCHANGED <<mode, row, turns, abandoned, dropped, queue, lock, run,
                 faults>>

(* get_session or run_async commits.                                       *)
Commit(p) ==
  LET m == run[p].msg IN
  /\ pc[p] = "commit"
  /\ row' = [row EXCEPT ![m] = run[p].wrote]
  /\ turns' = IF run[p].turned THEN [turns EXCEPT ![m] = @ + 1] ELSE turns
  /\ lock' = Unlocked(p)
  /\ IF p \in Workers
     THEN Goto(p, "ack") /\ UNCHANGED run
     ELSE Goto(p, "over") /\ run' = [run EXCEPT ![p] = NoRun]
  /\ UNCHANGED <<mode, replies, abandoned, dropped, queue, faults>>

-----------------------------------------------------------------------------
(* The worker.                                                             *)

Take(w) ==
  /\ pc[w] = "idle"
  /\ \E task \in queue :
       /\ queue' = queue \ {task}
       /\ run' = [run EXCEPT ![w].msg = task.msg,
                             ![w].retries = task.retries]
  /\ Goto(w, "check")
  /\ UNCHANGED <<mode, ledger, lock, faults>>

(* Mutant: the task trusts that it was queued once.                        *)
Unanswered_Trusted(m) == TRUE

Unanswered(m) == row[m] = "received"

(* process_inbound: the row's status is read again.                        *)
Check(w) ==
  /\ pc[w] = "check"
  /\ Goto(w, IF Unanswered(run[w].msg) THEN "route" ELSE "ack")
  /\ UNCHANGED <<mode, ledger, queue, lock, run, faults>>

(* The connection is gone or the tenant is disabled: the row is left.      *)
Drop(w) ==
  /\ pc[w] = "check"
  /\ dropped' = dropped \cup {run[w].msg}
  /\ Goto(w, "ack")
  /\ UNCHANGED <<mode, row, turns, replies, abandoned, queue, lock, run,
                 faults>>

(* The broker forgets the task.                                            *)
Ack(w) ==
  /\ pc[w] = "ack"
  /\ run' = [run EXCEPT ![w] = NoRun]
  /\ Goto(w, "idle")
  /\ UNCHANGED <<mode, ledger, queue, lock, faults>>

InTransaction == {"check", "route", "lock", "turn", "send", "commit"}

(* What is not committed is rolled back; abandoned counts lost runs.       *)
Abandon(w) ==
  /\ faults < MaxFaults
  /\ faults' = faults + 1
  /\ abandoned' = IF pc[w] \in InTransaction
                  THEN [abandoned EXCEPT ![run[w].msg] = @ + 1]
                  ELSE abandoned
  /\ lock' = Unlocked(w)

(* process_inbound catches the soft time limit where it can, be it after   *)
(* the reply has left: the message is marked FAILED.                       *)
SoftLimit(w) ==
  /\ pc[w] \in {"route", "lock", "send"}
  /\ run' = [run EXCEPT ![w].wrote = "failed"]
  /\ \/ replies' = [replies EXCEPT ![run[w].msg] = @ + 1] /\ pc[w] = "send"
     \/ UNCHANGED replies
  /\ Goto(w, "commit")
  /\ UNCHANGED <<mode, row, turns, abandoned, dropped, queue, lock, faults>>

Retryable(w) == run[w].retries < MaxRetries

(* A database error, or a time limit that hits outside the coroutine,      *)
(* escapes: process_inbound_task retries with a new task, or after the     *)
(* last retry records the failure.                                         *)
Raise(w) ==
  LET again == [Task(w) EXCEPT !.retries = @ + 1] IN
  /\ pc[w] \in InTransaction
  /\ Abandon(w)
  /\ IF Retryable(w)
     THEN /\ queue' = queue \cup {again}
          /\ run' = [run EXCEPT ![w] = NoRun]
          /\ Goto(w, "idle")
     ELSE /\ run' = [run EXCEPT ![w] = [NoRun EXCEPT
                       !.msg = run[w].msg, !.retries = run[w].retries]]
          /\ Goto(w, "recordFailure")
          /\ UNCHANGED queue
  /\ UNCHANGED <<mode, row, turns, replies, dropped>>

(* record_inbound_failure, in a transaction of its own.                    *)
RecordFailure(w) ==
  LET m == run[w].msg IN
  /\ pc[w] = "recordFailure"
  /\ row' = IF row[m] = "received" THEN [row EXCEPT ![m] = "failed"] ELSE row
  /\ Goto(w, "ack")
  /\ UNCHANGED <<mode, turns, replies, abandoned, dropped, queue, lock, run,
                 faults>>

(* It never raises: if it fails the row stays as it is.                    *)
Unrecorded(w) ==
  /\ pc[w] = "recordFailure"
  /\ dropped' = dropped \cup {run[w].msg}
  /\ Goto(w, "ack")
  /\ UNCHANGED <<mode, row, turns, replies, abandoned, queue, lock, run,
                 faults>>

(* Mutant: the task was acknowledged when it was taken.                    *)
Redelivered_AckedEarly(w) == {}

(* task_acks_late: the broker still has the task of a worker that died.    *)
Redelivered(w) == {Task(w)}

(* The worker dies; its transaction is rolled back.                        *)
Crash(w) ==
  /\ pc[w] # "idle"
  /\ Abandon(w)
  /\ queue' = queue \cup Redelivered(w)
  /\ run' = [run EXCEPT ![w] = NoRun]
  /\ Goto(w, "idle")
  /\ UNCHANGED <<mode, row, turns, replies, dropped>>

(* The hard time limit or the kernel ends the pool process: the consumer   *)
(* lives on, takes the task for failed (task_reject_on_worker_lost is not  *)
(* set) and acknowledges it.                                               *)
Kill(w) ==
  /\ pc[w] \in InTransaction
  /\ Abandon(w)
  /\ dropped' = dropped \cup {run[w].msg}
  /\ run' = [run EXCEPT ![w] = NoRun]
  /\ Goto(w, "idle")
  /\ UNCHANGED <<mode, row, turns, replies, queue>>

-----------------------------------------------------------------------------
HandleInbound(p) == Route(p) \/ Lock(p) \/ Turn(p) \/ Send(p) \/ Commit(p)

Webhook(h) ==
  CommitClaim(h) \/ Enqueue(h) \/ HandleInbound(h)

Work(w) ==
  \/ Take(w) \/ Check(w) \/ Drop(w) \/ Ack(w) \/ HandleInbound(w)
  \/ RecordFailure(w) \/ Unrecorded(w)

(* Every delivery has been served and every task acknowledged.             *)
Finished ==
  /\ \A h \in Handlers : pc[h] = "over"
  /\ \A w \in Workers : pc[w] = "idle"
  /\ queue = {}
  /\ UNCHANGED vars

Next ==
  \/ \E h \in Handlers : RecordInbound(h) \/ Webhook(h) \/ Interrupt(h)
  \/ \E w \in Workers :
       Work(w) \/ SoftLimit(w) \/ Raise(w) \/ Crash(w) \/ Kill(w)
  \/ Finished

(* Requests and workers go on while there is work; statements and provider *)
(* calls end.  Nothing is assumed of deliveries and faults.                *)
Spec ==
  /\ Init /\ [][Next]_vars
  /\ \A h \in Handlers : WF_vars(Webhook(h))
  /\ \A w \in Workers : WF_vars(Work(w))

-----------------------------------------------------------------------------
(* Properties.                                                             *)

Run == [msg : Wamids \cup {NoMessage}, claimed : BOOLEAN,
        wrote : Settled \cup {"none"}, turned : BOOLEAN,
        retries : 0..MaxRetries]

Labels == {"idle", "commitClaim", "enqueue", "over",
           "check", "route", "lock", "turn", "send", "commit", "ack",
           "recordFailure"}

TypeOK ==
  /\ mode \in Modes
  /\ row \in [Wamids -> Settled \cup {"none", "received"}]
  /\ turns \in [Wamids -> Nat] /\ replies \in [Wamids -> Nat]
  /\ abandoned \in [Wamids -> Nat] /\ dropped \subseteq Wamids
  /\ queue \subseteq [msg : Wamids, retries : 0..MaxRetries]
  /\ lock \in Procs \cup {NoOne}
  /\ pc \in [Procs -> Labels] /\ run \in [Procs -> Run]
  /\ faults \in 0..MaxFaults

(* However often a message is delivered, and whatever fails on the way, it *)
(* is put to the agent in at most one committed turn: the conversation     *)
(* never holds a customer's message twice.                                 *)
QuestionIsStoredOnce == \A m \in Wamids : turns[m] <= 1

(* Replays are safe: a second reply to one message needs a run that died   *)
(* before it could commit; no webhook replay and no overlap causes one.    *)
RepliesRepeatOnlyAfterAFault ==
  \A m \in Wamids : replies[m] <= 1 + abandoned[m]

(* Once the ledger says that a message is dealt with, it stays so and the  *)
(* contact hears no more about it.                                         *)
SettledIsFinal ==
  [][\A m \in Wamids : row[m] \in Settled =>
       /\ row'[m] = row[m]
       /\ replies'[m] = replies[m]]_vars

(* A message whose task reached the queue ends as processed or failed,     *)
(* through crashes and retries, unless its task was dropped or killed.     *)
QueuedMessagesSettle ==
  \A m \in Wamids : (\E task \in queue : task.msg = m)
                      ~> (row[m] \in Settled \/ m \in dropped)

(* The comment on the status check: a task that comes again after its      *)
(* worker died does not become a second reply.                             *)
AtMostOneReply == \A m \in Wamids : replies[m] <= 1

(* enqueue's promise: what could not be enqueued is retried by the next    *)
(* sweep, so that a claimed message does not stay received for ever.       *)
EveryClaimSettles ==
  \A m \in Wamids : row[m] = "received"
                      ~> (row[m] \in Settled \/ m \in dropped)
=============================================================================
