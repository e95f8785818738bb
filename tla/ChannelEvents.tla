---------------------------- MODULE ChannelEvents ----------------------------
(***************************************************************************)
(* The events a tenant is told of while messages of one visitor come in    *)
(* over a channel: conversation.started and conversation.escalated         *)
(* (src/src/modules/channels/domain/services.py: handle, handle_stream and *)
(* emit; the session a turn joins is ConversationRepository.open_session). *)
(*                                                                         *)
(* A message is one transaction.  Its events are posted from within it, by *)
(* background tasks with one attempt each, so they may tell of a turn that *)
(* is rolled back after all.  Some endpoint is subscribed to both events;  *)
(* whether it gets them is its affair and the network's.                   *)
(***************************************************************************)
EXTENDS Naturals, FiniteSets

CONSTANTS
  Messages,       \* messages of the visitor that may overlap
  Conversations,  \* conversations there may be
  MaxEnds         \* bound: conversations an operator closes or takes over

EventAssumption == MaxEnds \in Nat

None == "none"
NoOne == "no one"
Statuses == {"none", "active", "closed", "escalated"}
EventNames == {"started", "escalated"}

VARIABLES
  status,     \* conversation -> its committed status; "none" if there is no row
  opening,    \* the message whose insert is not committed yet
  lock,       \* conversation -> the message that holds its advisory lock
  message,    \* message -> its next step and what it has found and done
  sent,       \* events posted to the tenant's endpoint, which may miss them
  ends        \* conversations ended by an operator

vars == <<status, opening, lock, message, sent, ends>>

Init ==
  /\ status \in {[c \in Conversations |-> None]} \cup
                {[c \in Conversations |-> IF c = d THEN "active" ELSE None] : d \in Conversations}
  /\ opening = NoOne
  /\ lock = [c \in Conversations |-> NoOne]
  /\ message = [m \in Messages |-> [pc |-> "look", existing |-> None, joined |-> None,
                                    made |-> FALSE, escalates |-> FALSE]]
  /\ sent = {}
  /\ ends = 0

At(m, pc) == message[m].pc = pc
Active == {c \in Conversations : status[c] = "active"}

(* find_open_session: the active conversation there is.                    *)
open_session == IF Active = {} THEN None ELSE CHOOSE c \in Active : TRUE

-----------------------------------------------------------------------------
(* Mutant: the session is looked for after the turn has opened it.         *)
Existing_After(m) == message[m].joined

(* What handle found before it ran the turn.                               *)
Existing(m) == message[m].existing

Look(m) ==
  /\ At(m, "look")
  /\ message' = [message EXCEPT ![m].existing = open_session, ![m].pc = "open"]
  /\ UNCHANGED <<status, opening, lock, sent, ends>>

Join(m, c, made) ==
  message' = [message EXCEPT ![m].joined = c, ![m].made = made, ![m].pc = "lock"]

(* open_session: the one that is open, or a new one.                       *)
Open(m) ==
  /\ At(m, "open")
  /\ IF open_session # None THEN Join(m, open_session, FALSE)
     ELSE message' = [message EXCEPT ![m].pc = "insert"]
  /\ UNCHANGED <<status, opening, lock, sent, ends>>

Unused == {c \in Conversations : status[c] = None /\ \A m \in Messages : message[m].joined # c}

(* The insert waits for another message's, and does nothing if that one    *)
(* has committed an open session.                                          *)
Insert(m) ==
  /\ At(m, "insert") /\ opening = NoOne
  /\ IF Active # {}
     THEN message' = [message EXCEPT ![m].pc = "find"] /\ UNCHANGED opening
     ELSE \E c \in Unused : Join(m, c, TRUE) /\ opening' = m
  /\ UNCHANGED <<status, lock, sent, ends>>

Find(m) ==
  /\ At(m, "find")
  /\ IF open_session # None THEN Join(m, open_session, FALSE)
     ELSE message' = [message EXCEPT ![m].pc = "failed"]
  /\ UNCHANGED <<status, opening, lock, sent, ends>>

(* lock_conversation, and the turn: it answers, hands over or raises.      *)
Lock(m) ==
  /\ At(m, "lock") /\ lock[message[m].joined] = NoOne
  /\ lock' = [lock EXCEPT ![message[m].joined] = m]
  /\ message' = [message EXCEPT ![m].pc = "turn"]
  /\ UNCHANGED <<status, opening, sent, ends>>

Turn(m) ==
  /\ At(m, "turn")
  /\ \E escalates \in BOOLEAN :
       message' = [message EXCEPT ![m].escalates = escalates, ![m].pc = "emit"]
  /\ UNCHANGED <<status, opening, lock, sent, ends>>

Escalated(m) == message[m].escalates

(* emit, for each event of the turn: one task per endpoint.                *)
Emitted(m) ==
  {[event |-> e, conversation |-> message[m].joined, by |-> m] :
     e \in {x \in EventNames : \/ x = "started" /\ Existing(m) = None
                               \/ x = "escalated" /\ Escalated(m)}}

Emit(m) ==
  /\ At(m, "emit")
  /\ sent' = sent \cup Emitted(m)
  /\ message' = [message EXCEPT ![m].pc = "commit"]
  /\ UNCHANGED <<status, opening, lock, ends>>

Release(m) ==
  /\ opening' = IF opening = m THEN NoOne ELSE opening
  /\ lock' = [c \in Conversations |-> IF lock[c] = m THEN NoOne ELSE lock[c]]

Commit(m) ==
  /\ At(m, "commit")
  /\ status' = [status EXCEPT ![message[m].joined] =
       IF message[m].escalates THEN "escalated" ELSE IF message[m].made THEN "active" ELSE @]
  /\ message' = [message EXCEPT ![m].pc = "done"]
  /\ Release(m)
  /\ UNCHANGED <<sent, ends>>

(* The turn or its commit fails: nothing it wrote is kept.                 *)
Rollback(m) ==
  /\ message[m].pc \in {"turn", "commit"}
  /\ message' = [message EXCEPT ![m].pc = "failed"]
  /\ Release(m)
  /\ UNCHANGED <<status, sent, ends>>

-----------------------------------------------------------------------------
(* close and escalate of an operator.                                      *)
End(c) ==
  /\ status[c] = "active" /\ ends < MaxEnds
  /\ \E s \in {"closed", "escalated"} : status' = [status EXCEPT ![c] = s]
  /\ ends' = ends + 1
  /\ UNCHANGED <<opening, lock, message, sent>>

Step(m) ==
  \/ Look(m) \/ Open(m) \/ Insert(m) \/ Find(m) \/ Lock(m) \/ Turn(m) \/ Emit(m)
  \/ Commit(m) \/ Rollback(m)

Finished ==
  /\ \A m \in Messages : message[m].pc \in {"done", "failed"}
  /\ UNCHANGED vars

Next ==
  \/ \E m \in Messages : Step(m)
  \/ \E c \in Conversations : End(c)
  \/ Finished

Spec == Init /\ [][Next]_vars /\ \A m \in Messages : WF_vars(Step(m))

-----------------------------------------------------------------------------
Event == [event : EventNames, conversation : Conversations, by : Messages]

TypeOK ==
  /\ status \in [Conversations -> Statuses]
  /\ opening \in Messages \cup {NoOne}
  /\ lock \in [Conversations -> Messages \cup {NoOne}]
  /\ \A m \in Messages : {message[m].existing, message[m].joined} \subseteq Conversations \cup {None}
  /\ sent \subseteq Event
  /\ ends \in 0..MaxEnds

Told(event, c) ==
  \E e \in sent : e.event = event /\ e.conversation = c

(* A conversation that a message opened is announced.  The one exception:  *)
(* the message found another one open, which ended before its turn.        *)
StartIsTold ==
  \A m \in Messages : At(m, "done") /\ message[m].made =>
    \/ Told("started", message[m].joined)
    \/ /\ message[m].existing # None
       /\ status[message[m].existing] # "active"

(* A conversation that a committed turn handed over is reported, also when *)
(* the visitor's first message did it.                                     *)
EscalationIsTold ==
  \A m \in Messages : At(m, "done") /\ message[m].escalates =>
    Told("escalated", message[m].joined)

-----------------------------------------------------------------------------
(* Why the two hold: the invariant their proof rests on.                   *)
Known == [pc : {"look", "open", "insert", "find", "lock", "turn", "emit",
                "commit", "done", "failed"},
          existing : Conversations \cup {None}, joined : Conversations \cup {None},
          made : BOOLEAN, escalates : BOOLEAN]

Types ==
  /\ status \in [Conversations -> Statuses]
  /\ message \in [Messages -> Known]

(* m has inserted a conversation and not committed it.                     *)
Pending(m) ==
  message[m].made /\ message[m].pc \in {"lock", "turn", "emit", "commit"}

(* What was found open has had a row since.                                *)
FoundHasRow ==
  \A m \in Messages : message[m].existing # None =>
    /\ message[m].existing \in Conversations
    /\ status[message[m].existing] # None

(* An uncommitted conversation is seen by nobody else.                     *)
PendingIsOwn ==
  \A m \in Messages :
    /\ message[m].pc \in {"look", "open", "insert", "find"} => ~message[m].made
    /\ message[m].made => message[m].joined \in Conversations
    /\ Pending(m) => /\ status[message[m].joined] = None
                     /\ \A n \in Messages \ {m} : message[n].joined # message[m].joined

(* A message inserts only when what it had found open is open no more.     *)
FoundHasEnded ==
  \A m \in Messages : message[m].made /\ message[m].existing # None =>
    status[message[m].existing] # "active"

EmittedIsTold ==
  \A m \in Messages : message[m].pc \in {"commit", "done"} =>
    /\ message[m].existing = None => Told("started", message[m].joined)
    /\ message[m].escalates => Told("escalated", message[m].joined)

EventInv ==
  Types /\ FoundHasRow /\ PendingIsOwn /\ FoundHasEnded /\ EmittedIsTold
=============================================================================
