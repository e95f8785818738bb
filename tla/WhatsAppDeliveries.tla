-------------------------- MODULE WhatsAppDeliveries --------------------------
(***************************************************************************)
(* What one POST of Meta brings, answered in the request (inline mode):    *)
(* several messages of several contacts and receipts, in one transaction   *)
(* (src/src/modules/channels/whatsapp: receive_webhook, the parsing of     *)
(* MetaCloudProvider, receive, _dispatch and handle_inbound).              *)
(*                                                                         *)
(* The transaction collects what it holds in the order of the payload: the *)
(* unique keys of the messages it claims, the rows it applies receipts to, *)
(* and the advisory locks of the contacts' conversations.  In redis mode   *)
(* every claim is answered in a transaction of its own: WhatsAppInbound.   *)
(* Meta sends what was not answered 200 again, and more than once.         *)
(***************************************************************************)
EXTENDS Naturals, Sequences, FiniteSets

CONSTANTS
  Hooks,     \* webhook requests that may overlap
  Wamids,    \* the provider's ids of messages
  Contacts,  \* who writes
  Bodies,    \* payloads Meta may send
  MaxPosts   \* bound: deliveries

(* The messages of a payload, which are a list.                            *)
Raws(body) == {body.messages[i] : i \in DOMAIN body.messages}
DeliveryAssumption == \A body \in Bodies : body.messages \in Seq(Raws(body))

VARIABLES
  channel,  \* the connection: "answers", "records" only, "disabled", "gone"
  row,      \* wamid -> committed status of its row, or "none"
  turns,    \* wamid -> committed turns it was put to
  replies,  \* wamid -> replies its contact has received
  lost,     \* wamid -> transactions rolled back after they had claimed it
  hook,     \* request -> the delivery it serves and its transaction
  posts     \* deliveries so far

vars == <<channel, row, turns, replies, lost, hook, posts>>

Settled == {"processed", "failed"}

(* claims, receipts: what is still to be claimed and applied; mine: the    *)
(* messages claimed; wrote: outcomes so far, by wamid; turned: messages    *)
(* put to a turn; rows, locks: the receipts' rows and the contacts held.   *)
Over(how) ==
  [pc |-> how, claims |-> <<>>, receipts |-> <<>>, mine |-> <<>>,
   wrote |-> <<>>, turned |-> {}, rows |-> {}, locks |-> {}]

Init ==
  /\ channel \in {"answers", "records", "disabled", "gone"}
  /\ row = [m \in Wamids |-> "none"]
  /\ turns = [m \in Wamids |-> 0]
  /\ replies = [m \in Wamids |-> 0]
  /\ lost = [m \in Wamids |-> 0]
  /\ hook = [h \in Hooks |-> Over("idle")]
  /\ posts = 0

ledger == <<row, turns, replies, lost>>
At(h, pc) == hook[h].pc = pc

-----------------------------------------------------------------------------
(* _message: what is understood of a message.                              *)
Kind(raw) ==
  CASE raw.type = "text" -> raw.content
    [] raw.type \in {"image", "document", "audio", "video"} /\ raw.content = "media" ->
         raw.type
    [] OTHER -> "unsupported"

(* InboundMessage; one without an id or a sender is no message.            *)
Message(raw) == [id |-> raw.id, from |-> raw.from, kind |-> Kind(raw)]
IsMessage(raw) == raw.id \in Wamids /\ raw.from \in Contacts

(* parse_webhook: the messages in their order; nothing raises.             *)
Parsed(raws) ==
  LET parsed[n \in 0..Len(raws)] ==
        IF n = 0 THEN <<>>
        ELSE IF IsMessage(raws[n]) THEN Append(parsed[n - 1], Message(raws[n]))
        ELSE parsed[n - 1]
  IN parsed[Len(raws)]

(* get_webhook_connection: 404 and 409.                                    *)
Connected == channel \notin {"gone", "disabled"}

(* verify_signature; the number must be the connection's, if it is named.  *)
Signed(body) == body.signed
Addressed(body) == body.readable => body.to # "another"

(* 403.                                                                    *)
Refused(body) == ~Signed(body) \/ ~Addressed(body)

(* receive_webhook: a signed body that is no JSON is answered 200.         *)
Post(h) ==
  /\ hook[h].pc \in {"idle", "answered", "refused", "error"}
  /\ posts < MaxPosts /\ posts' = posts + 1
  /\ \E body \in Bodies :
       hook' = [hook EXCEPT ![h] =
         IF ~Connected \/ Refused(body) THEN Over("refused")
         ELSE IF ~body.readable THEN Over("answered")
         ELSE [Over("receive") EXCEPT !.claims = Parsed(body.messages),
                                      !.receipts = body.statuses]]
  /\ UNCHANGED <<channel, ledger>>

-----------------------------------------------------------------------------
Claims(h) == {hook[h].mine[i].id : i \in DOMAIN hook[h].mine}

(* Mutant: the constraint is looked up among committed rows only.          *)
Claimed_Committed(h, m) == row[m] # "none"

(* The unique key is there, committed or inserted by this transaction.     *)
Claimed(h, m) == row[m] # "none" \/ m \in Claims(h)

(* record_inbound, in a savepoint: the row is inserted, or it is a         *)
(* duplicate, which costs the rest of the delivery nothing.                *)
RecordInbound(h) ==
  LET message == Head(hook[h].claims)
  IN /\ At(h, "receive") /\ hook[h].claims # <<>>
     /\ \A g \in Hooks \ {h} : message.id \notin Claims(g)
     /\ hook' = [hook EXCEPT ![h].claims = Tail(@),
                   ![h].mine = IF Claimed(h, message.id) THEN @
                               ELSE Append(@, message)]
     /\ UNCHANGED <<channel, ledger, posts>>

(* apply_status: the UPDATE of the row the receipt is for.                 *)
ApplyStatus(h) ==
  LET of == Head(hook[h].receipts)
  IN /\ At(h, "receive") /\ hook[h].claims = <<>> /\ hook[h].receipts # <<>>
     /\ \A g \in Hooks \ {h} : of \notin hook[g].rows
     /\ hook' = [hook EXCEPT ![h].receipts = Tail(@), ![h].rows = @ \cup {of}]
     /\ UNCHANGED <<channel, ledger, posts>>

(* The message whose turn it is: the first claimed one without an outcome. *)
Current(h) == hook[h].mine[Cardinality(DOMAIN hook[h].wrote) + 1]
AllAnswered(h) == Cardinality(DOMAIN hook[h].wrote) = Len(hook[h].mine)

Marked(w, m, status) ==
  [x \in DOMAIN w.wrote \cup {m.id} |-> IF x = m.id THEN status ELSE w.wrote[x]]

(* _dispatch: what was claimed is answered one after the other.            *)
Dispatch(h) ==
  /\ At(h, "receive") /\ hook[h].claims = <<>> /\ hook[h].receipts = <<>>
  /\ hook' = [hook EXCEPT ![h].pc = IF AllAnswered(h) THEN "commit" ELSE "answer"]
  /\ UNCHANGED <<channel, ledger, posts>>

(* What becomes of a file, from the two calls for it to the extraction of  *)
(* its text: the text, a WhatsAppError or a ValidationException, or, when  *)
(* the download breaks off, an error of the HTTP client, which             *)
(* handle_inbound does not catch.                                          *)
Fetched == {"words", "unreadable", "raises"}

(* _readable: text as it is; audio, video and the rest cannot be read.     *)
Readable(kind) ==
  CASE kind \in {"words", "blank"} -> {kind}
    [] kind \in {"image", "document"} -> Fetched
    [] OTHER -> {"unreadable"}

After(h, w) == IF Cardinality(DOMAIN w.wrote) = Len(hook[h].mine) THEN "commit" ELSE "answer"

(* A message ends with a status and goes to the next, or to a fixed reply. *)
Settle(h, status, replying) ==
  LET w == [hook[h] EXCEPT !.wrote = Marked(hook[h], Current(h), status)]
  IN [w EXCEPT !.pc = IF replying THEN "reply" ELSE After(h, w)]

(* get_session rolls back what the request did, claims of other messages   *)
(* and their turns with it, though their replies have left; it answers 500.*)
Rollback(h) ==
  /\ lost' = [m \in Wamids |-> lost[m] + IF m \in Claims(h) THEN 1 ELSE 0]
  /\ hook' = [hook EXCEPT ![h] = Over("error")]
  /\ UNCHANGED <<channel, row, turns, replies, posts>>

(* handle_inbound up to the turn: auto-reply off, _readable, empty texts.  *)
HandleInbound(h) ==
  /\ At(h, "answer")
  /\ IF channel = "records"
     THEN /\ hook' = [hook EXCEPT ![h] = Settle(h, "processed", FALSE)]
          /\ UNCHANGED <<channel, ledger, posts>>
     ELSE \E read \in Readable(Current(h).kind) :
            IF read = "raises" THEN Rollback(h)
            ELSE /\ hook' = [hook EXCEPT ![h] =
                      CASE read = "words" -> [@ EXCEPT !.pc = "lock"]
                        [] read = "blank" -> Settle(h, "processed", TRUE)
                        [] OTHER -> Settle(h, "failed", TRUE)]
                 /\ UNCHANGED <<channel, ledger, posts>>

(* channels.handle: the turn waits for the contact's conversation, and the *)
(* lock stays with the delivery until it is over.                          *)
Lock(h) ==
  LET contact == Current(h).from
  IN /\ At(h, "lock")
     /\ \A g \in Hooks \ {h} : contact \notin hook[g].locks
     /\ hook' = [hook EXCEPT ![h].pc = "turn", ![h].locks = @ \cup {contact}]
     /\ UNCHANGED <<channel, ledger, posts>>

(* It answers, or fails short of the database and is marked FAILED.        *)
Turn(h) ==
  /\ At(h, "turn")
  /\ \E status \in Settled :
       hook' = [hook EXCEPT ![h] =
         [Settle(h, status, status = "processed") EXCEPT !.turned = @ \cup {Current(h).id}]]
  /\ UNCHANGED <<channel, ledger, posts>>

Answered(h) == hook[h].mine[Cardinality(DOMAIN hook[h].wrote)]

(* _reply: the provider takes it, or the failure is recorded.              *)
Reply(h) ==
  /\ At(h, "reply")
  /\ \/ replies' = [replies EXCEPT ![Answered(h).id] = @ + 1]
     \/ UNCHANGED replies
  /\ hook' = [hook EXCEPT ![h].pc = After(h, hook[h])]
  /\ UNCHANGED <<channel, row, turns, lost, posts>>

(* get_session commits, and 200 goes out.                                  *)
Commit(h) ==
  LET w == hook[h]
  IN /\ At(h, "commit")
     /\ row' = [m \in Wamids |-> IF m \in DOMAIN w.wrote THEN w.wrote[m] ELSE row[m]]
     /\ turns' = [m \in Wamids |-> turns[m] + IF m \in w.turned THEN 1 ELSE 0]
     /\ hook' = [hook EXCEPT ![h] = Over("answered")]
     /\ UNCHANGED <<channel, replies, lost, posts>>

Serving(h) == hook[h].pc \notin {"idle", "answered", "refused", "error"}

(* Whom the next statement waits for.                                      *)
WaitsFor(h) ==
  {g \in Hooks \ {h} :
     \/ At(h, "receive") /\ hook[h].claims # <<>>
          /\ Head(hook[h].claims).id \in Claims(g)
     \/ At(h, "receive") /\ hook[h].claims = <<>> /\ hook[h].receipts # <<>>
          /\ Head(hook[h].receipts) \in hook[g].rows
     \/ At(h, "lock") /\ Current(h).from \in hook[g].locks}

Deadlocked(h) ==
  \E S \in SUBSET Hooks :
    h \in S /\ \A g \in S : WaitsFor(g) \cap S # {} /\ \E k \in S : g \in WaitsFor(k)

(* The database ends one of the transactions.  In a turn handle_inbound    *)
(* catches that, but its UPDATE of the status fails as well.               *)
BreakDeadlock(h) == Deadlocked(h) /\ Rollback(h)

(* The process dies, or the connection is lost.                            *)
Crash(h) == Serving(h) /\ Rollback(h)

Statement(h) ==
  \/ RecordInbound(h) \/ ApplyStatus(h) \/ Dispatch(h) \/ HandleInbound(h)
  \/ Lock(h) \/ Turn(h) \/ Reply(h) \/ Commit(h) \/ BreakDeadlock(h)

Finished ==
  /\ posts = MaxPosts /\ \A h \in Hooks : ~Serving(h)
  /\ UNCHANGED vars

Next == (\E h \in Hooks : Post(h) \/ Statement(h) \/ Crash(h)) \/ Finished

Spec == Init /\ [][Next]_vars /\ \A h \in Hooks : WF_vars(Statement(h))

-----------------------------------------------------------------------------
TypeOK ==
  /\ row \in [Wamids -> Settled \cup {"none"}]
  /\ \A h \in Hooks : Claims(h) \subseteq Wamids /\ hook[h].locks \subseteq Contacts

(* A message is committed with one turn at most, also when it comes twice  *)
(* in one payload and in payloads that overlap.  It is answered again only *)
(* after a transaction that had claimed it was rolled back, be it for      *)
(* another message's sake; and a reply that has left is on record, unless  *)
(* its transaction was rolled back or is still under way.                  *)
DeliveriesAreSafe ==
  \A m \in Wamids :
    /\ turns[m] <= 1
    /\ replies[m] <= 1 + lost[m]
    /\ replies[m] > 0 =>
         row[m] \in Settled \/ lost[m] > 0 \/ \E h \in Hooks : m \in Claims(h)

-----------------------------------------------------------------------------
(* Why DeliveriesAreSafe holds: the invariant its proof rests on.          *)
ClaimedBy(w) == {w.mine[i].id : i \in DOMAIN w.mine}
DoneBy(w) == Cardinality(DOMAIN w.wrote)

(* What a request claimed it answers in that order, each message once.     *)
Orderly(w) ==
  /\ DOMAIN w = {"pc", "claims", "receipts", "mine", "wrote", "turned", "rows", "locks"}
  /\ w.mine \in Seq({w.mine[i] : i \in DOMAIN w.mine})
  /\ \A i, j \in DOMAIN w.mine : w.mine[i].id = w.mine[j].id => i = j
  /\ IsFiniteSet(DOMAIN w.wrote) /\ DoneBy(w) \in 0..Len(w.mine)
  /\ DOMAIN w.wrote = {w.mine[i].id : i \in 1..DoneBy(w)}
  /\ \A m \in DOMAIN w.wrote : w.wrote[m] \in Settled
  /\ w.turned \subseteq DOMAIN w.wrote
  /\ w.pc \in {"idle", "answered", "refused", "error"} => w.mine = <<>>
  /\ w.pc \in {"answer", "lock", "turn"} => DoneBy(w) < Len(w.mine)
  /\ w.pc = "reply" => DoneBy(w) > 0

(* It may have replied to what it answered, but for the reply it is about. *)
Replied(w, m) ==
  m \in DOMAIN w.wrote /\ (w.pc = "reply" => m # w.mine[DoneBy(w)].id)

Ledgers ==
  /\ row \in [Wamids -> Settled \cup {"none"}]
  /\ turns \in [Wamids -> Nat] /\ replies \in [Wamids -> Nat] /\ lost \in [Wamids -> Nat]

(* A reply is accounted for by the row, by a request or by one rolled back.*)
Accounted ==
  \A m \in Wamids :
    /\ turns[m] <= IF row[m] = "none" THEN 0 ELSE 1
    /\ replies[m] <= 1 + lost[m]
    /\ row[m] = "none" /\ (\A h \in Hooks : ~Replied(hook[h], m)) => replies[m] <= lost[m]

ClaimsAreApart ==
  \A h \in Hooks : \A m \in ClaimedBy(hook[h]) :
    /\ m \in Wamids => row[m] = "none"
    /\ \A g \in Hooks \ {h} : m \notin ClaimedBy(hook[g])

DeliveryInv ==
  /\ Ledgers /\ DOMAIN hook = Hooks /\ \A h \in Hooks : Orderly(hook[h])
  /\ Accounted /\ ClaimsAreApart
=============================================================================
