--------------------------- MODULE WhatsAppOutbound ---------------------------
(***************************************************************************)
(* Messages one connection sends to a contact, what WhatsApp does with     *)
(* them, and the receipts it reports it with                               *)
(* (src/src/modules/channels/whatsapp: send, _reply, apply_status,         *)
(* window_for and disconnect of WhatsAppService, internal/session_window). *)
(*                                                                         *)
(* A send writes its row, calls the provider, and is committed with the    *)
(* turn or the request it belongs to.  Receipts may be lost, repeated and  *)
(* out of order, and two webhooks may be handled at a time: each loads the *)
(* row and later writes the columns that differ from what it loaded.  What *)
(* happens to inbound messages is WhatsAppInbound.                         *)
(***************************************************************************)
EXTENDS Naturals, FiniteSets

CONSTANTS
  Sends,        \* messages to send
  Webhooks,     \* webhook requests handled at a time
  MaxReceipts,  \* bound: receipts that come in
  MaxMoves      \* bound: times the window opens or closes

VARIABLES
  origin,     \* send -> "reply" to a contact, or "api", asked for by a tenant
  template,   \* whether the connection has an outsideWindowTemplate
  connected,  \* whether the connection's row is there
  open,       \* whether the contact wrote within the last 24 hours
  send,       \* send -> its next step and its uncommitted row
  row,        \* send -> its committed row
  known,      \* send -> what WhatsApp has come to with it
  webhook,    \* webhook -> the receipt it applies and the row it loaded
  receipts,   \* receipts that came in
  moves       \* moves of the window

vars == <<origin, template, connected, open, send, row, known, webhook,
          receipts, moves>>

(* status, and which of provider_message_id, delivered_at, read_at and     *)
(* error_detail are set.                                                   *)
Queued == [status |-> "queued", named |-> FALSE, delivered |-> FALSE,
           read |-> FALSE, error |-> FALSE]
NoRow == [status |-> "none", named |-> FALSE, delivered |-> FALSE,
          read |-> FALSE, error |-> FALSE]

Idle == [pc |-> "idle"]

Init ==
  /\ origin \in [Sends -> {"reply", "api"}]
  /\ template \in BOOLEAN /\ open \in BOOLEAN
  /\ connected = TRUE
  /\ send = [s \in Sends |-> [pc |-> "unsent", row |-> NoRow]]
  /\ row = [s \in Sends |-> NoRow]
  /\ known = [s \in Sends |-> {}]
  /\ webhook = [h \in Webhooks |-> Idle]
  /\ receipts = 0 /\ moves = 0

World == <<origin, template, connected, open, moves>>
Reports == <<webhook, receipts>>

-----------------------------------------------------------------------------
(* send: a template goes out as asked, anything else as it is while the    *)
(* window is open and as the fallback template when it is closed.          *)
Decide(s) ==
  /\ send[s].pc = "unsent"
  /\ send' = [send EXCEPT ![s] =
       IF connected /\ (open \/ template) THEN [pc |-> "call", row |-> Queued]
       ELSE [pc |-> "ended", row |-> NoRow]]
  /\ UNCHANGED <<World, row, known, Reports>>

SendTemplate(s) ==
  /\ send[s].pc = "unsent" /\ connected /\ origin[s] = "api"
  /\ send' = [send EXCEPT ![s] = [pc |-> "call", row |-> Queued]]
  /\ UNCHANGED <<World, row, known, Reports>>

(* The provider took it: its id is known.                                  *)
Accepted(s) ==
  /\ send[s].pc = "call"
  /\ known' = [known EXCEPT ![s] = {"sent"}]
  /\ send' = [send EXCEPT ![s] =
       [pc |-> "commit", row |-> [Queued EXCEPT !.status = "sent", !.named = TRUE]]]
  /\ UNCHANGED <<World, row, Reports>>

(* WhatsAppError: refused, or not reached.                                 *)
Refusal == [Queued EXCEPT !.status = "failed", !.error = TRUE]

(* _reply goes on and its turn is committed; through the API the error     *)
(* rolls the request back, and the row with it.                            *)
Rejected(s) ==
  /\ send[s].pc = "call"
  /\ send' = [send EXCEPT ![s] =
       IF origin[s] = "reply" THEN [pc |-> "commit", row |-> Refusal]
       ELSE [pc |-> "ended", row |-> NoRow]]
  /\ UNCHANGED <<World, row, known, Reports>>

Commit(s) ==
  /\ send[s].pc = "commit"
  /\ row' = [row EXCEPT ![s] = send[s].row]
  /\ send' = [send EXCEPT ![s] = [pc |-> "ended", row |-> NoRow]]
  /\ UNCHANGED <<World, known, Reports>>

(* The process dies before the commit.                                     *)
Crash(s) ==
  /\ send[s].pc \in {"call", "commit"}
  /\ send' = [send EXCEPT ![s] = [pc |-> "ended", row |-> NoRow]]
  /\ UNCHANGED <<World, row, known, Reports>>

-----------------------------------------------------------------------------
(* What WhatsApp comes to with a message it took.                          *)
Progress(s) ==
  /\ "sent" \in known[s] /\ "failed" \notin known[s]
  /\ \/ known' = [known EXCEPT ![s] = @ \cup {"delivered"}]
     \/ "delivered" \in known[s] /\ known' = [known EXCEPT ![s] = @ \cup {"read"}]
     \/ "delivered" \notin known[s] /\ known' = [known EXCEPT ![s] = @ \cup {"failed"}]
  /\ known' # known
  /\ UNCHANGED <<World, send, row, Reports>>

(* A receipt for anything that has come about arrives, again or for the    *)
(* first time; one for a message that has no committed row is ignored.     *)
Receipt(h) ==
  /\ webhook[h] = Idle /\ receipts < MaxReceipts
  /\ receipts' = receipts + 1
  /\ \E s \in Sends : \E status \in known[s] :
       webhook' = IF row[s].named
                  THEN [webhook EXCEPT ![h] =
                          [pc |-> "apply", of |-> s, status |-> status, loaded |-> row[s]]]
                  ELSE webhook
  /\ UNCHANGED <<World, send, row, known>>

(* Mutant: a read receipt does not imply delivery.                         *)
Applied_Literal(status, loaded) ==
  CASE status = "sent" -> [loaded EXCEPT !.status = "sent"]
    [] status = "delivered" -> [loaded EXCEPT !.status = "delivered", !.delivered = TRUE]
    [] status = "read" -> [loaded EXCEPT !.status = "read", !.read = TRUE]
    [] status = "failed" -> [loaded EXCEPT !.status = "failed", !.error = TRUE]

(* apply_status.                                                           *)
Applied(status, loaded) ==
  CASE status = "sent" -> [loaded EXCEPT !.status = "sent"]
    [] status = "delivered" -> [loaded EXCEPT !.status = "delivered", !.delivered = TRUE]
    [] status = "read" ->
         [loaded EXCEPT !.status = "read", !.read = TRUE, !.delivered = TRUE]
    [] status = "failed" -> [loaded EXCEPT !.status = "failed", !.error = TRUE]

(* Mutant: the whole row is written as it was loaded.                      *)
Flushed_Whole(now, loaded, new) == new

(* The columns that differ from what was loaded are written.               *)
Flushed(now, loaded, new) ==
  [f \in DOMAIN now |-> IF new[f] = loaded[f] THEN now[f] ELSE new[f]]

(* The UPDATE and the commit; a row deleted meanwhile is an error.         *)
Apply(h) ==
  /\ webhook[h].pc = "apply"
  /\ LET w == webhook[h]
     IN row' = IF row[w.of] = NoRow THEN row
               ELSE [row EXCEPT ![w.of] =
                       Flushed(@, w.loaded, Applied(w.status, w.loaded))]
  /\ webhook' = [webhook EXCEPT ![h] = Idle]
  /\ UNCHANGED <<World, send, known, receipts>>

-----------------------------------------------------------------------------
(* The contact writes, or 24 hours pass.                                   *)
MoveWindow ==
  /\ moves < MaxMoves /\ moves' = moves + 1
  /\ open' = ~open
  /\ UNCHANGED <<origin, template, connected, send, row, known, Reports>>

(* disconnect waits for sends whose row refers to the connection, and the  *)
(* messages go with it.                                                    *)
Disconnect ==
  /\ connected
  /\ \A s \in Sends : send[s].pc \notin {"call", "commit"}
  /\ connected' = FALSE
  /\ row' = [s \in Sends |-> NoRow]
  /\ UNCHANGED <<origin, template, open, send, known, Reports, moves>>

Finished ==
  /\ \A s \in Sends : send[s].pc = "ended"
  /\ UNCHANGED vars

Next ==
  \/ \E s \in Sends :
       \/ Decide(s) \/ SendTemplate(s) \/ Accepted(s) \/ Rejected(s)
       \/ Commit(s) \/ Crash(s) \/ Progress(s)
  \/ \E h \in Webhooks : Receipt(h) \/ Apply(h)
  \/ MoveWindow \/ Disconnect \/ Finished

Spec == Init /\ [][Next]_vars

-----------------------------------------------------------------------------
Row == [status : {"none", "queued", "sent", "delivered", "read", "failed"},
        named : BOOLEAN, delivered : BOOLEAN, read : BOOLEAN, error : BOOLEAN]

TypeOK ==
  /\ row \in [Sends -> Row]
  /\ \A s \in Sends : send[s].row \in Row
  /\ \A s \in Sends : known[s] \subseteq {"sent", "delivered", "read", "failed"}

(* The log never says more than came about, and says it consistently: a    *)
(* status has its stamp, what was read was delivered, and what failed says *)
(* why, in whichever order receipts came and webhooks wrote.               *)
LogIsConsistent ==
  \A s \in Sends :
    /\ row[s].status \in {"sent", "delivered", "read"} => row[s].status \in known[s]
    /\ row[s].delivered => "delivered" \in known[s]
    /\ row[s].status = "delivered" => row[s].delivered
    /\ row[s].status = "read" => row[s].read
    /\ row[s].read => row[s].delivered
    /\ row[s].status = "failed" => row[s].error

(* What was committed is decided: it has the provider's id and may be      *)
(* reported on, or it failed; nothing stays queued for good.               *)
NothingStaysQueued ==
  \A s \in Sends : row[s] # NoRow =>
    row[s].status # "queued" /\ (row[s].named \/ row[s].status = "failed")

(* No receipt takes back what another one recorded, even when both loaded  *)
(* the row before either wrote it; only disconnecting ends the record.     *)
StampsStayStep ==
  \A s \in Sends : row[s] # NoRow /\ connected' =>
    \A f \in {"named", "delivered", "read", "error"} : row[s][f] => row'[s][f]

StampsStay == [][StampsStayStep]_vars

-----------------------------------------------------------------------------
(* Why the three hold: the invariant their proof rests on.                 *)
Reported == {"sent", "delivered", "read", "failed"}

Types ==
  /\ row \in [Sends -> Row]
  /\ known \in [Sends -> SUBSET Reported]
  /\ send \in [Sends -> [pc : {"unsent", "call", "commit", "ended"}, row : Row]]
  /\ webhook \in [Webhooks -> {Idle} \cup
       [pc : {"apply"}, of : Sends, status : Reported, loaded : Row]]

(* What a row says has come about, and is said with its stamp.             *)
Consistent(r, done) ==
  /\ r.status \in {"sent", "delivered", "read"} => r.status \in done
  /\ r.delivered => "delivered" \in done
  /\ r.status = "delivered" => r.delivered
  /\ r.status = "read" => r.read
  /\ r.read => r.delivered
  /\ r.status = "failed" => r.error

Decided(r) == r.status # "queued" /\ (r.named \/ r.status = "failed")

Rows == \A s \in Sends :
  Consistent(row[s], known[s]) /\ (row[s] # NoRow => Decided(row[s]))

(* A row is committed once, by a send that then has ended, and disconnect  *)
(* leaves none on its way.                                                 *)
Ways ==
  \A s \in Sends :
    /\ row[s] # NoRow => send[s].pc = "ended"
    /\ send[s].pc = "commit" => Consistent(send[s].row, known[s]) /\ Decided(send[s].row)
    /\ send[s].pc \in {"call", "commit"} => connected
    /\ send[s].pc \in {"unsent", "call"} => known[s] = {}

Stamps == {"named", "delivered", "read", "error"}

(* A receipt that is being applied has come about; the row it loaded has   *)
(* no stamp that has gone since, unless with the connection.               *)
Receipts ==
  \A h \in Webhooks : webhook[h] # Idle =>
    LET w == webhook[h]
    IN /\ w.status \in known[w.of]
       /\ w.loaded.named /\ send[w.of].pc = "ended"
       /\ row[w.of] # NoRow => \A f \in Stamps : w.loaded[f] => row[w.of][f]

(* What was read was delivered.                                            *)
ReadIsDelivered ==
  \A s \in Sends : "read" \in known[s] => "delivered" \in known[s]

LogInv == Types /\ Rows /\ Ways /\ Receipts /\ ReadIsDelivered
=============================================================================
