---------------------------- MODULE SerialTurns ----------------------------
(***************************************************************************)
(* What the conversation engine promises about its database: a transcript  *)
(* grows by whole turns, one at a time, each turn once, each answered from *)
(* everything said before it, and a key has at most one open session.      *)
(* ConversationTurns is shown to implement it.                             *)
(***************************************************************************)
EXTENDS Integers, FiniteSets

CONSTANTS Turns, Keys, Convs, NoKey

VARIABLES conversation, message

vars == <<conversation, message>>

Init ==
  /\ conversation = [c \in Convs |->
                       [key |-> NoKey, status |-> "none", summarised |-> 0]]
  /\ message = [c \in Convs |-> {}]

Open(k) ==
  {c \in Convs : conversation[c].key = k /\ conversation[c].status = "active"}

Spoken(rows) == {r \in rows : r.role # "summary"}
Answers(rows) == {r \in rows : r.role \in {"reply", "decline", "handoff"}}

(* rows is one whole turn t that follows the rows before: its question,    *)
(* then the summaries it made, then at most one answer.                    *)
IsTurn(t, before, rows) ==
  LET n == Cardinality(before) IN
  /\ \A r \in rows : r.turn = t
  /\ {r.seq : r \in rows} = n + 1 .. n + Cardinality(rows)
  /\ \A r \in rows : (r.role = "user") <=> (r.seq = n + 1)
  /\ \A r \in Answers(rows) : r.seq = n + Cardinality(rows)
  /\ \A r \in rows : r.role = "reply" => r.basis = Cardinality(Spoken(before))

(* Turn t is added to conversation c, which it may open.                   *)
AddTurn(t, c) ==
  LET was == conversation[c]
      now == conversation'[c]
      rows == message'[c] \ message[c]
  IN
  /\ \A d \in Convs : \A r \in message[d] : r.turn # t
  /\ message[c] \subseteq message'[c]
  /\ rows # {} /\ IsTurn(t, message[c], rows)
  /\ was.status = "none" => now.key \in Keys /\ Open(now.key) = {}
  /\ was.status # "none" => now.key = was.key
  /\ now.status = IF \E r \in rows : r.role = "handoff" THEN "escalated"
                  ELSE IF was.status = "none" THEN "active"
                  ELSE was.status
  /\ now.summarised >= was.summarised
  /\ now.summarised > was.summarised => \E r \in rows : r.role = "summary"
  /\ \A d \in Convs \ {c} : /\ conversation'[d] = conversation[d]
                            /\ message'[d] = message[d]

(* An operator ends session c, or moves an ended one to the other end.     *)
EndSession(c) ==
  /\ conversation[c].status # "none"
  /\ \E s \in {"closed", "escalated"} :
       conversation' = [conversation EXCEPT ![c].status = s]
  /\ UNCHANGED message

Next ==
  \E c \in Convs : EndSession(c) \/ \E t \in Turns : AddTurn(t, c)

Spec == Init /\ [][Next]_vars
=============================================================================
