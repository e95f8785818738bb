------------------------- MODULE SerialTurns_proofs -------------------------
(***************************************************************************)
(* That the concurrent transactions of ConversationTurns implement the     *)
(* serial transcripts of SerialTurns, and what follows for a transcript,   *)
(* for any sets of turns, hand-overs, keys and conversations and any       *)
(* folding of conversation ids to locks.                                   *)
(*                                                                         *)
(* The argument: from the moment its question is stored, a turn holds its  *)
(* conversation's advisory lock and row, so that what it has written is a  *)
(* whole turn after the committed rows, and stays so until it commits.     *)
(* The properties of transcripts are then those of the serial steps.       *)
(***************************************************************************)
EXTENDS ConversationTurns_proofs

AnswerRoles == {"reply", "decline", "handoff"}
Ended == {"closed", "escalated"}

(* rows is one whole turn t after the rows before, its answer last.        *)
Whole(t, rows, before) ==
  /\ \E r \in rows : r.role = "user"
  /\ \A r \in rows :
       /\ r.turn = t
       /\ (r.role = "user") <=> (r.seq = Cardinality(before) + 1)
       /\ r.role \in AnswerRoles => r.seq = Cardinality(before \cup rows)
       /\ r.role = "reply" => r.basis = Cardinality(Spoken(before))

(* The turn's question is stored, and it has neither failed nor ended.     *)
Asked(t) == InTurn(t) /\ pc[t] \notin {"sequence", "store"}

(* What it has written, and what it has written down to write.             *)
Block(t) ==
  LET c == tx[t].conv
      said == Cardinality(Spoken(message[c]))
  IN
  /\ rowlock[c] = t
  /\ Whole(t, tx[t].rows, message[c])
  /\ \A r \in tx[t].rows : r.role \in AnswerRoles => pc[t] = "commit"
  /\ pc[t] \in {"fold", "answer"} => tx[t].basis = said
  /\ pc[t] = "fold" => tx[t].cut > Summarised(t) /\ tx[t].cut <= said
  /\ IF \E r \in tx[t].rows : r.role = "handoff"
     THEN Status(t) = "escalated" ELSE tx[t].status = "same"
  /\ tx[t].folded > 0 => /\ tx[t].folded > conversation[c].summarised
                         /\ tx[t].folded <= said
                         /\ \E r \in tx[t].rows : r.role = "summary"

(* Nothing of a turn is committed before it ends, and before its question  *)
(* it has written nothing but its session.                                 *)
TurnOf(t) ==
  /\ pc[t] \notin Over => \A c \in Convs : \A r \in message[c] : r.turn # t
  /\ pc[t] \in {"reselect", "lock", "sequence", "store"}
       => tx[t].status = "same" /\ tx[t].folded = 0
  /\ Asked(t) => Block(t)

(* An operator ends a session, and has its row when it commits that.       *)
OperatorOf(o) ==
  /\ tx[o].folded = 0
  /\ pc[o] = "idle" => tx[o].conv = NoConv
  /\ tx[o].conv # NoConv => tx[o].status \in Ended
  /\ tx[o].conv # NoConv /\ pc[o] = "commit" => rowlock[tx[o].conv] = o

SummaryInv ==
  \A c \in Convs :
    conversation[c].summarised <= Cardinality(Spoken(message[c]))

TurnInv ==
  /\ \A t \in Turns : TurnOf(t)
  /\ \A o \in Handovers : OperatorOf(o)
  /\ SummaryInv

-----------------------------------------------------------------------------
(* Numbered rows.                                                          *)

(* The sequences of numbered rows run to their number.                     *)
LEMMA SequencesOfNumbered ==
  ASSUME NEW rows \in SUBSET Row, IsFiniteSet(rows), Numbered(rows)
  PROVE  /\ Cardinality(rows) \in Nat
         /\ {r.seq : r \in rows} = 1..Cardinality(rows)
         /\ Max({0} \cup {r.seq : r \in rows}) + 1 = Cardinality(rows) + 1
<1>1. PICK n \in 0..Cardinality(rows) : {r.seq : r \in rows} = 1..n
  BY DEF Numbered
<1>2. n \in Nat /\ Cardinality(rows) \in Nat
  BY FS_CardinalityType
<1> DEFINE f == [r \in rows |-> r.seq]
<1>3. f \in [rows -> 1..n] /\ \A i \in 1..n : \E r \in rows : f[r] = i
  BY <1>1
<1>4. \A r, q \in rows : f[r] = f[q] => r = q
  BY DEF Numbered
<1>5. f \in Surjection(rows, 1..n) /\ f \in Injection(rows, 1..n)
  BY <1>3, <1>4 DEF Surjection, Injection, IsInjective
<1> HIDE DEF f
<1>6. Cardinality(1..n) = Cardinality(rows)
  BY <1>5, FS_Surjection
<1>7. Cardinality(1..n) = n
  BY <1>2, FS_Interval
<1> QED
  BY <1>1, <1>2, <1>6, <1>7, NextOfNumbered

(* Rows that continue a numbering after the rows before are numbered on.   *)
LEMMA SequencesOfBlock ==
  ASSUME NEW before \in SUBSET Row, IsFiniteSet(before), Numbered(before),
         NEW rows \in SUBSET Row, IsFiniteSet(rows),
         Numbered(before \cup rows), before \cap rows = {}
  PROVE  LET n == Cardinality(before)
             k == Cardinality(rows)
         IN  /\ n \in Nat /\ k \in Nat
             /\ Cardinality(before \cup rows) = n + k
             /\ {r.seq : r \in before} = 1..n
             /\ {r.seq : r \in rows} = n + 1 .. n + k
<1> DEFINE n == Cardinality(before)
           k == Cardinality(rows)
<1>1. n \in Nat /\ k \in Nat /\ {r.seq : r \in before} = 1..n
  BY SequencesOfNumbered, FS_CardinalityType
<1>2. IsFiniteSet(before \cup rows) /\ Cardinality(before \cup rows) = n + k
  BY <1>1, FS_Union, FS_EmptySet
<1>3. {r.seq : r \in before \cup rows} = 1..(n + k)
  BY <1>2, SequencesOfNumbered
<1>4. \A r \in before, q \in rows : r.seq # q.seq
  BY DEF Numbered
<1> HIDE DEF n, k
<1>5. ASSUME NEW q \in rows PROVE q.seq \in n + 1 .. n + k
  <2>1. q.seq \in 1..(n + k) /\ q.seq \notin 1..n
    BY <1>1, <1>3, <1>4
  <2> QED
    BY <1>1, <2>1
<1>6. ASSUME NEW i \in n + 1 .. n + k PROVE \E q \in rows : q.seq = i
  <2>1. i \in 1..(n + k) /\ i \notin 1..n
    BY <1>1
  <2>2. PICK q \in before \cup rows : q.seq = i
    BY <1>3, <2>1
  <2>3. q \notin before
    BY <1>1, <2>1, <2>2
  <2> QED
    BY <2>2, <2>3
<1>7. {r.seq : r \in rows} = n + 1 .. n + k
  BY <1>5, <1>6
<1> QED
  BY <1>1, <1>2, <1>7 DEF n, k

(* What a turn that has its lock sees, and where its next row goes.        *)
LEMMA NextIsLast ==
  ASSUME IInv, NEW t \in Turns, InTurn(t)
  PROVE  LET before == message[tx[t].conv] IN
         /\ tx[t].conv \in Convs
         /\ before \in SUBSET Row /\ IsFiniteSet(before) /\ Numbered(before)
         /\ tx[t].rows \in SUBSET Row /\ IsFiniteSet(tx[t].rows)
         /\ Rows(t) \in SUBSET Row /\ IsFiniteSet(Rows(t)) /\ Numbered(Rows(t))
         /\ Cardinality(before) \in Nat /\ Cardinality(Rows(t)) \in Nat
         /\ next_sequence(t) = Cardinality(Rows(t)) + 1
         /\ \A r \in before : r.seq \in 1..Cardinality(before)
         /\ \A r \in Rows(t) : r.seq \in 1..Cardinality(Rows(t))
<1>1. tx[t].conv \in Convs /\ Numbered(Rows(t)) /\ TypeInv /\ t \in Procs
  BY DEF IInv, LockInv, Placed, SequenceInv, Procs
<1>2. Rows(t) \in SUBSET Row /\ IsFiniteSet(Rows(t))
  BY <1>1, RowsOfTurn
<1>3. /\ message[tx[t].conv] \in SUBSET Row /\ IsFiniteSet(message[tx[t].conv])
      /\ Numbered(message[tx[t].conv])
      /\ tx[t].rows \in SUBSET Row /\ IsFiniteSet(tx[t].rows)
  BY <1>1 DEF IInv, SequenceInv, SequencesInOrder, TypeInv, TypeOK, Tx
<1>4. /\ Cardinality(message[tx[t].conv]) \in Nat
      /\ {r.seq : r \in message[tx[t].conv]} = 1..Cardinality(message[tx[t].conv])
  BY <1>3, SequencesOfNumbered
<1>5. /\ Cardinality(Rows(t)) \in Nat
      /\ {r.seq : r \in Rows(t)} = 1..Cardinality(Rows(t))
      /\ next_sequence(t) = Cardinality(Rows(t)) + 1
  BY <1>1, <1>2, SequencesOfNumbered DEF next_sequence
<1> QED
  BY <1>1, <1>2, <1>3, <1>4, <1>5

-----------------------------------------------------------------------------
(* The steps of others.                                                    *)

(* Nobody else commits anything to the conversation of a turn that has its *)
(* lock and row.                                                           *)
LEMMA OthersKeepSession ==
  ASSUME IInv, TurnInv, NEW t \in Turns, Asked(t), NEW p \in Procs, p # t,
         StepOf(p)
  PROVE  /\ message'[tx[t].conv] = message[tx[t].conv]
         /\ conversation'[tx[t].conv] = conversation[tx[t].conv]
<1>1. /\ tx[t].conv \in Convs /\ advisory[LockKey[tx[t].conv]] = t
      /\ rowlock[tx[t].conv] = t
  BY DEF Asked, IInv, LockInv, Placed, TurnInv, TurnOf, Block
<1>2. message'[tx[t].conv] = message[tx[t].conv]
  BY RowsKept DEF Asked
<1>3. CASE ~Commit(p) \/ tx[p].conv # tx[t].conv
  BY <1>1, <1>2, <1>3, OnlyCommitsAreSeen DEF Commit, IInv, TypeInv, TypeOK
<1>4. CASE Commit(p) /\ tx[p].conv = tx[t].conv
  <2>1. pc[p] = "commit" /\ tx[p].conv # NoConv
    BY <1>1, <1>4, TurnsAssumption DEF Commit
  <2>2. CASE p \in Turns
    <3>1. advisory[LockKey[tx[p].conv]] = p
      BY <2>1, <2>2 DEF InTurn, IInv, LockInv, Placed
    <3> QED
      BY <1>1, <1>4, <3>1
  <2>3. CASE p \in Handovers
    <3>1. rowlock[tx[p].conv] = p
      BY <2>1, <2>3 DEF TurnInv, OperatorOf
    <3> QED
      BY <1>1, <1>4, <3>1
  <2> QED
    BY <2>2, <2>3 DEF Procs
<1> QED
  BY <1>3, <1>4

(* A commit adds rows of the committing turn only.                         *)
LEMMA FreshStep ==
  ASSUME IInv, TurnInv, NEW p \in Procs, StepOf(p), NEW t \in Turns, t # p,
         \A c \in Convs : \A r \in message[c] : r.turn # t
  PROVE  \A c \in Convs : \A r \in message'[c] : r.turn # t
<1>1. CASE ~Commit(p) \/ tx[p].conv = NoConv
  BY <1>1, OnlyCommitsAreSeen DEF Commit
<1>2. CASE Commit(p) /\ tx[p].conv # NoConv
  <2>1. \A r \in tx[p].rows : r.turn # t
    <3>1. CASE p \in Turns
      <4>1. Asked(p)
        BY <1>2, <3>1 DEF Commit, Asked, InTurn
      <4>2. Block(p)
        BY <3>1, <4>1 DEF TurnInv, TurnOf
      <4>3. \A r \in tx[p].rows : r.turn = p
        BY <4>2 DEF Block, Whole
      <4> QED
        BY <4>3
    <3>2. CASE p \in Handovers
      BY <3>2 DEF IInv, TypeInv
    <3> QED
      BY <3>1, <3>2 DEF Procs
  <2>2. \A c \in Convs : message'[c] = IF c = tx[p].conv THEN Rows(p)
                                       ELSE message[c]
    BY <1>2 DEF Commit, IInv, TypeInv, TypeOK
  <2> QED
    BY <2>1, <2>2 DEF Rows
<1> QED
  BY <1>1, <1>2

(* A step of another process leaves what a turn has written as it is.      *)
LEMMA TurnOfOther ==
  ASSUME IInv, TurnInv, NEW p \in Procs, StepOf(p), NEW t \in Turns, t # p
  PROVE  TurnOf(t)'
<1>1. t \in Procs /\ TypeInv /\ TurnOf(t)
  BY DEF Procs, IInv, TurnInv
<1>2. /\ pc'[t] = pc[t] /\ tx'[t] = tx[t]
      /\ \A c \in Convs : rowlock[c] = t => rowlock'[c] = t
  BY <1>1, OthersKeepTheirs
<1>3. Asked(t)' <=> Asked(t)
  BY <1>2 DEF Asked, InTurn
<1>4. ASSUME Asked(t) PROVE Block(t)'
  <2>1. /\ message'[tx[t].conv] = message[tx[t].conv]
        /\ conversation'[tx[t].conv] = conversation[tx[t].conv]
    BY <1>4, OthersKeepSession
  <2>2. Block(t) /\ tx[t].conv \in Convs
    BY <1>1, <1>4 DEF TurnOf, Asked, IInv, LockInv, Placed
  <2>3. Status(t)' = Status(t) /\ Summarised(t)' = Summarised(t)
    BY <1>2, <2>1 DEF Status, Summarised
  <2>4. rowlock'[tx[t].conv] = t
    BY <1>2, <2>2 DEF Block
  <2> QED
    BY <1>2, <2>1, <2>2, <2>3, <2>4 DEF Block
<1>5. (\A c \in Convs : \A r \in message[c] : r.turn # t)
        => \A c \in Convs : \A r \in message'[c] : r.turn # t
  BY FreshStep
<1> QED
  BY <1>1, <1>2, <1>3, <1>4, <1>5 DEF TurnOf

-----------------------------------------------------------------------------
(* A turn's own statements.                                                *)

(* The question is the first row of its turn.                              *)
LEMMA QuestionIsWhole ==
  ASSUME IInv, TurnInv, NEW t \in Turns, StoreUser(t)
  PROVE  LET rows == tx[t].rows \cup
               {[seq |-> tx[t].next, role |-> "user", turn |-> t, basis |-> 0]}
         IN  /\ Whole(t, rows, message[tx[t].conv])
             /\ \A r \in rows : r.role = "user"
<1>1. InTurn(t) /\ pc[t] = "store"
  BY DEF StoreUser, InTurn, Writing
<1>2. tx[t].rows = {} /\ Rows(t) = message[tx[t].conv]
  BY <1>1 DEF IInv, LockInv, Placed, Rows
<1>3. tx[t].next = Cardinality(message[tx[t].conv]) + 1
  BY <1>1, <1>2, NextIsLast DEF IInv, SequenceInv
<1> QED
  BY <1>2, <1>3 DEF Whole, AnswerRoles

(* A summary or an answer that takes the next sequence goes after the rows *)
(* of its turn, which have no answer yet.                                  *)
LEMMA RowIsWhole ==
  ASSUME IInv, NEW t \in Turns, InTurn(t),
         Whole(t, tx[t].rows, message[tx[t].conv]),
         \A r \in tx[t].rows : r.role \notin AnswerRoles,
         NEW role \in AnswerRoles \cup {"summary"}, NEW b,
         role = "reply" => b = Cardinality(Spoken(message[tx[t].conv]))
  PROVE  Whole(t, WithRow(t, role, b), message[tx[t].conv])
<1> DEFINE before == message[tx[t].conv]
           new == [seq |-> next_sequence(t), role |-> role, turn |-> t,
                   basis |-> b]
<1>1. /\ before \in SUBSET Row /\ IsFiniteSet(before)
      /\ Rows(t) \in SUBSET Row /\ IsFiniteSet(Rows(t))
      /\ Cardinality(before) \in Nat /\ Cardinality(Rows(t)) \in Nat
      /\ next_sequence(t) = Cardinality(Rows(t)) + 1
      /\ \A r \in before : r.seq \in 1..Cardinality(before)
      /\ \A r \in Rows(t) : r.seq \in 1..Cardinality(Rows(t))
  BY NextIsLast
<1>2. WithRow(t, role, b) = tx[t].rows \cup {new}
  BY DEF WithRow
<1>3. /\ new.seq = Cardinality(Rows(t)) + 1 /\ new.role = role
      /\ new.turn = t /\ new.basis = b
  BY <1>1
<1> HIDE DEF new
<1>4. new \notin Rows(t)
  BY <1>1, <1>3
<1>5. /\ before \cup (tx[t].rows \cup {new}) = Rows(t) \cup {new}
      /\ Cardinality(Rows(t) \cup {new}) = Cardinality(Rows(t)) + 1
  BY <1>1, <1>4, FS_AddElement DEF Rows
<1>6. PICK u \in tx[t].rows : u.role = "user"
  BY DEF Whole
<1>7. u.seq = Cardinality(before) + 1 /\ u \in Rows(t)
  BY <1>6 DEF Whole, Rows
<1>8. new.seq # Cardinality(before) + 1
  BY <1>1, <1>3, <1>7
<1>9. role # "user"
  BY DEF AnswerRoles
<1> HIDE DEF before
<1>10. ASSUME NEW r \in tx[t].rows \cup {new}
       PROVE  /\ r.turn = t
              /\ (r.role = "user") <=> (r.seq = Cardinality(before) + 1)
              /\ r.role \in AnswerRoles
                   => r.seq = Cardinality(before \cup (tx[t].rows \cup {new}))
              /\ r.role = "reply" => r.basis = Cardinality(Spoken(before))
  <2>1. CASE r \in tx[t].rows
    BY <2>1 DEF Whole, AnswerRoles, before
  <2>2. CASE r = new
    BY <1>3, <1>5, <1>8, <1>9, <2>2 DEF before
  <2> QED
    BY <2>1, <2>2
<1> QED
  BY <1>2, <1>6, <1>10 DEF Whole, before

(* The prompt of a turn that has not been answered is made from all that   *)
(* was said before its question.                                           *)
LEMMA PromptIsWhole ==
  ASSUME IInv, NEW t \in Turns, InTurn(t),
         Whole(t, tx[t].rows, message[tx[t].conv]),
         \A r \in tx[t].rows : r.role \notin AnswerRoles
  PROVE  PromptHistory(t) = Spoken(message[tx[t].conv])
<1> DEFINE before == message[tx[t].conv]
           n == Cardinality(before)
<1>1. /\ before \in SUBSET Row /\ tx[t].rows \in SUBSET Row /\ n \in Nat
      /\ \A r \in before : r.seq \in 1..n
  BY NextIsLast
<1>2. \A r \in tx[t].rows : r.role # "summary" => r.seq = n + 1
  BY <1>1 DEF Whole, AnswerRoles, Row, Roles
<1>3. PICK u \in tx[t].rows : u.role = "user" /\ u.seq = n + 1
  BY DEF Whole
<1> HIDE DEF n
<1>4. u \in Spoken(Rows(t))
  BY <1>3 DEF Spoken, Rows
<1>5. \A r \in Spoken(Rows(t)) : r \in Spoken(before) \/ r.seq = n + 1
  BY <1>2 DEF Spoken, Rows
<1>6. \A r \in Spoken(Rows(t)) : r.seq \in 1..(n + 1)
  BY <1>1, <1>5 DEF Spoken
<1>7. \A r \in Spoken(before) : r \in Spoken(Rows(t)) /\ u.seq > r.seq
  BY <1>1, <1>3 DEF Spoken, Rows
<1>8. ASSUME NEW r \in PromptHistory(t) PROVE r \in Spoken(before)
  <2>1. PICK q \in Spoken(Rows(t)) : q.seq > r.seq
    BY DEF PromptHistory
  <2>2. r \in Spoken(Rows(t))
    BY DEF PromptHistory
  <2>3. r.seq # n + 1
    BY <1>1, <1>6, <2>1, <2>2
  <2> QED
    BY <1>5, <2>2, <2>3
<1>9. ASSUME NEW r \in Spoken(before) PROVE r \in PromptHistory(t)
  BY <1>4, <1>7 DEF PromptHistory
<1> QED
  BY <1>8, <1>9

(* WithRow adds one row, of the given role.                                *)
LEMMA RowsWithRow ==
  ASSUME NEW t, NEW role, NEW b
  PROVE  /\ tx[t].rows \subseteq WithRow(t, role, b)
         /\ \A r \in WithRow(t, role, b) : r \in tx[t].rows \/ r.role = role
         /\ \E r \in WithRow(t, role, b) : r.role = role
<1> DEFINE new == [seq |-> next_sequence(t), role |-> role, turn |-> t,
                   basis |-> b]
<1>1. WithRow(t, role, b) = tx[t].rows \cup {new}
  BY DEF WithRow
<1>2. new.role = role
  OBVIOUS
<1> HIDE DEF new
<1> QED
  BY <1>1, <1>2

(* What holds of a turn that is about to execute a statement of its own.   *)
LEMMA AtStatement ==
  ASSUME IInv, TurnInv, NEW t \in Turns,
         pc[t] \in {"guardrail", "prepare", "fold", "answer"}
  PROVE  /\ InTurn(t) /\ Block(t) /\ t \in Procs /\ tx[t] \in Tx
         /\ tx \in [Procs -> Tx] /\ pc \in [Procs -> Labels]
         /\ tx[t].conv \in Convs /\ conversation[tx[t].conv].summarised \in Nat
         /\ \A r \in tx[t].rows : r.role \notin AnswerRoles
         /\ tx[t].status = "same"
         /\ Cardinality(Spoken(message[tx[t].conv])) \in Nat
<1>1. InTurn(t) /\ Asked(t)
  BY DEF InTurn, Writing, Asked
<1>2. Block(t)
  BY <1>1 DEF TurnInv, TurnOf
<1>3. \A r \in tx[t].rows : r.role \notin AnswerRoles
  BY <1>2 DEF Block
<1>4. tx[t].status = "same"
  BY <1>2, <1>3 DEF Block, AnswerRoles
<1>5. /\ t \in Procs /\ tx[t] \in Tx /\ tx \in [Procs -> Tx]
      /\ pc \in [Procs -> Labels] /\ tx[t].conv \in Convs
      /\ conversation[tx[t].conv].summarised \in Nat
  BY <1>1, NextIsLast DEF IInv, TypeInv, TypeOK, Procs, ConversationRow
<1>6. Cardinality(Spoken(message[tx[t].conv])) \in Nat
  <2>1. IsFiniteSet(message[tx[t].conv])
    BY <1>1, NextIsLast
  <2>2. Spoken(message[tx[t].conv]) \in SUBSET message[tx[t].conv]
    BY DEF Spoken
  <2> QED
    BY <2>1, <2>2, FS_Subset, FS_CardinalityType
<1> QED
  BY <1>1, <1>2, <1>3, <1>4, <1>5, <1>6

(* Storing the question starts the turn's rows.                            *)
LEMMA BlockStoreUser ==
  ASSUME IInv, TurnInv, NEW t \in Turns, StoreUser(t)
  PROVE  Block(t)'
<1> DEFINE rows == tx[t].rows \cup
             {[seq |-> tx[t].next, role |-> "user", turn |-> t, basis |-> 0]}
<1>1. /\ Whole(t, rows, message[tx[t].conv])
      /\ \A r \in rows : r.role = "user"
  BY QuestionIsWhole
<1>2. /\ tx \in [Procs -> Tx] /\ tx[t] \in Tx /\ pc \in [Procs -> Labels]
      /\ rowlock \in [Convs -> Procs \cup {NoOne}] /\ t \in Procs
      /\ tx[t].conv \in Convs
  BY NextIsLast DEF IInv, TypeInv, TypeOK, Procs, StoreUser, InTurn, Writing
<1>3. tx' = [tx EXCEPT ![t].rows = rows]
  BY DEF StoreUser
<1> HIDE DEF rows
<1>4. /\ tx'[t].conv = tx[t].conv /\ tx'[t].rows = rows
      /\ tx'[t].status = tx[t].status /\ tx'[t].folded = tx[t].folded
  BY <1>2, <1>3 DEF Tx
<1>5. tx[t].status = "same" /\ tx[t].folded = 0
  BY DEF StoreUser, TurnInv, TurnOf
<1>6. /\ pc'[t] \in {"prepare", "guardrail"} /\ message' = message
      /\ rowlock'[tx[t].conv] = t
  BY <1>2 DEF StoreUser, Goto
<1> QED
  BY <1>1, <1>4, <1>5, <1>6 DEF Block, AnswerRoles

(* The answer of a guardrail is the last row of its turn, and escalates    *)
(* if it hands the conversation over.                                      *)
LEMMA BlockGuardrail ==
  ASSUME IInv, TurnInv, NEW t \in Turns, GuardrailAnswer(t)
  PROVE  Block(t)'
<1>1. /\ InTurn(t) /\ Block(t) /\ t \in Procs /\ tx[t] \in Tx
      /\ tx \in [Procs -> Tx] /\ pc \in [Procs -> Labels]
      /\ \A r \in tx[t].rows : r.role \notin AnswerRoles
      /\ tx[t].status = "same"
  BY AtStatement DEF GuardrailAnswer
<1>2. /\ pc'[t] = "commit" /\ message' = message /\ rowlock' = rowlock
      /\ conversation' = conversation
  BY <1>1 DEF GuardrailAnswer, Goto
<1>3. ASSUME NEW role \in {"decline", "handoff"}
      PROVE  Whole(t, WithRow(t, role, 0), message[tx[t].conv])
  BY <1>1, RowIsWhole DEF Block, AnswerRoles
<1>4. PICK role \in {"decline", "handoff"} :
        /\ tx'[t].conv = tx[t].conv /\ tx'[t].rows = WithRow(t, role, 0)
        /\ tx'[t].folded = tx[t].folded
        /\ tx'[t].status = IF role = "handoff" THEN _escalate(t) ELSE tx[t].status
  <2>1. CASE tx' = [tx EXCEPT ![t].rows = WithRow(t, "decline", 0)]
    BY <1>1, <2>1 DEF Tx
  <2>2. CASE tx' = [tx EXCEPT ![t].rows = WithRow(t, "handoff", 0),
                              ![t].status = _escalate(t)]
    BY <1>1, <2>2 DEF Tx
  <2> QED
    BY <2>1, <2>2 DEF GuardrailAnswer
<1>5. \A r \in WithRow(t, role, 0) : r \in tx[t].rows \/ r.role = role
  BY RowsWithRow
<1>6. \E r \in WithRow(t, role, 0) : r.role = role
  BY RowsWithRow
<1>7. tx[t].rows \subseteq WithRow(t, role, 0)
  BY RowsWithRow
<1>8. CASE role = "decline"
  <2>1. ~ \E r \in tx'[t].rows : r.role = "handoff"
    BY <1>1, <1>4, <1>5, <1>8 DEF AnswerRoles
  <2> QED
    BY <1>1, <1>2, <1>3, <1>4, <1>7, <1>8, <2>1 DEF Block
<1>9. CASE role = "handoff"
  <2>1. Status(t)' = "escalated"
    BY <1>1, <1>2, <1>4, <1>9 DEF Status, _escalate
  <2> QED
    BY <1>1, <1>2, <1>3, <1>4, <1>6, <1>7, <1>9, <2>1 DEF Block
<1> QED
  BY <1>8, <1>9

(* Preparing a prompt counts what was said before the question.            *)
LEMMA BlockPrepare ==
  ASSUME IInv, TurnInv, NEW t \in Turns, Prepare(t)
  PROVE  Block(t)'
<1> DEFINE said == Cardinality(Spoken(message[tx[t].conv]))
<1>1. /\ InTurn(t) /\ Block(t) /\ t \in Procs /\ tx[t] \in Tx
      /\ tx \in [Procs -> Tx] /\ pc \in [Procs -> Labels]
      /\ \A r \in tx[t].rows : r.role \notin AnswerRoles
      /\ tx[t].status = "same" /\ said \in Nat /\ tx[t].conv \in Convs
  BY AtStatement DEF Prepare
<1>2. PromptHistory(t) = Spoken(message[tx[t].conv])
  BY <1>1, PromptIsWhole DEF Block
<1>3. IsFiniteSet(Spoken(message[tx[t].conv]))
  <2>1. IsFiniteSet(message[tx[t].conv])
    BY <1>1, NextIsLast
  <2>2. Spoken(message[tx[t].conv]) \in SUBSET message[tx[t].conv]
    BY DEF Spoken
  <2> QED
    BY <2>1, <2>2, FS_Subset
<1>4. PICK d \in Droppable(PromptHistory(t)) :
        /\ tx' = [tx EXCEPT ![t].basis = Cardinality(PromptHistory(t)),
                            ![t].cut = Cardinality(d),
                            ![t].prepared = tx[t].prepared + 1]
        /\ Goto(t, IF Cardinality(d) > Summarised(t) THEN "fold"
                   ELSE AfterPrepare(t, tx[t].prepared + 1))
  BY DEF Prepare
<1>5. Cardinality(d) <= said
  BY <1>2, <1>3, FS_Subset DEF Droppable
<1>6. ASSUME NEW b, NEW k, NEW n,
             tx' = [tx EXCEPT ![t].basis = b, ![t].cut = k, ![t].prepared = n]
      PROVE  /\ tx'[t].conv = tx[t].conv /\ tx'[t].rows = tx[t].rows
             /\ tx'[t].folded = tx[t].folded /\ tx'[t].status = tx[t].status
             /\ tx'[t].basis = b /\ tx'[t].cut = k
  BY <1>1, <1>6 DEF Tx
<1>7. /\ tx'[t].conv = tx[t].conv /\ tx'[t].rows = tx[t].rows
      /\ tx'[t].folded = tx[t].folded /\ tx'[t].status = tx[t].status
      /\ tx'[t].basis = said /\ tx'[t].cut = Cardinality(d)
  BY <1>2, <1>4, <1>6
<1>8. message' = message /\ rowlock' = rowlock /\ conversation' = conversation
  BY DEF Prepare
<1>9. pc'[t] \in {"fold", "prepare", "answer"}
      /\ (pc'[t] = "fold" => Cardinality(d) > Summarised(t))
  BY <1>1, <1>4 DEF Goto, AfterPrepare
<1>10. Summarised(t)' = Summarised(t)
  BY <1>7, <1>8 DEF Summarised
<1> QED
  BY <1>1, <1>5, <1>7, <1>8, <1>9, <1>10 DEF Block, AnswerRoles

(* A fold goes beyond what the summary covered, and leaves a summary row.  *)
LEMMA BlockFold ==
  ASSUME IInv, TurnInv, NEW t \in Turns, Fold(t)
  PROVE  Block(t)'
<1>1. /\ InTurn(t) /\ Block(t) /\ t \in Procs /\ tx[t] \in Tx
      /\ tx \in [Procs -> Tx] /\ pc \in [Procs -> Labels]
      /\ \A r \in tx[t].rows : r.role \notin AnswerRoles
      /\ tx[t].status = "same" /\ pc[t] = "fold"
      /\ conversation[tx[t].conv].summarised \in Nat
      /\ Cardinality(Spoken(message[tx[t].conv])) \in Nat
  BY AtStatement DEF Fold
<1>2. /\ message' = message /\ rowlock' = rowlock /\ conversation' = conversation
      /\ pc'[t] \in {"prepare", "answer"}
  BY <1>1 DEF Fold, Goto, AfterPrepare
<1>3. CASE UNCHANGED tx
  BY <1>1, <1>2, <1>3 DEF Block, AnswerRoles
<1>4. CASE tx' = [tx EXCEPT ![t].folded = tx[t].cut,
                            ![t].rows = WithRow(t, "summary", 0)]
  <2>1. /\ tx'[t].conv = tx[t].conv /\ tx'[t].rows = WithRow(t, "summary", 0)
        /\ tx'[t].folded = tx[t].cut /\ tx'[t].status = tx[t].status
        /\ tx'[t].basis = tx[t].basis
    BY <1>1, <1>4 DEF Tx
  <2>2. Whole(t, WithRow(t, "summary", 0), message[tx[t].conv])
    BY <1>1, RowIsWhole DEF Block
  <2>3. tx[t].cut > conversation[tx[t].conv].summarised
        /\ tx[t].cut <= Cardinality(Spoken(message[tx[t].conv]))
        /\ tx[t].basis = Cardinality(Spoken(message[tx[t].conv]))
    <3>1. tx[t].cut \in Nat /\ tx[t].folded \in Nat
      BY <1>1 DEF Tx
    <3> QED
      BY <1>1, <3>1 DEF Block, Summarised
  <2>4. /\ \A r \in WithRow(t, "summary", 0) : r.role \notin AnswerRoles
        /\ \E r \in WithRow(t, "summary", 0) : r.role = "summary"
    BY <1>1, RowsWithRow DEF AnswerRoles
  <2> QED
    BY <1>1, <1>2, <2>1, <2>2, <2>3, <2>4 DEF Block, AnswerRoles
<1> QED
  BY <1>3, <1>4 DEF Fold

(* The reply is the last row of its turn.                                  *)
LEMMA BlockReply ==
  ASSUME IInv, TurnInv, NEW t \in Turns, StoreReply(t)
  PROVE  Block(t)'
<1>1. /\ InTurn(t) /\ Block(t) /\ t \in Procs /\ tx[t] \in Tx
      /\ tx \in [Procs -> Tx] /\ pc \in [Procs -> Labels]
      /\ \A r \in tx[t].rows : r.role \notin AnswerRoles
      /\ tx[t].status = "same" /\ pc[t] = "answer"
  BY AtStatement DEF StoreReply
<1>2. /\ message' = message /\ rowlock' = rowlock /\ conversation' = conversation
      /\ pc'[t] = "commit"
  BY <1>1 DEF StoreReply, Goto
<1>3. /\ tx'[t].conv = tx[t].conv
      /\ tx'[t].rows = WithRow(t, "reply", tx[t].basis)
      /\ tx'[t].folded = tx[t].folded /\ tx'[t].status = tx[t].status
  BY <1>1 DEF StoreReply, Tx
<1>4. Whole(t, WithRow(t, "reply", tx[t].basis), message[tx[t].conv])
  BY <1>1, RowIsWhole DEF Block, AnswerRoles
<1>5. /\ \A r \in WithRow(t, "reply", tx[t].basis) : r.role # "handoff"
      /\ tx[t].rows \subseteq WithRow(t, "reply", tx[t].basis)
  BY <1>1, RowsWithRow DEF AnswerRoles
<1> QED
  BY <1>1, <1>2, <1>3, <1>4, <1>5 DEF Block, AnswerRoles

(* A turn's own step keeps what is said of it.                             *)
LEMMA TurnOfActor ==
  ASSUME IInv, TurnInv, NEW t \in Turns, t \in Procs, StepOf(t),
         Receive(t) \/ Refuse(t) \/ Progress(t) \/ Crash(t)
  PROVE  TurnOf(t)'
<1>1. /\ pc \in [Procs -> Labels] /\ tx \in [Procs -> Tx] /\ tx[t] \in Tx
      /\ NoTx.status = "same" /\ NoTx.folded = 0 /\ NoTx.conv = NoConv
      /\ Placed(t) /\ TurnOf(t)
  BY DEF IInv, TypeInv, TypeOK, LockInv, TurnInv, NoTx
<1>2. pc[t] \notin Over
  BY DEF Receive, Refuse, Progress, Crash, Over, LoadSession, FindSession,
         InsertSession, ReselectSession, RaiseNoSession, lock_conversation,
         ReadSequence, StoreUser, GuardrailAnswer, Prepare, Fold, StoreReply,
         StreamEmpty, ProviderFails, Commit, Rollback
<1>3. CASE Commit(t) \/ Rollback(t) \/ Crash(t)
  <2>1. pc'[t] \in {"done", "failed"}
    BY <1>1, <1>3 DEF Commit, Rollback, Crash, Goto
  <2> QED
    BY <2>1 DEF TurnOf, Asked, InTurn, Writing, Over
<1>4. ASSUME ~(Commit(t) \/ Rollback(t) \/ Crash(t))
      PROVE  \A c \in Convs : \A r \in message'[c] : r.turn # t
  <2>1. message' = message
    BY <1>4, OnlyCommitsAreSeen
  <2> QED
    BY <1>1, <1>2, <2>1 DEF TurnOf
<1>5. CASE \/ Receive(t) \/ Refuse(t) \/ LoadSession(t) \/ FindSession(t)
           \/ InsertSession(t) \/ ReselectSession(t)
  <2>1. pc'[t] \notin Writing \cup {"commit"}
    BY <1>1, <1>5
       DEF Receive, Refuse, LoadSession, FindSession, InsertSession,
           ReselectSession, Goto, Writing
  <2>2. tx'[t].status = tx[t].status /\ tx'[t].folded = tx[t].folded
    <3>1. ASSUME NEW c, tx' = [tx EXCEPT ![t].conv = c]
          PROVE  tx'[t].status = tx[t].status /\ tx'[t].folded = tx[t].folded
      BY <1>1, <3>1 DEF Tx
    <3>2. ASSUME NEW c, tx' = [tx EXCEPT ![t].conv = c, ![t].created = TRUE]
          PROVE  tx'[t].status = tx[t].status /\ tx'[t].folded = tx[t].folded
      BY <1>1, <3>2 DEF Tx
    <3>3. \/ tx' = tx
          \/ \E c : tx' = [tx EXCEPT ![t].conv = c]
          \/ \E c : tx' = [tx EXCEPT ![t].conv = c, ![t].created = TRUE]
      BY <1>5 DEF Receive, Refuse, LoadSession, FindSession, InsertSession,
                  ReselectSession
    <3> QED
      BY <3>1, <3>2, <3>3
  <2>3. tx[t].status = "same" /\ tx[t].folded = 0
    BY <1>1, <1>5
       DEF Receive, Refuse, LoadSession, FindSession, InsertSession,
           ReselectSession, Placed, TurnOf
  <2>4. ~(Commit(t) \/ Rollback(t) \/ Crash(t)) \/ pc'[t] \in Over
    BY <1>1 DEF Commit, Rollback, Crash, Goto, Over
  <2> QED
    BY <1>4, <2>1, <2>2, <2>3, <2>4 DEF TurnOf, Asked, InTurn, Writing
<1>6. CASE RaiseNoSession(t) \/ lock_conversation(t)
  <2>1. tx' = tx /\ pc[t] \in {"noSession", "lock"}
        /\ \/ pc'[t] \in {"commit", "rollback"} /\ pc[t] = "noSession"
           \/ pc'[t] = "sequence" /\ pc[t] = "lock"
    BY <1>1, <1>6 DEF RaiseNoSession, lock_conversation, Goto, AfterError
  <2>2. ~Asked(t)'
    BY <1>1, <2>1 DEF Asked, InTurn, Writing, Placed
  <2>3. ~(Commit(t) \/ Rollback(t) \/ Crash(t)) \/ pc'[t] \in Over
    BY <1>1 DEF Commit, Rollback, Crash, Goto, Over
  <2> QED
    BY <1>1, <1>4, <2>1, <2>2, <2>3 DEF TurnOf
<1>7. CASE ReadSequence(t)
  <2>1. tx'[t].status = tx[t].status /\ tx'[t].folded = tx[t].folded
        /\ pc'[t] = "store" /\ pc[t] = "sequence"
    BY <1>1, <1>7 DEF ReadSequence, Tx, Goto
  <2>2. ~(Commit(t) \/ Rollback(t) \/ Crash(t)) \/ pc'[t] \in Over
    BY <1>1 DEF Commit, Rollback, Crash, Goto, Over
  <2> QED
    BY <1>1, <1>4, <2>1, <2>2 DEF TurnOf, Asked
<1>8. CASE StoreUser(t) \/ GuardrailAnswer(t) \/ Prepare(t) \/ Fold(t)
           \/ StoreReply(t)
  <2>1. pc'[t] \in {"prepare", "guardrail", "commit", "fold", "answer"}
    BY <1>1, <1>8 DEF StoreUser, GuardrailAnswer, Prepare, Fold, StoreReply,
                      Goto, AfterPrepare
  <2>2. Block(t)'
    BY <1>8, BlockStoreUser, BlockGuardrail, BlockPrepare, BlockFold, BlockReply
  <2>3. ~(Commit(t) \/ Rollback(t) \/ Crash(t)) \/ pc'[t] \in Over
    BY <1>1 DEF Commit, Rollback, Crash, Goto, Over
  <2> QED
    BY <1>4, <2>1, <2>2, <2>3 DEF TurnOf
<1>9. CASE StreamEmpty(t) \/ ProviderFails(t)
  <2>1. /\ tx' = tx /\ message' = message /\ rowlock' = rowlock
        /\ conversation' = conversation /\ pc'[t] \in {"commit", "rollback"}
        /\ pc[t] = "answer"
    BY <1>1, <1>9 DEF StreamEmpty, ProviderFails, Goto, AfterError
  <2>2. Block(t)
    BY <2>1, AtStatement
  <2>3. Block(t)'
    BY <2>1, <2>2 DEF Block, Status
  <2>4. ~(Commit(t) \/ Rollback(t) \/ Crash(t)) \/ pc'[t] \in Over
    BY <1>1 DEF Commit, Rollback, Crash, Goto, Over
  <2> QED
    BY <1>4, <2>1, <2>3, <2>4 DEF TurnOf
<1> QED
  BY <1>3, <1>5, <1>6, <1>7, <1>8, <1>9 DEF Progress

-----------------------------------------------------------------------------
(* Operators, and what the summary covers.                                 *)

(* Every step keeps what is said of an operator.                           *)
LEMMA OperatorStep ==
  ASSUME IInv, TurnInv, NEW p \in Procs, StepOf(p), NEW o \in Handovers
  PROVE  OperatorOf(o)'
<1>1. /\ o \in Procs /\ o \notin Turns /\ TypeInv /\ OperatorOf(o)
      /\ pc \in [Procs -> Labels] /\ tx \in [Procs -> Tx] /\ tx[o] \in Tx
      /\ rowlock \in [Convs -> Procs \cup {NoOne}]
      /\ NoTx.folded = 0 /\ NoTx.conv = NoConv
  BY TurnsAssumption DEF Procs, IInv, TypeInv, TypeOK, TurnInv, NoTx
<1>2. CASE o # p
  <2>1. /\ pc'[o] = pc[o] /\ tx'[o] = tx[o]
        /\ \A c \in Convs : rowlock[c] = o => rowlock'[c] = o
    BY <1>1, <1>2, OthersKeepTheirs
  <2>2. tx[o].conv \in Convs \cup {NoConv}
    BY <1>1 DEF Tx
  <2> QED
    BY <1>1, <2>1, <2>2 DEF OperatorOf
<1>3. CASE ReadConversation(o)
  <2>1. CASE UNCHANGED tx
    BY <1>1, <1>3, <2>1 DEF ReadConversation, Goto, OperatorOf
  <2>2. CASE \E c \in Convs, s \in Ended :
               /\ tx' = [tx EXCEPT ![o].conv = c, ![o].status = s]
               /\ Goto(o, "update")
    <3>1. tx'[o].folded = tx[o].folded /\ tx'[o].status \in Ended
          /\ pc'[o] = "update"
      BY <1>1, <2>2 DEF Tx, Goto
    <3> QED
      BY <1>1, <3>1 DEF OperatorOf
  <2> QED
    BY <1>3, <2>1, <2>2 DEF ReadConversation, Ended
<1>4. CASE UpdateStatus(o)
  <2>1. tx[o].conv \in Convs \cup {NoConv}
    BY <1>1 DEF Tx
  <2>2. /\ tx' = tx /\ pc'[o] = "commit" /\ pc[o] = "update"
        /\ tx[o].conv \in Convs => rowlock'[tx[o].conv] = o
    BY <1>1, <1>4 DEF UpdateStatus, Goto
  <2> QED
    BY <1>1, <2>1, <2>2 DEF OperatorOf
<1>5. CASE Commit(o) \/ Crash(o)
  <2>1. tx'[o] = NoTx
    BY <1>1, <1>5 DEF Commit, Crash, Forget
  <2> QED
    BY <1>1, <2>1 DEF OperatorOf
<1> QED
  BY <1>1, <1>2, <1>3, <1>4, <1>5 DEF StepOf, Handover

(* Fewer rows say no more.                                                 *)
LEMMA SpokenGrows ==
  ASSUME NEW rows, IsFiniteSet(rows), NEW before \in SUBSET rows
  PROVE  /\ Cardinality(Spoken(before)) \in Nat
         /\ Cardinality(Spoken(rows)) \in Nat
         /\ Cardinality(Spoken(before)) <= Cardinality(Spoken(rows))
<1>1. /\ Spoken(rows) \in SUBSET rows /\ Spoken(before) \in SUBSET Spoken(rows)
  BY DEF Spoken
<1>2. IsFiniteSet(Spoken(rows))
  BY <1>1, FS_Subset
<1>3. IsFiniteSet(Spoken(before))
      /\ Cardinality(Spoken(before)) <= Cardinality(Spoken(rows))
  BY <1>1, <1>2, FS_Subset
<1> QED
  BY <1>2, <1>3, FS_CardinalityType

(* A commit writes back what the summary covered or more, at most what was *)
(* said.                                                                   *)
LEMMA SummaryOfCommit ==
  ASSUME IInv, TurnInv, NEW p \in Procs, Commit(p), tx[p].conv # NoConv
  PROVE  LET c == tx[p].conv IN
         /\ Summarised(p) >= conversation[c].summarised
         /\ Summarised(p) <= Cardinality(Spoken(Rows(p)))
<1> DEFINE c == tx[p].conv
<1>1. /\ c \in Convs /\ tx[p].folded \in Nat /\ IsFiniteSet(message[c])
      /\ IsFiniteSet(tx[p].rows) /\ conversation[c].summarised \in Nat
  BY DEF IInv, TypeInv, TypeOK, Tx, ConversationRow
<1>2. IsFiniteSet(Rows(p)) /\ message[c] \in SUBSET Rows(p)
  BY <1>1, FS_Union DEF Rows
<1>3. /\ Cardinality(Spoken(message[c])) \in Nat
      /\ Cardinality(Spoken(Rows(p))) \in Nat
      /\ Cardinality(Spoken(message[c])) <= Cardinality(Spoken(Rows(p)))
  BY <1>2, SpokenGrows
<1>4. conversation[c].summarised <= Cardinality(Spoken(message[c]))
  BY <1>1 DEF TurnInv, SummaryInv
<1>5. tx[p].folded > 0 => /\ tx[p].folded > conversation[c].summarised
                          /\ tx[p].folded <= Cardinality(Spoken(message[c]))
  <2>1. CASE p \in Turns
    <3>1. Asked(p)
      BY <2>1 DEF Commit, Asked, InTurn
    <3>2. Block(p)
      BY <2>1, <3>1 DEF TurnInv, TurnOf
    <3> QED
      BY <3>2 DEF Block
  <2>2. CASE p \in Handovers
    BY <2>2 DEF TurnInv, OperatorOf
  <2> QED
    BY <2>1, <2>2 DEF Procs
<1> QED
  BY <1>1, <1>3, <1>4, <1>5 DEF Summarised

(* What a commit leaves in the database.                                   *)
LEMMA AfterCommit ==
  ASSUME IInv, NEW p \in Procs, Commit(p), tx[p].conv # NoConv
  PROVE  LET c == tx[p].conv IN
         /\ c \in Convs
         /\ conversation'[c] = Committed(p) /\ message'[c] = Rows(p)
         /\ \A d \in Convs \ {c} : /\ conversation'[d] = conversation[d]
                                   /\ message'[d] = message[d]
BY DEF Commit, IInv, TypeInv, TypeOK, Tx

(* The summary never covers more than has been said.                       *)
LEMMA SummaryStep ==
  ASSUME IInv, TurnInv, NEW p \in Procs, StepOf(p)
  PROVE  SummaryInv'
<1>1. CASE ~Commit(p) \/ tx[p].conv = NoConv
  BY <1>1, OnlyCommitsAreSeen DEF Commit, TurnInv, SummaryInv
<1>2. CASE Commit(p) /\ tx[p].conv # NoConv
  <2>1. Committed(p).summarised = Summarised(p)
    BY DEF Committed
  <2>2. Summarised(p) <= Cardinality(Spoken(Rows(p)))
    BY <1>2, SummaryOfCommit
  <2> QED
    BY <1>2, <2>1, <2>2, AfterCommit DEF TurnInv, SummaryInv
<1> QED
  BY <1>1, <1>2

(* The initial states satisfy the invariant.                               *)
LEMMA TurnInit == Init => TurnInv
<1> SUFFICES ASSUME Init PROVE TurnInv
  OBVIOUS
<1>1. /\ NoTx.status = "same" /\ NoTx.folded = 0 /\ NoTx.conv = NoConv
  BY DEF NoTx
<1>2. Spoken({}) = {} /\ Cardinality({}) = 0
  BY FS_EmptySet DEF Spoken
<1>3. ASSUME NEW t \in Turns PROVE TurnOf(t)
  BY DEF Init, TurnOf, Asked, InTurn, Writing, Procs
<1>4. ASSUME NEW o \in Handovers PROVE OperatorOf(o)
  <2>1. tx[o] = NoTx /\ pc[o] = "idle"
    BY DEF Init, Procs
  <2> QED
    BY <1>1, <2>1 DEF OperatorOf
<1>5. ASSUME NEW c \in Convs
      PROVE  conversation[c].summarised <= Cardinality(Spoken(message[c]))
  <2>1. conversation[c].summarised = 0 /\ message[c] = {}
    BY DEF Init, Unused
  <2> QED
    BY <1>2, <2>1
<1> QED
  BY <1>3, <1>4, <1>5 DEF TurnInv, SummaryInv

(* Every step keeps it.                                                    *)
LEMMA TurnStep == IInv /\ TurnInv /\ [Next]_vars => TurnInv'
<1> SUFFICES ASSUME IInv, TurnInv, [Next]_vars PROVE TurnInv'
  OBVIOUS
<1>1. CASE UNCHANGED vars
  <2>1. \A t \in Turns : TurnOf(t)'
    BY <1>1 DEF vars, TurnInv, TurnOf, Asked, InTurn, Block, Status, Summarised
  <2>2. \A o \in Handovers : OperatorOf(o)'
    BY <1>1 DEF vars, TurnInv, OperatorOf
  <2>3. SummaryInv'
    BY <1>1 DEF vars, TurnInv, SummaryInv
  <2> QED
    BY <2>1, <2>2, <2>3 DEF TurnInv
<1>2. ASSUME NEW p \in Procs, StepOf(p)
      PROVE  TurnInv'
  <2>1. ASSUME NEW t \in Turns PROVE TurnOf(t)'
    <3>1. CASE t = p
      <4>1. t \in Procs /\ t \notin Handovers
        BY TurnsAssumption DEF Procs
      <4>2. Receive(t) \/ Refuse(t) \/ Progress(t) \/ Crash(t)
        BY <1>2, <3>1, <4>1 DEF StepOf
      <4> QED
        BY <1>2, <3>1, <4>1, <4>2, TurnOfActor
    <3>2. CASE t # p
      BY <1>2, <3>2, TurnOfOther
    <3> QED
      BY <3>1, <3>2
  <2> QED
    BY <1>2, <2>1, OperatorStep, SummaryStep DEF TurnInv
<1> QED
  BY <1>1, <1>2, NextIsAStep

-----------------------------------------------------------------------------
(* The refinement.                                                         *)

(* SerialTurns counts as ConversationTurns does.                           *)
LEMMA SameCardinality == \A S : Serial!Cardinality(S) = Cardinality(S)
BY DEF Serial!Cardinality, Cardinality

(* What a turn has written when it commits is one whole turn of            *)
(* SerialTurns.                                                            *)
LEMMA CommittedTurnIsWhole ==
  ASSUME IInv, TurnInv, NEW t \in Turns, Commit(t), tx[t].conv # NoConv
  PROVE  LET c == tx[t].conv IN
         /\ Block(t) /\ message[c] \cap tx[t].rows = {}
         /\ tx[t].rows # {} /\ Serial!IsTurn(t, message[c], tx[t].rows)
<1> DEFINE before == message[tx[t].conv]
           rows == tx[t].rows
<1>1. Asked(t) /\ InTurn(t) /\ pc[t] = "commit"
  BY DEF Commit, Asked, InTurn
<1>2. Block(t) /\ TurnOf(t)
  BY <1>1 DEF TurnInv, TurnOf
<1>3. /\ before \in SUBSET Row /\ IsFiniteSet(before) /\ Numbered(before)
      /\ rows \in SUBSET Row /\ IsFiniteSet(rows) /\ Numbered(before \cup rows)
      /\ tx[t].conv \in Convs
  BY <1>1, NextIsLast DEF Rows
<1>4. Whole(t, rows, before)
  BY <1>2 DEF Block
<1>5. before \cap rows = {}
  <2>1. \A r \in before : r.turn # t
    BY <1>1, <1>2, <1>3 DEF TurnOf, Over
  <2>2. \A r \in rows : r.turn = t
    BY <1>4 DEF Whole
  <2> QED
    BY <2>1, <2>2
<1> HIDE DEF before, rows
<1>6. /\ Cardinality(before \cup rows) = Cardinality(before) + Cardinality(rows)
      /\ {r.seq : r \in rows} =
           Cardinality(before) + 1 .. Cardinality(before) + Cardinality(rows)
  BY <1>3, <1>5, SequencesOfBlock
<1>7. Serial!IsTurn(t, before, rows)
  BY <1>4, <1>6, SameCardinality DEF Whole, AnswerRoles, Serial!IsTurn, Serial!Answers,
                    Serial!Spoken, Spoken
<1>8. rows # {}
  BY <1>4 DEF Whole
<1> QED
  BY <1>2, <1>5, <1>7, <1>8 DEF before, rows

(* The commit of a turn adds it to its conversation.                       *)
LEMMA CommitAddsTurn ==
  ASSUME IInv, TurnInv, NEW t \in Turns, Commit(t), tx[t].conv # NoConv
  PROVE  Serial!AddTurn(t, tx[t].conv)
<1> DEFINE c == tx[t].conv
           was == conversation[c]
           now == conversation'[c]
           rows == message'[c] \ message[c]
<1>1. t \in Procs /\ TurnOf(t) /\ pc[t] = "commit"
  BY DEF Procs, TurnInv, Commit
<1>2. /\ c \in Convs /\ now = Committed(t) /\ message'[c] = Rows(t)
      /\ \A d \in Convs \ {c} : /\ conversation'[d] = conversation[d]
                                /\ message'[d] = message[d]
  BY <1>1, AfterCommit
<1>3. /\ Block(t) /\ message[c] \cap tx[t].rows = {}
      /\ tx[t].rows # {} /\ Serial!IsTurn(t, message[c], tx[t].rows)
  BY CommittedTurnIsWhole
<1>4. rows = tx[t].rows /\ message[c] \subseteq message'[c]
  BY <1>2, <1>3 DEF Rows
<1>5. \A d \in Convs : \A r \in message[d] : r.turn # t
  BY <1>1 DEF TurnOf, Over
<1>6. /\ now.key = IF tx[t].created THEN request[t].key ELSE was.key
      /\ now.status = IF tx[t].status = "same" /\ tx[t].created THEN "active"
                      ELSE Status(t)
      /\ now.summarised = Summarised(t)
  BY <1>2 DEF Committed
<1>7. tx[t].created <=> was.status = "none"
  BY <1>1, <1>2 DEF IInv, SessionInv, Creating
<1>8. tx[t].created => request[t].key \in Keys /\ Serial!Open(request[t].key) = {}
  BY DEF IInv, SessionInv, Creating, Request, find_open_session, Serial!Open
<1>9. now.status = IF \E r \in rows : r.role = "handoff" THEN "escalated"
                   ELSE IF was.status = "none" THEN "active" ELSE was.status
  <2>1. CASE \E r \in tx[t].rows : r.role = "handoff"
    <3>1. Status(t) = "escalated"
      BY <1>3, <2>1 DEF Block
    <3>2. ~(tx[t].status = "same" /\ tx[t].created)
      BY <1>7, <3>1 DEF Status
    <3> QED
      BY <1>4, <1>6, <2>1, <3>1, <3>2
  <2>2. CASE ~ \E r \in tx[t].rows : r.role = "handoff"
    <3>1. tx[t].status = "same"
      BY <1>3, <2>2 DEF Block
    <3> QED
      BY <1>4, <1>6, <1>7, <2>2, <3>1 DEF Status
  <2> QED
    BY <2>1, <2>2
<1>10. now.summarised >= was.summarised
  BY <1>1, <1>6, SummaryOfCommit
<1>11. now.summarised > was.summarised => \E r \in rows : r.role = "summary"
  <2>1. tx[t].folded \in Nat /\ was.summarised \in Nat
    BY <1>1, <1>2 DEF IInv, TypeInv, TypeOK, Tx, ConversationRow
  <2>2. now.summarised > was.summarised => tx[t].folded > 0
    BY <1>6, <2>1 DEF Summarised
  <2> QED
    BY <1>3, <1>4, <2>2 DEF Block
<1> HIDE DEF c, was, now, rows
<1>12. was.status = "none" => now.key \in Keys /\ Serial!Open(now.key) = {}
  BY <1>6, <1>7, <1>8
<1>13. was.status # "none" => now.key = was.key
  BY <1>6, <1>7
<1> QED
  BY <1>2, <1>3, <1>4, <1>5, <1>9, <1>10, <1>11, <1>12, <1>13
     DEF Serial!AddTurn, c, was, now, rows

(* The commit of an operator ends a session.                               *)
LEMMA CommitEndsSession ==
  ASSUME IInv, TurnInv, NEW o \in Handovers, Commit(o), tx[o].conv # NoConv
  PROVE  Serial!EndSession(tx[o].conv)
<1> DEFINE c == tx[o].conv
<1>1. o \in Procs /\ OperatorOf(o) /\ TypeOK
  BY DEF Procs, TurnInv, IInv, TypeInv
<1>2. /\ tx[o].rows = {} /\ tx[o].created = FALSE /\ tx[o].folded = 0
      /\ tx[o].status \in Ended
  BY <1>1 DEF IInv, TypeInv, TypeOK, Tx, OperatorOf
<1>3. c \in Convs /\ conversation[c] \in ConversationRow
  BY <1>1, AfterCommit DEF TypeOK
<1>4. conversation[c].status # "none"
  BY <1>1, <1>2, <1>3 DEF IInv, SessionInv
<1>5. Committed(o) = [conversation[c] EXCEPT !.status = tx[o].status]
  <2>1. /\ Committed(o).key = conversation[c].key
        /\ Committed(o).status = tx[o].status
        /\ Committed(o).summarised = conversation[c].summarised
    BY <1>2 DEF Committed, Status, Summarised, Ended
  <2>2. Committed(o) = [key |-> conversation[c].key, status |-> tx[o].status,
                        summarised |-> conversation[c].summarised]
    BY <2>1 DEF Committed
  <2> QED
    BY <1>3, <2>2 DEF ConversationRow
<1>6. Rows(o) = message[c]
  BY <1>2 DEF Rows
<1>7. /\ conversation' = [conversation EXCEPT ![c] = Committed(o)]
      /\ message' = [message EXCEPT ![c] = Rows(o)]
  BY DEF Commit
<1>8. conversation' = [conversation EXCEPT ![c].status = tx[o].status]
  BY <1>5, <1>7
<1>9. message' = message
  BY <1>1, <1>3, <1>6, <1>7 DEF TypeOK
<1> HIDE DEF c
<1> QED
  BY <1>2, <1>4, <1>8, <1>9 DEF Serial!EndSession, Ended, c

(* Every step is a step of SerialTurns or leaves its variables alone.      *)
LEMMA SerialStep ==
  IInv /\ TurnInv /\ [Next]_vars => [Serial!Next]_Serial!vars
<1> SUFFICES ASSUME IInv, TurnInv, [Next]_vars
             PROVE  Serial!Next \/ UNCHANGED <<conversation, message>>
  BY DEF Serial!vars
<1>1. CASE UNCHANGED vars
  BY <1>1 DEF vars
<1>2. ASSUME NEW p \in Procs, StepOf(p)
      PROVE  Serial!Next \/ UNCHANGED <<conversation, message>>
  <2>1. CASE ~Commit(p) \/ tx[p].conv = NoConv
    BY <1>2, <2>1, OnlyCommitsAreSeen DEF Commit
  <2>2. CASE Commit(p) /\ tx[p].conv # NoConv
    <3>1. tx[p].conv \in Convs
      BY <2>2, AfterCommit
    <3> QED
      BY <2>2, <3>1, CommitAddsTurn, CommitEndsSession DEF Procs, Serial!Next
  <2> QED
    BY <2>1, <2>2
<1> QED
  BY <1>1, <1>2, NextIsAStep

(* The concurrent transactions of turns and operators, whatever crashes    *)
(* and fails among them, leave transcripts that turns run one after        *)
(* another could have left: each turn whole, once, answered from all that  *)
(* was said before it, in a session that is the only open one of its key.  *)
THEOREM TurnsImplementSerialTurns == Spec => TurnsAreSerial
<1>1. Init => Serial!Init
  BY DEF Init, Unused, Serial!Init
<1>2. IInv /\ TurnInv /\ [Next]_vars => IInv' /\ TurnInv'
  BY InvStep, TurnStep
<1> QED
  BY <1>1, <1>2, InvInit, TurnInit, SerialStep, PTL
     DEF Spec, TurnsAreSerial, Serial!Spec

-----------------------------------------------------------------------------
(* What serial turns leave in a transcript.                                *)

TranscriptInv == WholeTurns /\ RepliesFromWholeHistory /\ HandoffIsKept

(* The rows of the turn that a serial step adds come after all others, its *)
(* question first.                                                         *)
LEMMA AddedRows ==
  ASSUME IInv, TypeInv', NEW t \in Turns, NEW c \in Convs,
         Serial!AddTurn(t, c)
  PROVE  LET n == Cardinality(message[c])
             rows == message'[c] \ message[c]
         IN  /\ n \in Nat /\ message'[c] = message[c] \cup rows
             /\ \A r \in message[c] : r.seq \in 1..n /\ r.turn # t
             /\ \A r \in rows : /\ r.seq \in Int /\ r.seq > n /\ r.turn = t
                                /\ (r.role = "user") <=> (r.seq = n + 1)
                                /\ r.role = "reply" =>
                                     r.basis = Cardinality(Spoken(message[c]))
             /\ \E u \in rows : u.seq = n + 1 /\ u.role = "user"
             /\ \A d \in Convs \ {c} : message'[d] = message[d]
<1> DEFINE n == Cardinality(message[c])
           rows == message'[c] \ message[c]
           k == Cardinality(rows)
<1>1. /\ message[c] \in SUBSET Row /\ IsFiniteSet(message[c])
      /\ Numbered(message[c])
  BY DEF IInv, TypeInv, TypeOK, SequenceInv, SequencesInOrder
<1>2. n \in Nat /\ k \in Nat /\ {r.seq : r \in message[c]} = 1..n
  <2>1. IsFiniteSet(message'[c]) /\ rows \in SUBSET message'[c]
    BY DEF TypeInv
  <2>2. IsFiniteSet(rows)
    BY <2>1, FS_Subset
  <2> QED
    BY <1>1, <2>2, SequencesOfNumbered, FS_CardinalityType
<1>3. /\ message'[c] = message[c] \cup rows /\ rows # {}
      /\ \A r \in message[c] : r.turn # t
      /\ Serial!IsTurn(t, message[c], rows)
      /\ \A d \in Convs \ {c} : message'[d] = message[d]
  BY DEF Serial!AddTurn
<1>4. /\ {r.seq : r \in rows} = n + 1 .. n + k
      /\ \A r \in rows : /\ r.turn = t
                         /\ (r.role = "user") <=> (r.seq = n + 1)
                         /\ r.role = "reply" =>
                              r.basis = Cardinality(Spoken(message[c]))
  BY <1>3, SameCardinality DEF Serial!IsTurn, Serial!Spoken, Spoken
<1> HIDE DEF n, rows, k
<1>5. \A r \in rows : r.seq \in n + 1 .. n + k
  BY <1>4
<1>6. \A r \in rows : r.seq \in Int /\ r.seq > n
  BY <1>2, <1>5
<1>7. n + 1 \in n + 1 .. n + k
  <2>1. PICK r \in rows : TRUE
    BY <1>3
  <2>2. r.seq \in n + 1 .. n + k
    BY <1>5, <2>1
  <2> QED
    BY <1>2, <2>2
<1>8. \E u \in rows : u.seq = n + 1 /\ u.role = "user"
  BY <1>4, <1>7
<1> QED
  BY <1>2, <1>3, <1>4, <1>6, <1>8 DEF n, rows

(* A serial step keeps turns whole: a new turn follows the others.         *)
LEMMA AddKeepsWhole ==
  ASSUME IInv, TypeInv', WholeTurns, NEW t \in Turns, NEW c \in Convs,
         Serial!AddTurn(t, c)
  PROVE  WholeTurns'
<1> DEFINE n == Cardinality(message[c])
           rows == message'[c] \ message[c]
<1>1. /\ n \in Nat /\ message'[c] = message[c] \cup rows
      /\ \A r \in message[c] : r.seq \in 1..n /\ r.turn # t
      /\ \A r \in rows : /\ r.seq \in Int /\ r.seq > n /\ r.turn = t
                         /\ (r.role = "user") <=> (r.seq = n + 1)
      /\ \E u \in rows : u.seq = n + 1 /\ u.role = "user"
      /\ \A d \in Convs \ {c} : message'[d] = message[d]
  BY AddedRows
<1> HIDE DEF n, rows
<1>2. ASSUME NEW r \in message'[c], NEW s \in message'[c],
             r.turn = s.turn, r.seq <= s.seq
      PROVE  /\ \A m \in message'[c] :
                  r.seq <= m.seq /\ m.seq <= s.seq => m.turn = r.turn
             /\ \E m \in message'[c] :
                  m.turn = r.turn /\ m.role = "user" /\ m.seq <= r.seq
  <2>1. CASE r \in message[c]
    <3>1. s \in message[c]
      BY <1>1, <1>2, <2>1
    <3>2. ASSUME NEW m \in message'[c], m.seq <= s.seq PROVE m \in message[c]
      BY <1>1, <3>1, <3>2
    <3>3. /\ \A m \in message[c] :
               r.seq <= m.seq /\ m.seq <= s.seq => m.turn = r.turn
          /\ \E m \in message[c] :
               m.turn = r.turn /\ m.role = "user" /\ m.seq <= r.seq
      BY <1>2, <2>1, <3>1 DEF WholeTurns
    <3> QED
      BY <1>1, <3>2, <3>3
  <2>2. CASE r \in rows
    <3>1. ASSUME NEW m \in message'[c], r.seq <= m.seq PROVE m.turn = r.turn
      <4>1. CASE m \in message[c]
        <5>1. m.seq \in 1..n /\ r.seq > n /\ r.seq \in Int
          BY <1>1, <2>2, <4>1
        <5> QED
          BY <1>1, <3>1, <5>1
      <4>2. CASE m \in rows
        BY <1>1, <2>2, <4>2
      <4> QED
        BY <1>1, <4>1, <4>2
    <3>2. PICK u \in rows : u.seq = n + 1 /\ u.role = "user"
      BY <1>1
    <3>3. u.turn = r.turn /\ u.seq <= r.seq /\ u \in message'[c]
      BY <1>1, <2>2, <3>2
    <3> QED
      BY <3>1, <3>2, <3>3
  <2> QED
    BY <1>1, <2>1, <2>2
<1>3. ASSUME NEW d \in Convs \ {c}
      PROVE  message'[d] = message[d]
  BY <1>1
<1> QED
  BY <1>2, <1>3 DEF WholeTurns

(* A serial step answers from all that was said before.                    *)
LEMMA AddKeepsHistory ==
  ASSUME IInv, TypeInv', RepliesFromWholeHistory, NEW t \in Turns,
         NEW c \in Convs, Serial!AddTurn(t, c)
  PROVE  RepliesFromWholeHistory'
<1> DEFINE n == Cardinality(message[c])
           rows == message'[c] \ message[c]
           Before(u) == {m \in Spoken(message[c]) : m.seq < u.seq}
<1>1. /\ n \in Nat /\ message'[c] = message[c] \cup rows
      /\ \A r \in message[c] : r.seq \in 1..n /\ r.turn # t
      /\ \A r \in rows : /\ r.seq \in Int /\ r.seq > n /\ r.turn = t
                         /\ (r.role = "user") <=> (r.seq = n + 1)
                         /\ r.role = "reply" =>
                              r.basis = Cardinality(Spoken(message[c]))
      /\ \A d \in Convs \ {c} : message'[d] = message[d]
  BY AddedRows
<1> HIDE DEF n, rows
<1>2. ASSUME NEW u \in message'[c], u.seq \in 1..(n + 1)
      PROVE  {m \in Spoken(message'[c]) : m.seq < u.seq} = Before(u)
  <2>1. ASSUME NEW m \in message'[c], m.seq < u.seq PROVE m \in message[c]
    BY <1>1, <1>2, <2>1
  <2> QED
    BY <1>1, <2>1 DEF Spoken
<1>3. ASSUME NEW r \in message'[c], NEW u \in message'[c],
             r.role = "reply", u.role = "user", u.turn = r.turn
      PROVE  r.basis =
               Cardinality({m \in Spoken(message'[c]) : m.seq < u.seq})
  <2>1. CASE r \in message[c]
    <3>1. u \in message[c]
      BY <1>1, <1>3, <2>1
    <3>2. r.basis = Cardinality(Before(u))
      BY <1>3, <2>1, <3>1 DEF RepliesFromWholeHistory
    <3>3. u.seq \in 1..(n + 1)
      BY <1>1, <3>1
    <3> QED
      BY <1>2, <3>2, <3>3
  <2>2. CASE r \in rows
    <3>1. u \in rows
      BY <1>1, <1>3, <2>2
    <3>2. u.seq = n + 1 /\ r.basis = Cardinality(Spoken(message[c]))
      BY <1>1, <1>3, <2>2, <3>1
    <3>3. Before(u) = Spoken(message[c])
      BY <1>1, <3>2 DEF Spoken
    <3>4. u.seq \in 1..(n + 1)
      BY <1>1, <3>2
    <3> QED
      BY <1>2, <3>2, <3>3, <3>4
  <2> QED
    BY <1>1, <2>1, <2>2
<1>4. ASSUME NEW d \in Convs, NEW r \in message'[d], NEW u \in message'[d],
             r.role = "reply", u.role = "user", u.turn = r.turn
      PROVE  r.basis =
               Cardinality({m \in Spoken(message'[d]) : m.seq < u.seq})
  <2>1. CASE d = c
    BY <1>3, <1>4, <2>1
  <2>2. CASE d # c
    <3>1. message'[d] = message[d]
      BY <1>1, <2>2
    <3> QED
      BY <1>4, <3>1 DEF RepliesFromWholeHistory
  <2> QED
    BY <2>1, <2>2
<1>5. \A d \in Convs : Spoken(message[d])' = Spoken(message'[d])
  BY DEF Spoken
<1> QED
  BY <1>4, <1>5 DEF RepliesFromWholeHistory

(* What serial steps do to the status of a session.                        *)
LEMMA SerialStatus ==
  ASSUME IInv, Serial!Next, NEW d \in Convs
  PROVE  /\ conversation[d].status \notin {"none", "active"}
              => conversation'[d].status \notin {"none", "active"}
         /\ conversation'[d].summarised >= conversation[d].summarised
         /\ (\E r \in message'[d] \ message[d] : r.role = "handoff")
              => conversation'[d].status = "escalated"
<1>0. /\ conversation \in [Convs -> ConversationRow]
      /\ conversation[d] \in ConversationRow
      /\ conversation[d].summarised \in Nat
  BY DEF IInv, TypeInv, TypeOK, ConversationRow
<1>1. ASSUME NEW c \in Convs, Serial!EndSession(c)
      PROVE  /\ conversation[d].status \notin {"none", "active"}
                  => conversation'[d].status \notin {"none", "active"}
             /\ conversation'[d].summarised >= conversation[d].summarised
             /\ message'[d] = message[d]
  <2>1. PICK s \in {"closed", "escalated"} :
          conversation' = [conversation EXCEPT ![c].status = s]
    BY <1>1 DEF Serial!EndSession
  <2>2. /\ conversation'[d].status \in {conversation[d].status, s}
        /\ conversation'[d].summarised = conversation[d].summarised
    BY <1>0, <2>1 DEF ConversationRow
  <2>3. message' = message
    BY <1>1 DEF Serial!EndSession
  <2> QED
    BY <1>0, <2>2, <2>3
<1>2. ASSUME NEW c \in Convs, NEW t \in Turns, Serial!AddTurn(t, c), c # d
      PROVE  conversation'[d] = conversation[d] /\ message'[d] = message[d]
  BY <1>2 DEF Serial!AddTurn
<1>3. ASSUME NEW t \in Turns, Serial!AddTurn(t, d)
      PROVE  /\ conversation[d].status \notin {"none", "active"}
                  => conversation'[d].status \notin {"none", "active"}
             /\ conversation'[d].summarised >= conversation[d].summarised
             /\ (\E r \in message'[d] \ message[d] : r.role = "handoff")
                  => conversation'[d].status = "escalated"
  BY <1>3 DEF Serial!AddTurn
<1> QED
  BY <1>0, <1>1, <1>2, <1>3 DEF Serial!Next

(* Every step keeps what is said of transcripts.                           *)
LEMMA TranscriptStep ==
  IInv /\ TurnInv /\ TranscriptInv /\ [Next]_vars => TranscriptInv'
<1> SUFFICES ASSUME IInv, TurnInv, TranscriptInv, [Next]_vars
             PROVE  TranscriptInv'
  OBVIOUS
<1>1. Serial!Next \/ UNCHANGED <<conversation, message>>
  BY SerialStep DEF Serial!vars
<1>2. CASE UNCHANGED <<conversation, message>>
  BY <1>2 DEF TranscriptInv, WholeTurns, RepliesFromWholeHistory, HandoffIsKept
<1>3. CASE Serial!Next
  <2>1. WholeTurns' /\ RepliesFromWholeHistory'
    <3>1. ASSUME NEW c \in Convs, Serial!EndSession(c)
          PROVE  WholeTurns' /\ RepliesFromWholeHistory'
      <4>1. message' = message
        BY <3>1 DEF Serial!EndSession
      <4> QED
        BY <4>1 DEF TranscriptInv, WholeTurns, RepliesFromWholeHistory
    <3> QED
      BY <1>3, <3>1, TypeStep, AddKeepsWhole, AddKeepsHistory
         DEF TranscriptInv, Serial!Next
  <2>2. HandoffIsKept'
    <3> SUFFICES ASSUME NEW d \in Convs, NEW r \in message'[d],
                        r.role = "handoff"
                 PROVE  conversation'[d].status \in {"escalated", "closed"}
      BY DEF HandoffIsKept
    <3>1. CASE r \in message[d]
      <4>1. conversation[d].status \in {"escalated", "closed"}
        BY <3>1 DEF TranscriptInv, HandoffIsKept
      <4>2. conversation'[d].status \notin {"none", "active"}
        BY <1>3, <4>1, SerialStatus
      <4>3. conversation'[d].status \in Statuses \cup {"none"}
        BY TypeStep DEF TypeInv, TypeOK, ConversationRow
      <4> QED
        BY <4>2, <4>3 DEF Statuses
    <3>2. CASE r \notin message[d]
      BY <1>3, <3>2, SerialStatus
    <3> QED
      BY <3>1, <3>2
  <2> QED
    BY <2>1, <2>2 DEF TranscriptInv
<1> QED
  BY <1>1, <1>2, <1>3

(* All the invariants together.                                            *)
LEMMA AllInvariants == Spec => [](IInv /\ TurnInv /\ TranscriptInv)
<1>1. Init => TranscriptInv
  BY DEF Init, TranscriptInv, WholeTurns, RepliesFromWholeHistory, HandoffIsKept
<1>2. IInv /\ TurnInv /\ TranscriptInv /\ [Next]_vars
        => IInv' /\ TurnInv' /\ TranscriptInv'
  BY InvStep, TurnStep, TranscriptStep
<1> QED
  BY <1>1, <1>2, InvInit, TurnInit, PTL DEF Spec

-----------------------------------------------------------------------------
(* The theorems.                                                           *)

(* locking.py's promise: a transcript is a sequence of whole turns, each   *)
(* opening with the message it answers, whatever turns, crashes and        *)
(* hand-overs interleave.                                                  *)
THEOREM TranscriptsAreWhole == Spec => []WholeTurns
<1>1. TranscriptInv => WholeTurns
  BY DEF TranscriptInv
<1> QED
  BY <1>1, AllInvariants, PTL

(* _prepare under the lock: a reply was built from all that was said in    *)
(* the conversation before the message it answers, and nothing else.       *)
THEOREM RepliesSeeWholeHistory == Spec => []RepliesFromWholeHistory
<1>1. TranscriptInv => RepliesFromWholeHistory
  BY DEF TranscriptInv
<1> QED
  BY <1>1, AllInvariants, PTL

(* _escalate reads the row again under its lock: a visitor who was told    *)
(* that a person takes over is in a conversation the agent has left.       *)
THEOREM HandoffsAreKept == Spec => []HandoffIsKept
<1>1. TranscriptInv => HandoffIsKept
  BY DEF TranscriptInv
<1> QED
  BY <1>1, AllInvariants, PTL

(* Sessions end once, and what the summary covers only grows and never     *)
(* exceeds what has been said.                                             *)
THEOREM SessionsAdvance == Spec => SessionsOnlyAdvance
<1> DEFINE A == \A c \in Convs :
       /\ conversation[c].status \notin {"none", "active"}
            => conversation'[c].status \notin {"none", "active"}
       /\ conversation'[c].summarised >= conversation[c].summarised
       /\ conversation'[c].summarised <= Cardinality(Spoken(message'[c]))
<1>1. IInv /\ TurnInv /\ [Next]_vars => [A]_vars
  <2> SUFFICES ASSUME IInv, TurnInv, [Next]_vars, NEW c \in Convs
               PROVE  /\ conversation[c].status \notin {"none", "active"}
                           => conversation'[c].status \notin {"none", "active"}
                      /\ conversation'[c].summarised >= conversation[c].summarised
                      /\ conversation'[c].summarised
                           <= Cardinality(Spoken(message'[c]))
    OBVIOUS
  <2>1. conversation'[c].summarised <= Cardinality(Spoken(message'[c]))
    BY TurnStep DEF TurnInv, SummaryInv
  <2>2. conversation[c].summarised \in Nat
    BY DEF IInv, TypeInv, TypeOK, ConversationRow
  <2>3. Serial!Next \/ UNCHANGED <<conversation, message>>
    BY SerialStep DEF Serial!vars
  <2> QED
    BY <2>1, <2>2, <2>3, SerialStatus
<1> QED
  BY <1>1, AllInvariants, PTL DEF Spec, SessionsOnlyAdvance
=============================================================================
