---------------------- MODULE ConversationTurns_proofs ----------------------
(***************************************************************************)
(* Proofs about ConversationTurns, for any sets of turns, hand-overs,      *)
(* keys and conversations and any folding of conversation ids to locks:    *)
(* type correctness, at most one open session per key, and the numbering   *)
(* of the committed messages.                                              *)
(***************************************************************************)
EXTENDS ConversationTurns, FiniteSetTheorems, TLAPS

(* The maximum of 0..n is n.                                               *)
LEMMA MaxOfInterval ==
  ASSUME NEW n \in Nat
  PROVE  Max(0..n) = n
<1>1. n \in 0..n /\ \A y \in 0..n : n >= y
  OBVIOUS
<1>2. \A x \in 0..n : (\A y \in 0..n : x >= y) => x = n
  OBVIOUS
<1> QED
  BY <1>1, <1>2 DEF Max

(* next_sequence continues a numbering 1..n with n + 1.                    *)
LEMMA NextOfNumbered ==
  ASSUME NEW rows, NEW n \in Nat, {r.seq : r \in rows} = 1..n
  PROVE  Max({0} \cup {r.seq : r \in rows}) + 1 = n + 1
<1>1. {0} \cup 1..n = 0..n
  OBVIOUS
<1> QED
  BY <1>1, MaxOfInterval

(* A row that takes the next sequence extends a numbering.                 *)
LEMMA NumberedExtends ==
  ASSUME NEW rows \in SUBSET Row, IsFiniteSet(rows), Numbered(rows),
         NEW r \in Row, r.seq = Max({0} \cup {s.seq : s \in rows}) + 1
  PROVE  Numbered(rows \cup {r})
<1>1. PICK n \in 0..Cardinality(rows) : {s.seq : s \in rows} = 1..n
  BY DEF Numbered
<1>2. n \in Nat /\ Cardinality(rows) \in Nat
  BY FS_CardinalityType
<1>3. r.seq = n + 1
  BY <1>1, <1>2, NextOfNumbered
<1>4. \A s \in rows : s.seq \in 1..n
  BY <1>1
<1>5. r \notin rows
  BY <1>2, <1>3, <1>4
<1>6. Cardinality(rows \cup {r}) = Cardinality(rows) + 1
  BY <1>5, FS_AddElement
<1>7. n + 1 \in 0..Cardinality(rows \cup {r})
  BY <1>2, <1>6
<1>8. {s.seq : s \in rows \cup {r}} = 1..(n + 1)
  <2>1. {s.seq : s \in rows \cup {r}} = {s.seq : s \in rows} \cup {r.seq}
    OBVIOUS
  <2> QED
    BY <1>1, <1>2, <1>3, <2>1
<1>9. \A x, y \in rows \cup {r} : x.seq = y.seq => x = y
  <2>1. \A x \in rows : x.seq # r.seq
    BY <1>2, <1>3, <1>4
  <2> QED
    BY <2>1 DEF Numbered
<1> QED
  BY <1>7, <1>8, <1>9 DEF Numbered

(* No rows are numbered 1..0.                                            *)
LEMMA EmptyIsNumbered == Numbered({})
<1>1. Cardinality({}) = 0
  BY FS_EmptySet
<1>2. {r.seq : r \in {}} = 1..0
  OBVIOUS
<1> QED
  BY <1>1, <1>2 DEF Numbered

-----------------------------------------------------------------------------
(* Facts about one turn that holds its lock.                               *)

(* What a turn sees is a finite set of rows.                             *)
LEMMA RowsOfTurn ==
  ASSUME TypeInv, NEW t \in Turns, tx[t].conv \in Convs
  PROVE  Rows(t) \in SUBSET Row /\ IsFiniteSet(Rows(t))
<1>1. message[tx[t].conv] \in SUBSET Row /\ IsFiniteSet(message[tx[t].conv])
  BY DEF TypeInv, TypeOK
<1>2. tx[t].rows \in SUBSET Row /\ IsFiniteSet(tx[t].rows)
  BY DEF TypeInv, TypeOK, Tx, Procs
<1> QED
  BY <1>1, <1>2, FS_Union DEF Rows

(* The next sequence of a turn is a number, and a row that takes it keeps  *)
(* the numbering.                                                          *)
LEMMA RowIsAdded ==
  ASSUME IInv, NEW t \in Turns, InTurn(t), NEW role \in Roles, NEW b \in Nat
  PROVE  LET r == [seq |-> next_sequence(t), role |-> role, turn |-> t,
                   basis |-> b]
         IN  /\ next_sequence(t) \in Nat
             /\ tx[t].rows \cup {r} \in SUBSET Row
             /\ IsFiniteSet(tx[t].rows \cup {r})
             /\ Numbered(message[tx[t].conv] \cup (tx[t].rows \cup {r}))
<1> DEFINE r == [seq |-> next_sequence(t), role |-> role, turn |-> t,
                 basis |-> b]
<1>1. tx[t].conv \in Convs /\ Numbered(Rows(t))
  BY DEF IInv, LockInv, Placed, SequenceInv
<1>2. Rows(t) \in SUBSET Row /\ IsFiniteSet(Rows(t))
  BY <1>1, RowsOfTurn DEF IInv
<1>3. next_sequence(t) \in Nat
  <2>1. PICK n \in 0..Cardinality(Rows(t)) : {x.seq : x \in Rows(t)} = 1..n
    BY <1>1 DEF Numbered
  <2>2. n \in Nat
    BY <1>2, FS_CardinalityType
  <2>3. Max({0} \cup {x.seq : x \in Rows(t)}) + 1 = n + 1
    BY <2>1, <2>2, NextOfNumbered
  <2> QED
    BY <2>2, <2>3 DEF next_sequence
<1>4. r \in Row /\ r.seq = Max({0} \cup {x.seq : x \in Rows(t)}) + 1
  BY <1>3 DEF Row, next_sequence
<1>5. tx[t].rows \in SUBSET Row /\ IsFiniteSet(tx[t].rows)
  BY DEF IInv, TypeInv, TypeOK, Tx, Procs
<1> HIDE DEF r
<1>6. tx[t].rows \cup {r} \in SUBSET Row /\ IsFiniteSet(tx[t].rows \cup {r})
  BY <1>4, <1>5, FS_AddElement
<1>7. Numbered(Rows(t) \cup {r})
  BY <1>1, <1>2, <1>4, NumberedExtends
<1>8. message[tx[t].conv] \cup (tx[t].rows \cup {r}) = Rows(t) \cup {r}
  BY DEF Rows
<1> QED
  BY <1>3, <1>6, <1>7, <1>8 DEF r

-----------------------------------------------------------------------------
(* The initial states.                                                     *)

(* The initial states satisfy the inductive invariant.                   *)
LEMMA InvInit == Init => IInv
<1> SUFFICES ASSUME Init PROVE IInv
  OBVIOUS
<1>1. NoTx \in Tx /\ NoTx.rows = {} /\ ~NoTx.created /\ NoTx.conv = NoConv
  BY DEF NoTx, Tx
<1>2. TypeOK
  BY <1>1 DEF Init, TypeOK, ConversationRow, Unused, Labels, Procs
<1>3. TypeInv
  BY <1>1, <1>2, FS_EmptySet DEF Init, TypeInv, Procs
<1>4. LockInv
  BY <1>1 DEF Init, LockInv, Placed, InTurn, Writing, Procs, Over
<1>5. SequenceInv
  BY EmptyIsNumbered
     DEF Init, SequenceInv, SequencesInOrder, InTurn, Writing, Procs
<1>6. SessionInv
  BY <1>1, TurnsAssumption
     DEF Init, SessionInv, Creating, OneOpenSession, find_open_session, Unused, Procs
<1> QED
  BY <1>3, <1>4, <1>5, <1>6 DEF IInv

-----------------------------------------------------------------------------
(* Type correctness of each step.                                          *)

(* A step of one turn that leaves the committed rows alone is typed when   *)
(* the turn's own new state is.                                            *)
LEMMA TypedTurnStep ==
  ASSUME TypeInv, NEW t \in Turns, UNCHANGED <<conversation, message, request>>,
         NEW v \in Tx, IsFiniteSet(v.rows), tx' = [tx EXCEPT ![t] = v],
         NEW label \in Labels, Goto(t, label),
         advisory' \in [LockKeys -> Turns \cup {NoOne}],
         rowlock' \in [Convs -> Procs \cup {NoOne}]
  PROVE  TypeInv'
<1>1. t \in Procs /\ t \notin Handovers
  BY TurnsAssumption DEF Procs
<1>2. tx \in [Procs -> Tx] /\ pc \in [Procs -> Labels]
  BY DEF TypeInv, TypeOK
<1>3. tx' \in [Procs -> Tx] /\ pc' \in [Procs -> Labels]
  BY <1>1, <1>2 DEF Goto
<1>4. TypeOK'
  BY <1>3 DEF TypeInv, TypeOK
<1>5. \A p \in Procs : tx'[p] = IF p = t THEN v ELSE tx[p]
  BY <1>2
<1>6. \A p \in Procs : IsFiniteSet(tx'[p].rows)
  BY <1>5 DEF TypeInv
<1>7. \A o \in Handovers : tx'[o].rows = {} /\ ~tx'[o].created
  BY <1>1, <1>5 DEF TypeInv, Procs
<1>8. \A c \in Convs : IsFiniteSet(message'[c])
  BY DEF TypeInv
<1> QED
  BY <1>4, <1>6, <1>7, <1>8 DEF TypeInv

(* A turn is received with a request of the declared kind.               *)
LEMMA TypeReceive == ASSUME IInv, NEW t \in Turns, Receive(t) PROVE TypeInv'
<1>1. request' \in [Turns -> Request \cup {NoRequest}]
  BY DEF Receive, IInv, TypeInv, TypeOK
<1>2. pc' \in [Procs -> Labels]
  BY DEF Receive, Goto, IInv, TypeInv, TypeOK, Labels
<1> QED
  BY <1>1, <1>2 DEF Receive, IInv, TypeInv, TypeOK

(* The steps that change neither rows nor private state keep the types.  *)
LEMMA TypeEasy ==
  ASSUME IInv, NEW t \in Turns,
         \/ Refuse(t) \/ RaiseNoSession(t) \/ lock_conversation(t)
         \/ StreamEmpty(t) \/ ProviderFails(t)
  PROVE  TypeInv'
<1>1. pc' \in [Procs -> Labels]
  BY DEF Refuse, RaiseNoSession, lock_conversation, StreamEmpty,
         ProviderFails, Goto, AfterError, IInv, TypeInv, TypeOK, Labels, Over
<1>2. advisory' \in [LockKeys -> Turns \cup {NoOne}]
  BY DEF Refuse, RaiseNoSession, lock_conversation, StreamEmpty,
         ProviderFails, IInv, TypeInv, TypeOK
<1>3. UNCHANGED <<conversation, message, rowlock, request, tx>>
  BY DEF Refuse, RaiseNoSession, lock_conversation, StreamEmpty, ProviderFails
<1> QED
  BY <1>1, <1>2, <1>3 DEF IInv, TypeInv, TypeOK

(* Finding a session keeps the types.                                    *)
LEMMA TypeFind ==
  ASSUME IInv, NEW t \in Turns,
         LoadSession(t) \/ FindSession(t) \/ ReselectSession(t)
  PROVE  TypeInv'
<1>1. UNCHANGED <<conversation, message, advisory, rowlock, request>>
  BY DEF LoadSession, FindSession, ReselectSession
<1>2. request[t].conv \in Convs \cup {NoConv}
  BY DEF IInv, TypeInv, TypeOK, Request, NoRequest
<1>3. tx[t] \in Tx /\ IsFiniteSet(tx[t].rows)
  BY DEF IInv, TypeInv, TypeOK, Procs
<1>4. \E v \in Tx : v.rows = tx[t].rows /\ tx' = [tx EXCEPT ![t] = v]
  <2>1. CASE \E c \in Convs \cup {NoConv} : tx' = [tx EXCEPT ![t].conv = c]
    <3> PICK c \in Convs \cup {NoConv} : tx' = [tx EXCEPT ![t].conv = c]
      BY <2>1
    <3>1. [tx[t] EXCEPT !.conv = c] \in Tx
      BY <1>3 DEF Tx
    <3> QED
      BY <1>3, <3>1 DEF Tx
  <2>2. CASE UNCHANGED tx
    BY <1>3, <2>2 DEF IInv, TypeInv, TypeOK
  <2> QED
    BY <1>2, <2>1, <2>2
       DEF LoadSession, FindSession, ReselectSession, find_open_session
<1>5. \E label \in Labels : Goto(t, label)
  BY DEF LoadSession, FindSession, ReselectSession, Labels
<1> QED
  BY <1>1, <1>3, <1>4, <1>5, TypedTurnStep DEF IInv, TypeInv, TypeOK

(* Inserting a session, or finding the conflict, keeps the types.        *)
LEMMA TypeInsert == ASSUME IInv, NEW t \in Turns, InsertSession(t) PROVE TypeInv'
<1>1. UNCHANGED <<conversation, message, advisory, request>>
  BY DEF InsertSession
<1>2. tx[t] \in Tx /\ IsFiniteSet(tx[t].rows) /\ t \in Procs
  BY DEF IInv, TypeInv, TypeOK, Procs
<1>3. CASE UNCHANGED <<tx, rowlock>>
  <2>1. tx' = [tx EXCEPT ![t] = tx[t]]
    BY <1>3 DEF IInv, TypeInv, TypeOK
  <2> QED
    BY <1>1, <1>2, <1>3, <2>1, TypedTurnStep
       DEF InsertSession, IInv, TypeInv, TypeOK, Labels
<1>4. CASE \E c \in Convs :
             /\ rowlock' = [rowlock EXCEPT ![c] = t]
             /\ tx' = [tx EXCEPT ![t].conv = c, ![t].created = TRUE]
  <2> PICK c \in Convs :
             /\ rowlock' = [rowlock EXCEPT ![c] = t]
             /\ tx' = [tx EXCEPT ![t].conv = c, ![t].created = TRUE]
    BY <1>4
  <2> DEFINE v == [tx[t] EXCEPT !.conv = c, !.created = TRUE]
  <2>1. v \in Tx /\ v.rows = tx[t].rows
    BY <1>2 DEF Tx
  <2>2. tx' = [tx EXCEPT ![t] = v]
    BY DEF IInv, TypeInv, TypeOK
  <2>3. rowlock' \in [Convs -> Procs \cup {NoOne}]
    BY <1>2 DEF IInv, TypeInv, TypeOK
  <2> HIDE DEF v
  <2> QED
    BY <1>1, <1>2, <2>1, <2>2, <2>3, TypedTurnStep
       DEF InsertSession, IInv, TypeInv, TypeOK, Labels
<1> QED
  BY <1>3, <1>4 DEF InsertSession

(* The select of next_sequence keeps the types.                          *)
LEMMA TypeReadSequence ==
  ASSUME IInv, NEW t \in Turns, ReadSequence(t) PROVE TypeInv'
<1>1. tx[t] \in Tx /\ IsFiniteSet(tx[t].rows)
  BY DEF IInv, TypeInv, TypeOK, Procs
<1>2. next_sequence(t) \in Nat
  BY RowIsAdded DEF ReadSequence, InTurn, Writing, Roles
<1> DEFINE v == [tx[t] EXCEPT !.next = next_sequence(t)]
<1>3. v \in Tx /\ v.rows = tx[t].rows
  BY <1>1, <1>2 DEF Tx
<1>4. tx' = [tx EXCEPT ![t] = v]
  BY DEF ReadSequence, IInv, TypeInv, TypeOK
<1> HIDE DEF v
<1> QED
  BY <1>1, <1>3, <1>4, TypedTurnStep
     DEF ReadSequence, IInv, TypeInv, TypeOK, Labels

(* Storing the user's message keeps the types.                           *)
LEMMA TypeStoreUser ==
  ASSUME IInv, NEW t \in Turns, StoreUser(t) PROVE TypeInv'
<1>1. tx[t] \in Tx /\ t \in Procs /\ tx[t].next = next_sequence(t)
  BY DEF StoreUser, IInv, TypeInv, TypeOK, SequenceInv, Procs
<1> DEFINE rows == tx[t].rows \cup
             {[seq |-> tx[t].next, role |-> "user", turn |-> t, basis |-> 0]}
           v == [tx[t] EXCEPT !.rows = rows]
<1>2. rows \in SUBSET Row /\ IsFiniteSet(rows)
  BY <1>1, RowIsAdded DEF StoreUser, InTurn, Writing, Roles
<1>3. tx' = [tx EXCEPT ![t] = v]
  BY DEF StoreUser, IInv, TypeInv, TypeOK
<1> HIDE DEF rows
<1>4. v \in Tx /\ v.rows = rows
  BY <1>1, <1>2 DEF Tx
<1>5. rowlock' \in [Convs -> Procs \cup {NoOne}]
  BY <1>1 DEF StoreUser, IInv, TypeInv, TypeOK
<1> HIDE DEF v
<1> QED
  BY <1>2, <1>3, <1>4, <1>5, TypedTurnStep
     DEF StoreUser, IInv, TypeInv, TypeOK, Labels

(* A guardrail answer, with or without escalation, keeps the types.      *)
LEMMA TypeGuardrailAnswer ==
  ASSUME IInv, NEW t \in Turns, GuardrailAnswer(t) PROVE TypeInv'
<1>1. tx[t] \in Tx
  BY DEF IInv, TypeInv, TypeOK, Procs
<1>2. _escalate(t) \in {"same", "escalated", "closed"}
  BY <1>1 DEF _escalate, Tx
<1>3. \A role \in {"decline", "handoff"} :
        WithRow(t, role, 0) \in SUBSET Row /\ IsFiniteSet(WithRow(t, role, 0))
  BY RowIsAdded DEF WithRow, GuardrailAnswer, InTurn, Writing, Roles
<1>4. PICK role \in {"decline", "handoff"},
           status \in {"same", "escalated", "closed"} :
        tx' = [tx EXCEPT ![t] =
                 [tx[t] EXCEPT !.rows = WithRow(t, role, 0), !.status = status]]
  <2>1. CASE tx' = [tx EXCEPT ![t].rows = WithRow(t, "decline", 0)]
    <3>1. tx' = [tx EXCEPT ![t] = [tx[t] EXCEPT !.rows = WithRow(t, "decline", 0),
                                                !.status = tx[t].status]]
      BY <1>1, <2>1 DEF IInv, TypeInv, TypeOK, Tx
    <3> QED
      BY <1>1, <3>1 DEF Tx
  <2>2. CASE tx' = [tx EXCEPT ![t].rows = WithRow(t, "handoff", 0),
                              ![t].status = _escalate(t)]
    BY <1>2, <2>2 DEF IInv, TypeInv, TypeOK
  <2> QED
    BY <2>1, <2>2 DEF GuardrailAnswer
<1> DEFINE v == [tx[t] EXCEPT !.rows = WithRow(t, role, 0), !.status = status]
<1>5. v \in Tx /\ IsFiniteSet(v.rows)
  BY <1>1, <1>3 DEF Tx
<1>6. tx' = [tx EXCEPT ![t] = v]
  BY <1>4
<1> HIDE DEF v
<1> QED
  BY <1>5, <1>6, TypedTurnStep
     DEF GuardrailAnswer, IInv, TypeInv, TypeOK, Labels

(* Preparing a prompt keeps the types.                                   *)
LEMMA TypePrepare ==
  ASSUME IInv, NEW t \in Turns, Prepare(t) PROVE TypeInv'
<1>1. tx[t] \in Tx /\ IsFiniteSet(tx[t].rows) /\ tx[t].conv \in Convs
  BY DEF Prepare, IInv, TypeInv, TypeOK, LockInv, Placed, InTurn, Writing, Procs
<1>2. IsFiniteSet(Rows(t))
  BY <1>1, RowsOfTurn DEF IInv
<1>3. \A d \in SUBSET Rows(t) : Cardinality(d) \in Nat
  BY <1>2, FS_Subset, FS_CardinalityType
<1>4. Cardinality(PromptHistory(t)) \in Nat
  BY <1>3 DEF PromptHistory, Spoken
<1>5. PICK d \in Droppable(PromptHistory(t)) :
        /\ tx' = [tx EXCEPT ![t].basis = Cardinality(PromptHistory(t)),
                            ![t].cut = Cardinality(d),
                            ![t].prepared = tx[t].prepared + 1]
        /\ Goto(t, IF Cardinality(d) > Summarised(t) THEN "fold"
                   ELSE AfterPrepare(t, tx[t].prepared + 1))
  BY DEF Prepare
<1>6. Cardinality(d) \in Nat
  BY <1>3 DEF Droppable, PromptHistory, Spoken
<1> DEFINE v == [tx[t] EXCEPT !.basis = Cardinality(PromptHistory(t)),
                              !.cut = Cardinality(d),
                              !.prepared = tx[t].prepared + 1]
<1>7. v \in Tx /\ v.rows = tx[t].rows
  <2>1. \A x, y, z \in Nat :
          LET w == [tx[t] EXCEPT !.basis = x, !.cut = y, !.prepared = z]
          IN  w \in Tx /\ w.rows = tx[t].rows
    BY <1>1 DEF Tx
  <2>2. tx[t].prepared + 1 \in Nat
    BY <1>1 DEF Tx
  <2> QED
    BY <1>4, <1>6, <2>1, <2>2
<1>8. tx' = [tx EXCEPT ![t] = v]
  BY <1>5 DEF IInv, TypeInv, TypeOK
<1>9. \E label \in Labels : Goto(t, label)
  BY <1>5 DEF AfterPrepare, Labels
<1> HIDE DEF v
<1> QED
  BY <1>1, <1>7, <1>8, <1>9, TypedTurnStep DEF Prepare, IInv, TypeInv, TypeOK

(* Folding and storing the reply keep the types.                         *)
LEMMA TypeFoldAndReply ==
  ASSUME IInv, NEW t \in Turns, Fold(t) \/ StoreReply(t) PROVE TypeInv'
<1>1. tx[t] \in Tx /\ IsFiniteSet(tx[t].rows)
  BY DEF IInv, TypeInv, TypeOK, Procs
<1>2. \A role \in Roles : \A b \in Nat :
        WithRow(t, role, b) \in SUBSET Row /\ IsFiniteSet(WithRow(t, role, b))
  BY RowIsAdded DEF WithRow, Fold, StoreReply, InTurn, Writing
<1>3. UNCHANGED <<conversation, message, advisory, rowlock, request>>
  BY DEF Fold, StoreReply
<1>4. \E label \in Labels : Goto(t, label)
  BY DEF Fold, StoreReply, AfterPrepare, Labels
<1>5. \E v \in Tx : IsFiniteSet(v.rows) /\ tx' = [tx EXCEPT ![t] = v]
  <2>1. CASE tx' = [tx EXCEPT ![t].folded = tx[t].cut,
                              ![t].rows = WithRow(t, "summary", 0)]
    <3> DEFINE v == [tx[t] EXCEPT !.folded = tx[t].cut,
                                  !.rows = WithRow(t, "summary", 0)]
    <3>1. WithRow(t, "summary", 0) \in SUBSET Row
          /\ IsFiniteSet(WithRow(t, "summary", 0))
      BY <1>2 DEF Roles
    <3>2. v \in Tx /\ v.rows = WithRow(t, "summary", 0)
      BY <1>1, <3>1 DEF Tx
    <3>3. tx' = [tx EXCEPT ![t] = v]
      BY <2>1 DEF IInv, TypeInv, TypeOK
    <3> HIDE DEF v
    <3> QED
      BY <3>1, <3>2, <3>3
  <2>2. CASE tx' = [tx EXCEPT ![t].rows = WithRow(t, "reply", tx[t].basis)]
    <3> DEFINE v == [tx[t] EXCEPT !.rows = WithRow(t, "reply", tx[t].basis)]
    <3>1. WithRow(t, "reply", tx[t].basis) \in SUBSET Row
          /\ IsFiniteSet(WithRow(t, "reply", tx[t].basis))
      BY <1>1, <1>2 DEF Roles, Tx
    <3>2. v \in Tx /\ v.rows = WithRow(t, "reply", tx[t].basis)
      BY <1>1, <3>1 DEF Tx
    <3>3. tx' = [tx EXCEPT ![t] = v]
      BY <2>2 DEF IInv, TypeInv, TypeOK
    <3> HIDE DEF v
    <3> QED
      BY <3>1, <3>2, <3>3
  <2>3. CASE UNCHANGED tx
    BY <1>1, <2>3 DEF IInv, TypeInv, TypeOK
  <2> QED
    BY <2>1, <2>2, <2>3 DEF Fold, StoreReply
<1> QED
  BY <1>3, <1>4, <1>5, TypedTurnStep DEF IInv, TypeInv, TypeOK

(* An operator's read and update keep the types.                         *)
LEMMA TypeHandover ==
  ASSUME IInv, NEW o \in Handovers, ReadConversation(o) \/ UpdateStatus(o)
  PROVE  TypeInv'
<1>1. o \in Procs /\ tx[o] \in Tx
  BY DEF IInv, TypeInv, TypeOK, Procs
<1>2. UNCHANGED <<conversation, message, advisory, request>>
  BY DEF ReadConversation, UpdateStatus
<1>3. pc' \in [Procs -> Labels]
  BY DEF ReadConversation, UpdateStatus, Goto, IInv, TypeInv, TypeOK, Labels
<1>4. rowlock' \in [Convs -> Procs \cup {NoOne}]
  BY <1>1 DEF ReadConversation, UpdateStatus, IInv, TypeInv, TypeOK
<1>5. /\ tx' \in [Procs -> Tx]
      /\ \A p \in Procs : tx'[p].rows = tx[p].rows
                        /\ tx'[p].created = tx[p].created
  <2>1. CASE UNCHANGED tx
    BY <2>1 DEF IInv, TypeInv, TypeOK
  <2>2. CASE \E c \in Convs, s \in {"closed", "escalated"} :
               tx' = [tx EXCEPT ![o].conv = c, ![o].status = s]
    <3> PICK c \in Convs, s \in {"closed", "escalated"} :
               tx' = [tx EXCEPT ![o].conv = c, ![o].status = s]
      BY <2>2
    <3> DEFINE v == [tx[o] EXCEPT !.conv = c, !.status = s]
    <3>1. v \in Tx /\ v.rows = tx[o].rows /\ v.created = tx[o].created
      BY <1>1 DEF Tx
    <3>2. tx' = [tx EXCEPT ![o] = v]
      BY DEF IInv, TypeInv, TypeOK
    <3> HIDE DEF v
    <3> QED
      BY <1>1, <3>1, <3>2 DEF IInv, TypeInv, TypeOK
  <2> QED
    BY <2>1, <2>2 DEF ReadConversation, UpdateStatus
<1>6. TypeOK'
  BY <1>2, <1>3, <1>4, <1>5 DEF IInv, TypeInv, TypeOK
<1> QED
  BY <1>2, <1>5, <1>6 DEF IInv, TypeInv, Procs

(* A transaction that ends leaves nothing of itself but what it commits.   *)
LEMMA TypeEnd ==
  ASSUME IInv, NEW p \in Procs, Commit(p) \/ Rollback(p) \/ Crash(p)
  PROVE  TypeInv'
<1>1. tx' = [tx EXCEPT ![p] = NoTx]
      /\ request' = [t \in Turns |-> IF t = p THEN NoRequest ELSE request[t]]
  BY DEF Commit, Rollback, Crash, Forget
<1>2. NoTx \in Tx /\ NoTx.rows = {} /\ ~NoTx.created
  BY DEF NoTx, Tx
<1>3. tx' \in [Procs -> Tx]
  BY <1>1, <1>2 DEF IInv, TypeInv, TypeOK
<1>4. \A q \in Procs : tx'[q] = IF q = p THEN NoTx ELSE tx[q]
  BY <1>1 DEF IInv, TypeInv, TypeOK
<1>5. advisory' \in [LockKeys -> Turns \cup {NoOne}]
      /\ rowlock' \in [Convs -> Procs \cup {NoOne}]
  BY DEF Commit, Rollback, Crash, ReleaseLocks, IInv, TypeInv, TypeOK
<1>6. pc' \in [Procs -> Labels]
  BY DEF Commit, Rollback, Crash, Goto, IInv, TypeInv, TypeOK, Labels, Over
<1>7. request' \in [Turns -> Request \cup {NoRequest}]
  BY <1>1 DEF IInv, TypeInv, TypeOK
<1>8. /\ conversation' \in [Convs -> ConversationRow]
      /\ message' \in [Convs -> SUBSET Row]
      /\ \A c \in Convs : IsFiniteSet(message'[c])
  <2>1. CASE UNCHANGED <<conversation, message>>
    BY <2>1 DEF IInv, TypeInv, TypeOK
  <2>2. CASE Commit(p) /\ tx[p].conv # NoConv
    <3>1. tx[p] \in Tx /\ tx[p].conv \in Convs
      BY <2>2 DEF IInv, TypeInv, TypeOK, Tx
    <3>2. tx[p].created => p \in Turns
      BY DEF IInv, TypeInv, Procs
    <3>3. tx[p].created => request[p].key \in Keys \cup {NoKey}
      BY <3>2 DEF IInv, TypeInv, TypeOK, Request, NoRequest
    <3>4. conversation[tx[p].conv] \in ConversationRow
      BY <3>1 DEF IInv, TypeInv, TypeOK
    <3>5. Committed(p) \in ConversationRow
      BY <3>1, <3>3, <3>4
         DEF Committed, Status, Summarised, ConversationRow, Tx, Statuses
    <3>6. Rows(p) \in SUBSET Row /\ IsFiniteSet(Rows(p))
      BY <3>1, FS_Union DEF Rows, IInv, TypeInv, TypeOK, Tx
    <3>7. conversation' = [conversation EXCEPT ![tx[p].conv] = Committed(p)]
          /\ message' = [message EXCEPT ![tx[p].conv] = Rows(p)]
      BY <2>2 DEF Commit
    <3> QED
      BY <3>5, <3>6, <3>7 DEF IInv, TypeInv, TypeOK
  <2> QED
    BY <2>1, <2>2 DEF Commit, Rollback, Crash
<1>9. TypeOK'
  BY <1>3, <1>5, <1>6, <1>7, <1>8 DEF TypeOK
<1> QED
  BY <1>2, <1>4, <1>8, <1>9, FS_EmptySet DEF IInv, TypeInv, Procs

(* Every step keeps the types.                                           *)
LEMMA TypeStep == IInv /\ [Next]_vars => TypeInv'
<1> SUFFICES ASSUME IInv, [Next]_vars PROVE TypeInv'
  OBVIOUS
<1>1. CASE UNCHANGED vars
  BY <1>1 DEF vars, IInv, TypeInv, TypeOK
<1>2. ASSUME NEW t \in Turns, Receive(t) \/ Refuse(t) \/ Progress(t)
      PROVE  TypeInv'
  <2>1. t \in Procs
    BY DEF Procs
  <2> QED
    BY <1>2, <2>1, TypeReceive, TypeEasy, TypeFind, TypeInsert,
       TypeReadSequence, TypeStoreUser, TypeGuardrailAnswer, TypePrepare,
       TypeFoldAndReply, TypeEnd
       DEF Progress
<1>3. ASSUME NEW o \in Handovers, ReadConversation(o) \/ Handover(o)
      PROVE  TypeInv'
  <2>1. o \in Procs
    BY DEF Procs
  <2> QED
    BY <1>3, <2>1, TypeHandover, TypeEnd DEF Handover
<1>4. ASSUME NEW p \in Procs, Crash(p)
      PROVE  TypeInv'
  BY <1>4, TypeEnd
<1>5. CASE Finished
  BY <1>1, <1>5 DEF Finished
<1> QED
  BY <1>1, <1>2, <1>3, <1>4, <1>5 DEF Next

-----------------------------------------------------------------------------
(* What a step of one process leaves alone.                                *)

StepOf(p) ==
  \/ p \in Turns /\ (Receive(p) \/ Refuse(p) \/ Progress(p))
  \/ p \in Handovers /\ (ReadConversation(p) \/ Handover(p))
  \/ Crash(p)

(* Every step that is not a stutter is the step of one process.          *)
LEMMA NextIsAStep ==
  [Next]_vars => UNCHANGED vars \/ \E p \in Procs : StepOf(p)
<1>1. ASSUME NEW t \in Turns, Receive(t) \/ Refuse(t) \/ Progress(t)
      PROVE  \E p \in Procs : StepOf(p)
  BY <1>1 DEF StepOf, Procs
<1>2. ASSUME NEW o \in Handovers, ReadConversation(o) \/ Handover(o)
      PROVE  \E p \in Procs : StepOf(p)
  BY <1>2 DEF StepOf, Procs
<1>3. ASSUME NEW p \in Procs, Crash(p)
      PROVE  \E q \in Procs : StepOf(q)
  BY <1>3 DEF StepOf
<1> QED
  BY <1>1, <1>2, <1>3 DEF Next, Finished

(* A process's label, request, private state and locks are its own.        *)
LEMMA OthersKeepTheirs ==
  ASSUME TypeInv, NEW p \in Procs, StepOf(p), NEW q \in Procs, q # p
  PROVE  /\ pc'[q] = pc[q] /\ tx'[q] = tx[q]
         /\ q \in Turns => request'[q] = request[q]
         /\ \A l \in LockKeys : advisory[l] = q => advisory'[l] = q
         /\ \A c \in Convs : rowlock[c] = q => rowlock'[c] = q
<1>1. q # NoOne
  BY TurnsAssumption
<1>2. /\ pc \in [Procs -> Labels] /\ tx \in [Procs -> Tx]
      /\ request \in [Turns -> Request \cup {NoRequest}]
      /\ advisory \in [LockKeys -> Turns \cup {NoOne}]
      /\ rowlock \in [Convs -> Procs \cup {NoOne}]
  BY DEF TypeInv, TypeOK
<1>3. CASE Receive(p) \/ Refuse(p)
  BY <1>2, <1>3 DEF Receive, Refuse, Goto
<1>4. CASE LoadSession(p) \/ FindSession(p) \/ ReselectSession(p)
           \/ RaiseNoSession(p)
  BY <1>2, <1>4 DEF LoadSession, FindSession, ReselectSession, RaiseNoSession,
                    Goto
<1>5. CASE InsertSession(p)
  BY <1>1, <1>2, <1>5 DEF InsertSession, Goto
<1>6. CASE lock_conversation(p)
  BY <1>1, <1>2, <1>6 DEF lock_conversation, Goto
<1>7. CASE ReadSequence(p) \/ Prepare(p) \/ Fold(p) \/ GuardrailAnswer(p)
  BY <1>2, <1>7 DEF ReadSequence, Prepare, Fold, GuardrailAnswer, Goto
<1>8. CASE StoreUser(p)
  <2>1. \A c \in Convs : rowlock[c] = q => rowlock'[c] = q
    BY <1>1, <1>2, <1>8 DEF StoreUser
  <2> QED
    BY <1>2, <1>8, <2>1 DEF StoreUser, Goto
<1>9. CASE StoreReply(p) \/ StreamEmpty(p) \/ ProviderFails(p)
  BY <1>2, <1>9 DEF StoreReply, StreamEmpty, ProviderFails, Goto
<1>10. CASE Commit(p) \/ Rollback(p) \/ Crash(p)
  <2>1. ReleaseLocks(p) /\ Forget(p)
    BY <1>10 DEF Commit, Rollback, Crash
  <2>2. pc'[q] = pc[q]
    BY <1>2, <1>10 DEF Commit, Rollback, Crash, Goto
  <2> QED
    BY <1>2, <2>1, <2>2 DEF ReleaseLocks, Forget
<1>11. CASE ReadConversation(p) \/ UpdateStatus(p)
  <2>1. \A c \in Convs : rowlock[c] = q => rowlock'[c] = q
    BY <1>1, <1>2, <1>11 DEF ReadConversation, UpdateStatus
  <2> QED
    BY <1>2, <1>11, <2>1 DEF ReadConversation, UpdateStatus, Goto
<1> QED
  BY <1>3, <1>4, <1>5, <1>6, <1>7, <1>8, <1>9, <1>10, <1>11
     DEF StepOf, Progress, Handover

(* The committed rows change by a commit only, in its conversation only.   *)
LEMMA OnlyCommitsAreSeen ==
  ASSUME NEW p \in Procs, StepOf(p), ~Commit(p)
  PROVE  UNCHANGED <<conversation, message>>
BY DEF StepOf, Progress, Handover, Receive, Refuse, LoadSession, FindSession,
       InsertSession, ReselectSession, RaiseNoSession, lock_conversation,
       ReadSequence, StoreUser, GuardrailAnswer, Prepare, Fold, StoreReply,
       StreamEmpty, ProviderFails, Rollback, Crash, ReadConversation,
       UpdateStatus

(* The statements of a turn inside its lock leave its session as it is.    *)
Statement(t) ==
  \/ ReadSequence(t) \/ StoreUser(t) \/ GuardrailAnswer(t)
  \/ Prepare(t) \/ Fold(t) \/ StoreReply(t)

(* A statement of a turn in its session does not change the session.     *)
LEMMA StatementKeepsSession ==
  ASSUME TypeInv, NEW t \in Turns, Statement(t)
  PROVE  /\ tx'[t].conv = tx[t].conv
         /\ tx'[t].created = tx[t].created
         /\ \A u \in Procs \ {t} : tx'[u] = tx[u]
<1>1. tx \in [Procs -> Tx] /\ tx[t] \in Tx /\ t \in Procs
  BY DEF TypeInv, TypeOK, Procs
<1>2. \A u \in Procs \ {t} : tx'[u] = tx[u]
  BY <1>1 DEF Statement, ReadSequence, StoreUser, GuardrailAnswer, Prepare,
              Fold, StoreReply
<1>3. \A n : tx' = [tx EXCEPT ![t].next = n]
              => tx'[t].conv = tx[t].conv /\ tx'[t].created = tx[t].created
  BY <1>1 DEF Tx
<1>4. \A r : tx' = [tx EXCEPT ![t].rows = r]
              => tx'[t].conv = tx[t].conv /\ tx'[t].created = tx[t].created
  BY <1>1 DEF Tx
<1>5. \A r, s : tx' = [tx EXCEPT ![t].rows = r, ![t].status = s]
              => tx'[t].conv = tx[t].conv /\ tx'[t].created = tx[t].created
  BY <1>1 DEF Tx
<1>6. \A r, n : tx' = [tx EXCEPT ![t].folded = n, ![t].rows = r]
              => tx'[t].conv = tx[t].conv /\ tx'[t].created = tx[t].created
  BY <1>1 DEF Tx
<1>7. \A b, n, m :
        tx' = [tx EXCEPT ![t].basis = b, ![t].cut = n, ![t].prepared = m]
              => tx'[t].conv = tx[t].conv /\ tx'[t].created = tx[t].created
  BY <1>1 DEF Tx
<1>8. CASE ReadSequence(t)
  BY <1>2, <1>3, <1>8 DEF ReadSequence
<1>9. CASE StoreUser(t) \/ StoreReply(t)
  BY <1>2, <1>4, <1>9 DEF StoreUser, StoreReply
<1>10. CASE GuardrailAnswer(t)
  BY <1>2, <1>4, <1>5, <1>10 DEF GuardrailAnswer
<1>11. CASE Fold(t)
  BY <1>2, <1>6, <1>11 DEF Fold
<1>12. CASE Prepare(t)
  <2>1. PICK d \in Droppable(PromptHistory(t)) :
          tx' = [tx EXCEPT ![t].basis = Cardinality(PromptHistory(t)),
                           ![t].cut = Cardinality(d),
                           ![t].prepared = tx[t].prepared + 1]
    BY <1>12 DEF Prepare
  <2> QED
    BY <1>2, <1>7, <2>1
<1> QED
  BY <1>8, <1>9, <1>10, <1>11, <1>12 DEF Statement

-----------------------------------------------------------------------------
(* The locks.                                                              *)

(* A turn's own step leaves it with what it must have where it then is.    *)
LEMMA LockActor ==
  ASSUME IInv, NEW t \in Turns,
         Receive(t) \/ Refuse(t) \/ Progress(t) \/ Crash(t)
  PROVE  Placed(t)'
<1>1. Placed(t) /\ tx[t] \in Tx
  BY DEF IInv, LockInv, TypeInv, TypeOK, Procs
<1>2. /\ pc \in [Procs -> Labels] /\ tx \in [Procs -> Tx] /\ t \in Procs
      /\ request \in [Turns -> Request \cup {NoRequest}]
      /\ advisory \in [LockKeys -> Turns \cup {NoOne}]
      /\ NoConv \notin Convs
  BY TurnsAssumption DEF IInv, TypeInv, TypeOK, Procs
<1>3. NoTx.rows = {} /\ NoTx.created = FALSE /\ NoTx.conv = NoConv
  BY DEF NoTx
<1>4. CASE Receive(t) \/ Refuse(t)
  <2>1. /\ tx'[t] = NoTx
        /\ \/ pc'[t] = "refused"
           \/ /\ request'[t] \in Request
              /\ pc'[t] = IF request'[t].conv = NoConv THEN "find" ELSE "load"
    BY <1>1, <1>2, <1>4 DEF Receive, Refuse, Goto, Placed, Over
  <2>2. request'[t] \in Request => request'[t].conv \in Convs \cup {NoConv}
    BY DEF Request
  <2> QED
    BY <1>3, <2>1, <2>2 DEF Placed, InTurn, Writing, Over
<1>5. CASE LoadSession(t) \/ FindSession(t)
  <2>1. tx[t] = NoTx /\ request'[t] = request[t] /\ request[t] \in Request
    BY <1>1, <1>5 DEF LoadSession, FindSession, Placed, Over
  <2>2. CASE UNCHANGED tx
    <3>1. pc'[t] \in {"lock", "insert", "rollback"}
          /\ (pc'[t] = "lock" => \E c \in Convs : tx' = [tx EXCEPT ![t].conv = c])
      BY <1>1, <1>2, <1>5
         DEF LoadSession, FindSession, Goto, find_open_session, Placed
    <3>2. pc'[t] = "lock" => tx'[t].conv \in Convs
      BY <1>1, <1>2, <3>1 DEF Tx
    <3> QED
      BY <1>3, <2>1, <2>2, <3>1, <3>2 DEF Placed, InTurn, Writing, Over
  <2>3. CASE \E c \in Convs : tx' = [tx EXCEPT ![t].conv = c]
                              /\ pc' = [pc EXCEPT ![t] = "lock"]
    <3>1. pc'[t] = "lock" /\ tx'[t].conv \in Convs /\ tx'[t].rows = {}
      BY <1>1, <1>2, <1>3, <2>1, <2>3 DEF Tx
    <3> QED
      BY <2>1, <3>1 DEF Placed, InTurn, Writing, Over
  <2> QED
    BY <1>1, <1>5, <2>2, <2>3
       DEF LoadSession, FindSession, find_open_session, Goto, Placed
<1>6. CASE InsertSession(t)
  <2>1. tx[t] = NoTx /\ request'[t] = request[t] /\ request[t] \in Request
        /\ pc'[t] = "reselect"
    BY <1>1, <1>2, <1>6 DEF InsertSession, Goto, Placed, Over
  <2>2. CASE UNCHANGED tx
    BY <1>3, <2>1, <2>2 DEF Placed, InTurn, Writing, Over
  <2>3. CASE \E c \in Convs : tx' = [tx EXCEPT ![t].conv = c,
                                               ![t].created = TRUE]
    <3>1. tx'[t].created /\ tx'[t].rows = {}
      BY <1>1, <1>2, <1>3, <2>1, <2>3 DEF Tx
    <3> QED
      BY <2>1, <3>1 DEF Placed, InTurn, Writing, Over
  <2> QED
    BY <1>6, <2>2, <2>3 DEF InsertSession
<1>7. CASE ReselectSession(t)
  <2>1. request'[t] = request[t] /\ request[t] \in Request /\ tx[t].rows = {}
        /\ (~tx[t].created => tx[t] = NoTx)
    BY <1>1, <1>2, <1>7 DEF ReselectSession, Placed, Over
  <2>2. CASE tx[t].created /\ Goto(t, "lock") /\ UNCHANGED tx
    <3>1. tx[t].conv \in Convs
      BY <2>2 DEF IInv, SessionInv, Creating
    <3> QED
      BY <1>2, <2>1, <2>2, <3>1 DEF Goto, Placed, InTurn, Writing, Over
  <2>3. CASE \E c \in Convs : tx' = [tx EXCEPT ![t].conv = c]
                              /\ Goto(t, "lock")
    <3>1. pc'[t] = "lock" /\ tx'[t].conv \in Convs /\ tx'[t].rows = {}
      BY <1>1, <1>2, <2>1, <2>3 DEF Tx, Goto
    <3> QED
      BY <2>1, <3>1 DEF Placed, InTurn, Writing, Over
  <2>4. CASE ~tx[t].created /\ Goto(t, "noSession") /\ UNCHANGED tx
    BY <1>2, <2>1, <2>4 DEF Goto, Placed, InTurn, Writing, Over
  <2> QED
    BY <1>7, <2>2, <2>3, <2>4 DEF ReselectSession, find_open_session
<1>8. CASE RaiseNoSession(t)
  <2>1. tx'[t] = NoTx /\ pc'[t] \in {"commit", "rollback"}
        /\ request'[t] \in Request
    BY <1>1, <1>2, <1>8 DEF RaiseNoSession, Goto, AfterError, Placed, Over
  <2> QED
    BY <1>2, <1>3, <2>1 DEF Placed, InTurn, Writing, Over
<1>9. CASE lock_conversation(t)
  <2>1. tx[t].conv \in Convs /\ LockKey[tx[t].conv] \in LockKeys
        /\ tx[t].rows = {} /\ request[t] \in Request
    BY <1>1, <1>9, TurnsAssumption DEF lock_conversation, Placed, Over
  <2>2. pc'[t] = "sequence" /\ tx' = tx /\ request' = request
        /\ advisory'[LockKey[tx[t].conv]] = t
    BY <1>2, <1>9, <2>1 DEF lock_conversation, Goto
  <2> QED
    BY <2>1, <2>2 DEF Placed, InTurn, Writing, Over
<1>10. CASE \/ ReadSequence(t) \/ StoreUser(t) \/ GuardrailAnswer(t)
            \/ Prepare(t) \/ Fold(t) \/ StoreReply(t)
  <2>1. InTurn(t) /\ request[t] \in Request
    BY <1>1, <1>10
       DEF ReadSequence, StoreUser, GuardrailAnswer, Prepare, Fold,
           StoreReply, InTurn, Writing, Placed, Over
  <2>2. pc'[t] \in {"store", "prepare", "guardrail", "commit", "fold", "answer"}
        /\ (pc'[t] = "store" => ReadSequence(t))
    BY <1>2, <1>10
       DEF ReadSequence, StoreUser, GuardrailAnswer, Prepare, Fold,
           StoreReply, AfterPrepare, Goto
  <2>3. advisory' = advisory /\ request' = request
    BY <1>10
       DEF ReadSequence, StoreUser, GuardrailAnswer, Prepare, Fold, StoreReply
  <2>4. tx'[t].conv = tx[t].conv
    BY <1>10, StatementKeepsSession DEF Statement, IInv
  <2>5. ReadSequence(t) => tx'[t].rows = {}
    BY <1>1, <1>2 DEF ReadSequence, Tx, Placed
  <2> QED
    BY <1>1, <2>1, <2>2, <2>3, <2>4, <2>5
       DEF Placed, InTurn, Writing, Over
<1>11. CASE StreamEmpty(t) \/ ProviderFails(t)
  <2>1. tx' = tx /\ request' = request /\ advisory' = advisory
        /\ pc'[t] \in {"commit", "rollback"} /\ pc[t] = "answer"
    BY <1>2, <1>11 DEF StreamEmpty, ProviderFails, Goto, AfterError
  <2> QED
    BY <1>1, <2>1 DEF Placed, InTurn, Writing, Over
<1>12. CASE Commit(t) \/ Rollback(t) \/ Crash(t)
  <2>1. tx'[t] = NoTx /\ pc'[t] \in {"done", "failed"}
    BY <1>2, <1>12 DEF Commit, Rollback, Crash, Forget, Goto
  <2> QED
    BY <1>3, <2>1 DEF Placed, InTurn, Writing, Over
<1> QED
  BY <1>4, <1>5, <1>6, <1>7, <1>8, <1>9, <1>10, <1>11, <1>12 DEF Progress

(* Every step keeps what turns have where they are.                      *)
LEMMA LockStep == IInv /\ [Next]_vars => LockInv'
<1> SUFFICES ASSUME IInv, [Next]_vars, NEW t \in Turns PROVE Placed(t)'
  BY DEF LockInv
<1>1. Placed(t) /\ TypeInv /\ t \in Procs /\ t \notin Handovers
  BY TurnsAssumption DEF IInv, LockInv, Procs
<1>2. CASE UNCHANGED vars
  BY <1>1, <1>2 DEF vars, Placed, InTurn
<1>3. ASSUME NEW p \in Procs, StepOf(p)
      PROVE  Placed(t)'
  <2>1. CASE p = t
    BY <1>1, <1>3, <2>1, LockActor DEF StepOf
  <2>2. CASE p # t
    <3>1. /\ pc'[t] = pc[t] /\ tx'[t] = tx[t] /\ request'[t] = request[t]
          /\ \A l \in LockKeys : advisory[l] = t => advisory'[l] = t
      BY <1>1, <1>3, <2>2, OthersKeepTheirs
    <3>2. \A c \in Convs : LockKey[c] \in LockKeys
      BY TurnsAssumption
    <3> QED
      BY <1>1, <3>1, <3>2 DEF Placed, InTurn
  <2> QED
    BY <2>1, <2>2
<1> QED
  BY <1>2, <1>3, NextIsAStep

-----------------------------------------------------------------------------
(* The numbering.                                                          *)

(* While a turn has its conversation's lock, nobody else's commit adds     *)
(* rows to the conversation.                                               *)
LEMMA RowsKept ==
  ASSUME IInv, NEW t \in Turns, InTurn(t), NEW p \in Procs, p # t, StepOf(p)
  PROVE  message'[tx[t].conv] = message[tx[t].conv]
<1>1. tx[t].conv \in Convs /\ advisory[LockKey[tx[t].conv]] = t
  BY DEF IInv, LockInv, Placed
<1>2. CASE ~Commit(p) \/ tx[p].conv # tx[t].conv
  BY <1>1, <1>2, OnlyCommitsAreSeen
     DEF Commit, IInv, TypeInv, TypeOK
<1>3. CASE Commit(p) /\ tx[p].conv = tx[t].conv
  <2>1. p \notin Turns
    <3> SUFFICES ASSUME p \in Turns PROVE FALSE
      OBVIOUS
    <3>1. InTurn(p)
      BY <1>1, <1>3, TurnsAssumption DEF Commit, InTurn
    <3>2. advisory[LockKey[tx[p].conv]] = p
      BY <3>1 DEF IInv, LockInv, Placed
    <3> QED
      BY <1>1, <1>3, <3>2
  <2>2. tx[p].rows = {}
    BY <2>1 DEF IInv, TypeInv, Procs
  <2>3. message'[tx[t].conv] = Rows(p)
    BY <1>1, <1>3, TurnsAssumption DEF Commit, IInv, TypeInv, TypeOK
  <2> QED
    BY <1>3, <2>2, <2>3 DEF Rows
<1> QED
  BY <1>2, <1>3

(* A commit leaves its conversation numbered.                              *)
LEMMA SequencesStep ==
  ASSUME IInv, NEW p \in Procs, StepOf(p)
  PROVE  SequencesInOrder'
<1>1. CASE ~Commit(p) \/ tx[p].conv = NoConv
  BY <1>1, OnlyCommitsAreSeen
     DEF Commit, IInv, SequenceInv, SequencesInOrder
<1>2. CASE Commit(p) /\ tx[p].conv # NoConv
  <2>1. Numbered(Rows(p))
    <3>1. CASE p \in Turns
      BY <1>2, <3>1 DEF Commit, InTurn, IInv, SequenceInv
    <3>2. CASE p \in Handovers
      <4>1. Rows(p) = message[tx[p].conv] /\ tx[p].conv \in Convs
        BY <1>2, <3>2 DEF Rows, IInv, TypeInv, TypeOK, Tx, Procs
      <4> QED
        BY <4>1 DEF IInv, SequenceInv, SequencesInOrder
    <3> QED
      BY <3>1, <3>2 DEF Procs
  <2>2. \A c \in Convs : message'[c] = IF c = tx[p].conv THEN Rows(p)
                                       ELSE message[c]
    BY <1>2 DEF Commit, IInv, TypeInv, TypeOK
  <2> QED
    BY <2>1, <2>2 DEF IInv, SequenceInv, SequencesInOrder
<1> QED
  BY <1>1, <1>2

(* A turn's own statement keeps the numbering of what it sees, and what    *)
(* next_sequence read is still the next when the row is inserted.          *)
LEMMA NumberedActor ==
  ASSUME IInv, NEW t \in Turns,
         Receive(t) \/ Refuse(t) \/ Progress(t) \/ Crash(t)
  PROVE  /\ InTurn(t)' => Numbered(Rows(t))'
         /\ (pc[t] = "store")' => tx'[t].next = next_sequence(t)'
<1>1. /\ pc \in [Procs -> Labels] /\ tx \in [Procs -> Tx] /\ t \in Procs
      /\ tx[t] \in Tx /\ NoConv \notin Convs /\ NoTx.conv = NoConv
  BY TurnsAssumption DEF IInv, TypeInv, TypeOK, Procs, NoTx
<1>2. CASE \/ Receive(t) \/ Refuse(t) \/ LoadSession(t) \/ FindSession(t)
           \/ InsertSession(t) \/ ReselectSession(t)
  <2>1. pc'[t] \notin Writing \cup {"commit"}
    BY <1>1, <1>2
       DEF Receive, Refuse, LoadSession, FindSession, InsertSession,
           ReselectSession, Goto, Writing
  <2> QED
    BY <2>1 DEF InTurn, Writing
<1>3. CASE RaiseNoSession(t)
  <2>1. tx'[t] = NoTx /\ pc'[t] \in {"commit", "rollback"}
    BY <1>1, <1>3 DEF RaiseNoSession, Goto, AfterError, IInv, LockInv, Placed
  <2> QED
    BY <1>1, <2>1 DEF InTurn, Writing
<1>4. CASE lock_conversation(t)
  <2>1. tx' = tx /\ message' = message /\ pc'[t] = "sequence"
    BY <1>1, <1>4 DEF lock_conversation, Goto
  <2>2. tx[t].conv \in Convs /\ tx[t].rows = {}
    BY <1>4 DEF lock_conversation, IInv, LockInv, Placed
  <2>3. Rows(t) = message[tx[t].conv] /\ Rows(t)' = Rows(t)
    BY <2>1, <2>2 DEF Rows
  <2> QED
    BY <2>1, <2>2, <2>3 DEF IInv, SequenceInv, SequencesInOrder
<1>5. CASE ReadSequence(t)
  <2>1. tx'[t].conv = tx[t].conv /\ tx'[t].rows = tx[t].rows
        /\ tx'[t].next = next_sequence(t) /\ message' = message
    BY <1>1, <1>5 DEF ReadSequence, Tx
  <2>2. Rows(t)' = Rows(t)
    BY <2>1 DEF Rows
  <2>3. Numbered(Rows(t))
    BY <1>5 DEF ReadSequence, InTurn, Writing, IInv, SequenceInv
  <2> QED
    BY <2>1, <2>2, <2>3 DEF next_sequence
<1>6. CASE StoreUser(t) \/ GuardrailAnswer(t) \/ Fold(t) \/ StoreReply(t)
  <2>1. InTurn(t) /\ message' = message /\ pc'[t] # "store"
    BY <1>1, <1>6 DEF StoreUser, GuardrailAnswer, Fold, StoreReply, InTurn,
                      Writing, Goto, AfterPrepare
  <2>2. tx'[t].conv = tx[t].conv
        /\ \/ tx'[t].rows = tx[t].rows
           \/ \E role \in Roles, b \in Nat :
                tx'[t].rows = WithRow(t, role, b)
    <3>1. CASE StoreUser(t)
      <4>1. tx[t].next = next_sequence(t)
        BY <3>1 DEF StoreUser, IInv, SequenceInv
      <4>2. tx'[t].conv = tx[t].conv /\ tx'[t].rows = WithRow(t, "user", 0)
        BY <1>1, <3>1, <4>1 DEF StoreUser, WithRow, Tx
      <4> QED
        BY <4>2 DEF Roles
    <3>2. CASE GuardrailAnswer(t)
      <4>1. tx'[t].conv = tx[t].conv
            /\ (\/ tx'[t].rows = WithRow(t, "decline", 0)
                \/ tx'[t].rows = WithRow(t, "handoff", 0))
        BY <1>1, <3>2 DEF GuardrailAnswer, Tx
      <4> QED
        BY <4>1 DEF Roles
    <3>3. CASE Fold(t)
      <4>1. tx'[t].conv = tx[t].conv
            /\ (\/ tx'[t].rows = WithRow(t, "summary", 0)
                \/ tx'[t].rows = tx[t].rows)
        BY <1>1, <3>3 DEF Fold, Tx
      <4> QED
        BY <4>1 DEF Roles
    <3>4. CASE StoreReply(t)
      <4>1. tx'[t].conv = tx[t].conv
            /\ tx'[t].rows = WithRow(t, "reply", tx[t].basis)
        BY <1>1, <3>4 DEF StoreReply, Tx
      <4>2. tx[t].basis \in Nat
        BY <1>1 DEF Tx
      <4> QED
        BY <4>1, <4>2 DEF Roles
    <3> QED
      BY <1>6, <3>1, <3>2, <3>3, <3>4
  <2>3. CASE tx'[t].rows = tx[t].rows
    <3>1. Rows(t)' = Rows(t) /\ Numbered(Rows(t))
      BY <2>1, <2>2, <2>3 DEF Rows, IInv, SequenceInv
    <3> QED
      BY <2>1, <3>1
  <2>4. CASE \E role \in Roles, b \in Nat : tx'[t].rows = WithRow(t, role, b)
    <3> PICK role \in Roles, b \in Nat : tx'[t].rows = WithRow(t, role, b)
      BY <2>4
    <3>1. Rows(t)' = message[tx[t].conv] \cup WithRow(t, role, b)
      BY <2>1, <2>2 DEF Rows
    <3>2. Numbered(message[tx[t].conv] \cup WithRow(t, role, b))
      BY <2>1, RowIsAdded DEF WithRow
    <3> QED
      BY <2>1, <3>1, <3>2
  <2> QED
    BY <2>2, <2>3, <2>4
<1>7. CASE Prepare(t) \/ StreamEmpty(t) \/ ProviderFails(t)
  <2>1. pc[t] \in Writing /\ message' = message /\ pc'[t] # "store"
    BY <1>1, <1>7 DEF Prepare, StreamEmpty, ProviderFails, Writing, Goto,
                      AfterPrepare, AfterError
  <2>2. tx'[t].conv = tx[t].conv /\ tx'[t].rows = tx[t].rows
    <3>1. ASSUME NEW b, NEW d, NEW n,
                 tx' = [tx EXCEPT ![t].basis = b, ![t].cut = d, ![t].prepared = n]
          PROVE  tx'[t].conv = tx[t].conv /\ tx'[t].rows = tx[t].rows
      BY <1>1, <3>1 DEF Tx
    <3>2. ASSUME Prepare(t)
          PROVE  tx'[t].conv = tx[t].conv /\ tx'[t].rows = tx[t].rows
      <4>1. PICK d \in Droppable(PromptHistory(t)) :
              tx' = [tx EXCEPT ![t].basis = Cardinality(PromptHistory(t)),
                               ![t].cut = Cardinality(d),
                               ![t].prepared = tx[t].prepared + 1]
        BY <3>2 DEF Prepare
      <4> QED
        BY <3>1, <4>1
    <3>3. StreamEmpty(t) \/ ProviderFails(t) => tx' = tx
      BY DEF StreamEmpty, ProviderFails
    <3> QED
      BY <1>7, <3>2, <3>3
  <2>3. Rows(t)' = Rows(t) /\ Numbered(Rows(t))
    BY <2>1, <2>2 DEF Rows, InTurn, IInv, SequenceInv
  <2> QED
    BY <2>1, <2>3
<1>8. CASE Commit(t) \/ Rollback(t) \/ Crash(t)
  <2>1. pc'[t] \in {"done", "failed"}
    BY <1>1, <1>8 DEF Commit, Rollback, Crash, Goto
  <2> QED
    BY <2>1 DEF InTurn, Writing
<1> QED
  BY <1>2, <1>3, <1>4, <1>5, <1>6, <1>7, <1>8 DEF Progress

(* Every step keeps the numbering.                                       *)
LEMMA SequenceStep == IInv /\ [Next]_vars => SequenceInv'
<1> SUFFICES ASSUME IInv, [Next]_vars PROVE SequenceInv'
  OBVIOUS
<1>1. CASE UNCHANGED vars
  BY <1>1 DEF vars, IInv, SequenceInv, SequencesInOrder, InTurn, Rows,
              next_sequence
<1>2. ASSUME NEW p \in Procs, StepOf(p)
      PROVE  SequenceInv'
  <2>1. ASSUME NEW t \in Turns
        PROVE  /\ InTurn(t)' => Numbered(Rows(t))'
               /\ (pc[t] = "store")' => tx'[t].next = next_sequence(t)'
    <3>1. TypeInv /\ t \in Procs /\ t \notin Handovers
      BY TurnsAssumption DEF IInv, Procs
    <3>2. CASE p = t
      BY <1>2, <3>1, <3>2, NumberedActor DEF StepOf
    <3>3. CASE p # t
      <4>1. pc'[t] = pc[t] /\ tx'[t] = tx[t]
        BY <1>2, <3>1, <3>3, OthersKeepTheirs
      <4>2. InTurn(t)' <=> InTurn(t)
        BY <4>1 DEF InTurn
      <4>3. InTurn(t) => Rows(t)' = Rows(t)
        BY <1>2, <3>3, <4>1, RowsKept DEF Rows
      <4>4. pc[t] = "store" => InTurn(t)
        BY DEF InTurn, Writing
      <4> QED
        BY <4>1, <4>2, <4>3, <4>4 DEF IInv, SequenceInv, next_sequence
    <3> QED
      BY <3>2, <3>3
  <2> QED
    BY <1>2, <2>1, SequencesStep DEF SequenceInv
<1> QED
  BY <1>1, <1>2, NextIsAStep

-----------------------------------------------------------------------------
(* The open sessions.                                                      *)

(* A commit of a session that was there before never opens one, and never  *)
(* leaves a row without a status.                                          *)
LEMMA CommitOfOld ==
  ASSUME IInv, NEW p \in Procs, StepOf(p), ~tx[p].created
  PROVE  /\ \A k \in Keys : find_open_session(k)' \subseteq find_open_session(k)
         /\ \A c \in Convs : conversation[c].status # "none"
                               => conversation'[c].status # "none"
<1>1. CASE ~Commit(p) \/ tx[p].conv = NoConv
  <2>1. conversation' = conversation
    BY <1>1, OnlyCommitsAreSeen DEF Commit
  <2> QED
    BY <2>1 DEF find_open_session
<1>2. CASE Commit(p) /\ tx[p].conv # NoConv
  <2> DEFINE c == tx[p].conv
  <2>1. c \in Convs /\ tx[p].status \in {"same", "escalated", "closed"}
    BY <1>2 DEF IInv, TypeInv, TypeOK, Tx
  <2>2. \A d \in Convs : conversation'[d] = IF d = c THEN Committed(p)
                                            ELSE conversation[d]
    BY <1>2 DEF Commit, IInv, TypeInv, TypeOK
  <2>3. conversation[c].status # "none"
    BY <2>1 DEF IInv, SessionInv
  <2>4. Committed(p).key = conversation[c].key
        /\ Committed(p).status = Status(p)
    BY DEF Committed
  <2>5. Status(p) # "none"
        /\ (Status(p) = "active" => conversation[c].status = "active")
    BY <2>1, <2>3 DEF Status
  <2> QED
    BY <2>1, <2>2, <2>4, <2>5 DEF find_open_session
<1> QED
  BY <1>1, <1>2

(* A commit of a new session opens it for its key and touches no other.    *)
LEMMA CommitOfNew ==
  ASSUME IInv, NEW p \in Procs, StepOf(p), tx[p].created
  PROVE  /\ p \in Turns
         /\ \A k \in Keys : find_open_session(k)' \subseteq
              find_open_session(k) \cup
                (IF k = request[p].key THEN {tx[p].conv} ELSE {})
         /\ \A c \in Convs : conversation[c].status # "none"
                               => conversation'[c].status # "none"
         /\ \A c \in Convs \ {tx[p].conv} : conversation'[c] = conversation[c]
<1>1. p \in Turns
  BY DEF IInv, TypeInv, Procs
<1>2. tx[p].conv \in Convs /\ conversation[tx[p].conv].status = "none"
  BY <1>1 DEF IInv, SessionInv, Creating
<1>3. CASE ~Commit(p)
  BY <1>1, <1>3, OnlyCommitsAreSeen DEF find_open_session
<1>4. CASE Commit(p)
  <2>1. \A d \in Convs : conversation'[d] = IF d = tx[p].conv THEN Committed(p)
                                            ELSE conversation[d]
    BY <1>2, <1>4, TurnsAssumption DEF Commit, IInv, TypeInv, TypeOK
  <2>2. Committed(p).key = request[p].key
    BY DEF Committed
  <2> QED
    BY <1>1, <1>2, <2>1, <2>2 DEF find_open_session
<1> QED
  BY <1>3, <1>4

(* Every step leaves a key with at most one open session.                *)
LEMMA OneOpenStep ==
  ASSUME IInv, NEW p \in Procs, StepOf(p)
  PROVE  OneOpenSession'
<1>1. OneOpenSession
  BY DEF IInv, SessionInv
<1>2. CASE ~tx[p].created
  BY <1>1, <1>2, CommitOfOld DEF OneOpenSession
<1>3. CASE tx[p].created
  <2>1. p \in Turns /\ find_open_session(request[p].key) = {}
    BY <1>3, CommitOfNew DEF IInv, SessionInv, Creating
  <2> QED
    BY <1>1, <1>3, <2>1, CommitOfNew DEF OneOpenSession
<1> QED
  BY <1>2, <1>3

(* The conversation a step takes up exists, unless the step inserts it.    *)
LEMMA TakesUp ==
  ASSUME IInv, NEW p \in Procs, StepOf(p), tx'[p].conv \in Convs,
         ~tx'[p].created
  PROVE  conversation[tx'[p].conv].status # "none"
<1>1. /\ tx \in [Procs -> Tx] /\ tx[p] \in Tx /\ NoConv \notin Convs
      /\ NoTx.conv = NoConv
  BY TurnsAssumption DEF IInv, TypeInv, TypeOK, NoTx
<1>2. CASE tx'[p].conv = tx[p].conv /\ tx'[p].created = tx[p].created
  BY <1>2 DEF IInv, SessionInv
<1>3. CASE \E c \in Convs : /\ tx' = [tx EXCEPT ![p].conv = c]
                            /\ conversation[c].status # "none"
  BY <1>1, <1>3 DEF Tx
<1>4. CASE \E c \in Convs, s \in {"closed", "escalated"} :
             /\ tx' = [tx EXCEPT ![p].conv = c, ![p].status = s]
             /\ conversation[c].status # "none"
  BY <1>1, <1>4 DEF Tx
<1>5. CASE p \in Turns /\ LoadSession(p)
  <2>1. request[p].conv \in Convs
    BY <1>5 DEF LoadSession, IInv, LockInv, Placed
  <2>2. CASE UNCHANGED tx
    BY <1>2, <2>2
  <2> QED
    BY <1>3, <1>5, <2>1, <2>2 DEF LoadSession
<1>6. CASE FindSession(p) \/ ReselectSession(p)
  BY <1>2, <1>3, <1>6 DEF FindSession, ReselectSession, find_open_session
<1>7. CASE InsertSession(p)
  <2>1. CASE UNCHANGED tx
    BY <1>2, <2>1
  <2>2. CASE \E c \in Convs : tx' = [tx EXCEPT ![p].conv = c,
                                               ![p].created = TRUE]
    BY <1>1, <2>2 DEF Tx
  <2> QED
    BY <1>7, <2>1, <2>2 DEF InsertSession
<1>8. CASE \/ Receive(p) \/ Refuse(p) \/ RaiseNoSession(p)
           \/ lock_conversation(p) \/ StreamEmpty(p) \/ ProviderFails(p)
           \/ UpdateStatus(p)
  BY <1>2, <1>8 DEF Receive, Refuse, RaiseNoSession, lock_conversation,
                    StreamEmpty, ProviderFails, UpdateStatus
<1>9. CASE p \in Turns /\ Statement(p)
  BY <1>2, <1>9, StatementKeepsSession DEF IInv
<1>12. CASE Commit(p) \/ Rollback(p) \/ Crash(p)
  BY <1>1, <1>12 DEF Commit, Rollback, Crash, Forget
<1>13. CASE ReadConversation(p)
  <2>1. CASE UNCHANGED tx
    BY <1>2, <2>1
  <2> QED
    BY <1>4, <1>13, <2>1 DEF ReadConversation
<1> QED
  BY <1>5, <1>6, <1>7, <1>8, <1>9, <1>12, <1>13
     DEF StepOf, Progress, Handover, Statement

(* A session that a turn's step has inserted, or that it had inserted and  *)
(* not yet committed, is still the turn's own and the only one of its key. *)
LEMMA CreatingActor ==
  ASSUME IInv, NEW t \in Turns,
         Receive(t) \/ Refuse(t) \/ Progress(t) \/ Crash(t), tx'[t].created
  PROVE  Creating(t)'
<1>1. /\ tx \in [Procs -> Tx] /\ tx[t] \in Tx /\ t \in Procs
      /\ rowlock \in [Convs -> Procs \cup {NoOne}] /\ NoTx.created = FALSE
      /\ \A u \in Turns : u \in Procs
  BY DEF IInv, TypeInv, TypeOK, Procs, NoTx
<1>0. tx \in [Procs -> Tx] /\ tx[t] \in Tx /\ t \in Procs
  BY <1>1
<1>2. ASSUME ~InsertSession(t) \/ UNCHANGED tx
      PROVE  /\ tx[t].created /\ tx'[t].conv = tx[t].conv
             /\ \A u \in Turns \ {t} : tx'[u] = tx[u]
             /\ conversation' = conversation /\ request' = request
             /\ rowlock[tx[t].conv] = t => rowlock'[tx[t].conv] = t
  <2>1. CASE Receive(t) \/ Refuse(t)
    <3>1. tx' = tx /\ (pc[t] = "idle")
      BY <2>1 DEF Receive, Refuse
    <3>2. tx[t] = NoTx
      BY <3>1 DEF IInv, LockInv, Placed
    <3> QED
      BY <1>1, <3>1, <3>2
  <2>2. CASE LoadSession(t) \/ FindSession(t)
    <3>1. tx[t] = NoTx
      BY <2>2 DEF LoadSession, FindSession, IInv, LockInv, Placed
    <3>2. tx'[t].created = tx[t].created
      <4>1. LoadSession(t) => tx'[t].created = tx[t].created
        BY <1>0 DEF LoadSession, Tx
      <4>2. FindSession(t) => tx'[t].created = tx[t].created
        BY <1>0 DEF FindSession, Tx
      <4> QED
        BY <2>2, <4>1, <4>2
    <3> QED
      BY <1>1, <3>1, <3>2
  <2>3. CASE InsertSession(t)
    <3>1. tx[t] = NoTx
      BY <2>3 DEF InsertSession, IInv, LockInv, Placed
    <3> QED
      BY <1>1, <1>2, <2>3, <3>1
  <2>4. CASE ReselectSession(t)
    <3>1. tx'[t].created = tx[t].created
      BY <1>0, <2>4 DEF ReselectSession, Tx
    <3> QED
      BY <1>1, <2>4, <3>1 DEF ReselectSession
  <2>5. CASE RaiseNoSession(t) \/ lock_conversation(t) \/ StreamEmpty(t)
             \/ ProviderFails(t)
    BY <2>5 DEF RaiseNoSession, lock_conversation, StreamEmpty, ProviderFails
  <2>6. CASE Statement(t)
    <3>1. /\ tx'[t].created = tx[t].created /\ tx'[t].conv = tx[t].conv
          /\ \A u \in Turns \ {t} : tx'[u] = tx[u]
      BY <1>1, <2>6, StatementKeepsSession DEF IInv
    <3>2. rowlock[tx[t].conv] = t => rowlock'[tx[t].conv] = t
      <4>1. StoreUser(t) => rowlock' = [rowlock EXCEPT ![tx[t].conv] = t]
        BY DEF StoreUser
      <4>2. ~StoreUser(t) => rowlock' = rowlock
        BY <2>6 DEF Statement, ReadSequence, GuardrailAnswer, Prepare, Fold,
                    StoreReply
      <4> QED
        BY <1>1, <4>1, <4>2
    <3>3. conversation' = conversation /\ request' = request
      BY <2>6 DEF Statement, ReadSequence, StoreUser, GuardrailAnswer,
                  Prepare, Fold, StoreReply
    <3> QED
      BY <3>1, <3>2, <3>3
  <2>10. CASE Commit(t) \/ Rollback(t) \/ Crash(t)
    BY <1>1, <2>10 DEF Commit, Rollback, Crash, Forget
  <2> QED
    BY <2>1, <2>2, <2>3, <2>4, <2>5, <2>6, <2>10 DEF Progress, Statement
<1>3. CASE ~InsertSession(t) \/ UNCHANGED tx
  <2>1. Creating(t)
    BY <1>2, <1>3 DEF IInv, SessionInv
  <2> QED
    BY <1>2, <1>3, <2>1 DEF Creating, find_open_session
<1>4. CASE InsertSession(t) /\ tx' # tx
  <2>1. /\ ~Contended(t, request[t].key) /\ request' = request
        /\ conversation' = conversation
        /\ find_open_session(request[t].key) = {}
    BY <1>4 DEF InsertSession
  <2>2. PICK c \in Convs :
          /\ conversation[c].status = "none"
          /\ rowlock' = [rowlock EXCEPT ![c] = t]
          /\ tx' = [tx EXCEPT ![t].conv = c, ![t].created = TRUE]
    BY <1>4 DEF InsertSession
  <2>3. tx'[t].conv = c /\ rowlock'[c] = t
        /\ \A u \in Turns \ {t} : tx'[u] = tx[u]
    BY <1>1, <2>2 DEF Tx
  <2>4. request[t] \in Request
    BY <1>4 DEF InsertSession, IInv, LockInv, Placed, Over
  <2>5. \A u \in Turns \ {t} : tx[u].created => request[u].key # request[t].key
    BY <2>1 DEF Contended
  <2> QED
    BY <2>1, <2>2, <2>3, <2>4, <2>5 DEF Creating, find_open_session
<1> QED
  BY <1>3, <1>4

(* A step of another process leaves an uncommitted session alone.          *)
LEMMA CreatingOther ==
  ASSUME IInv, NEW p \in Procs, StepOf(p), NEW t \in Turns, t # p,
         tx[t].created
  PROVE  Creating(t)'
<1>1. /\ Creating(t) /\ t \in Procs /\ TypeInv /\ request[t].key \in Keys
  BY DEF IInv, SessionInv, Creating, Procs, Request
<1>2. /\ tx'[t] = tx[t] /\ request'[t] = request[t]
      /\ rowlock'[tx[t].conv] = t
  BY <1>1, OthersKeepTheirs DEF Creating
<1>3. conversation'[tx[t].conv].status = "none"
      /\ find_open_session(request[t].key)' = {}
  <2>1. CASE tx[p].created
    <3>1. p \in Turns /\ tx[p].conv \in Convs /\ rowlock[tx[p].conv] = p
          /\ request[p].key # request[t].key
      BY <1>1, <2>1, CommitOfNew DEF IInv, SessionInv, Creating
    <3>2. tx[p].conv # tx[t].conv
      BY <1>1, <3>1 DEF Creating
    <3>3. /\ conversation'[tx[t].conv] = conversation[tx[t].conv]
          /\ find_open_session(request[t].key)'
               \subseteq find_open_session(request[t].key)
      BY <1>1, <1>2, <2>1, <3>1, <3>2, CommitOfNew
         DEF Creating, find_open_session
    <3> QED
      BY <1>1, <3>3 DEF Creating
  <2>2. CASE ~tx[p].created
    <3>1. tx[p].conv \in Convs => tx[p].conv # tx[t].conv
      BY <1>1, <2>2 DEF IInv, SessionInv, Creating
    <3>2. conversation'[tx[t].conv] = conversation[tx[t].conv]
      BY <1>1, <3>1, OnlyCommitsAreSeen
         DEF Commit, Creating, IInv, TypeInv, TypeOK
    <3>3. find_open_session(request[t].key)'
            \subseteq find_open_session(request[t].key)
      BY <1>1, <1>2, <2>2, CommitOfOld DEF find_open_session
    <3> QED
      BY <1>1, <3>2, <3>3 DEF Creating
  <2> QED
    BY <2>1, <2>2
<1>4. ASSUME NEW u \in Turns \ {t}, tx'[u].created
      PROVE  request'[u].key # request[t].key
  <2>1. u \in Procs
    BY DEF Procs
  <2>2. CASE u # p
    BY <1>1, <1>4, <2>1, <2>2, OthersKeepTheirs DEF Creating
  <2>3. CASE u = p
    <3>1. Receive(u) \/ Refuse(u) \/ Progress(u) \/ Crash(u)
      BY <2>3, TurnsAssumption DEF StepOf
    <3>2. Creating(u)'
      BY <1>4, <3>1, CreatingActor
    <3> QED
      BY <1>1, <1>2, <3>2 DEF Creating
  <2> QED
    BY <2>2, <2>3
<1> QED
  BY <1>1, <1>2, <1>3, <1>4 DEF Creating

(* Every step keeps the session invariant.                               *)
LEMMA SessionStep == IInv /\ [Next]_vars => SessionInv'
<1> SUFFICES ASSUME IInv, [Next]_vars PROVE SessionInv'
  OBVIOUS
<1>1. CASE UNCHANGED vars
  BY <1>1 DEF vars, IInv, SessionInv, OneOpenSession, Creating,
              find_open_session
<1>2. ASSUME NEW p \in Procs, StepOf(p)
      PROVE  SessionInv'
  <2>1. OneOpenSession'
    BY <1>2, OneOpenStep
  <2>2. ASSUME NEW q \in Procs, tx'[q].conv \in Convs, ~tx'[q].created
        PROVE  conversation'[tx'[q].conv].status # "none"
    <3>1. conversation[tx'[q].conv].status # "none"
      <4>1. CASE q = p
        BY <1>2, <2>2, <4>1, TakesUp
      <4>2. CASE q # p
        BY <1>2, <2>2, <4>2, OthersKeepTheirs DEF IInv, SessionInv
      <4> QED
        BY <4>1, <4>2
    <3> QED
      BY <1>2, <2>2, <3>1, CommitOfOld, CommitOfNew
  <2>3. ASSUME NEW t \in Turns, tx'[t].created
        PROVE  Creating(t)'
    <3>1. t \in Procs /\ t \notin Handovers /\ TypeInv
      BY TurnsAssumption DEF Procs, IInv
    <3>2. CASE t = p
      BY <1>2, <2>3, <3>1, <3>2, CreatingActor DEF StepOf
    <3>3. CASE t # p
      BY <1>2, <2>3, <3>1, <3>3, OthersKeepTheirs, CreatingOther
    <3> QED
      BY <3>2, <3>3
  <2> QED
    BY <2>1, <2>2, <2>3 DEF SessionInv
<1> QED
  BY <1>1, <1>2, NextIsAStep

-----------------------------------------------------------------------------
(* The theorems.                                                           *)

(* The invariant is inductive.                                           *)
LEMMA InvStep == IInv /\ [Next]_vars => IInv'
BY TypeStep, LockStep, SequenceStep, SessionStep DEF IInv

(* The conjunction of the type, lock, numbering and session invariants is  *)
(* inductive for the transactions of the conversation engine.              *)
THEOREM Invariance == Spec => []IInv
<1>1. Init => IInv
  BY InvInit
<1>2. IInv /\ [Next]_vars => IInv'
  BY InvStep
<1> QED
  BY <1>1, <1>2, PTL DEF Spec

(* Every row, lock and private state keeps its kind; no conversation row   *)
(* is committed with a status the enum lacks.                              *)
THEOREM TypeCorrect == Spec => []TypeOK
<1>1. IInv => TypeOK
  BY DEF IInv, TypeInv
<1> QED
  BY <1>1, Invariance, PTL

(* next_sequence under the advisory lock: the committed rows of every      *)
(* conversation are numbered 1, 2, 3, ... without a gap or a repetition,   *)
(* so the unique constraint on (conversation, sequence) never fails.       *)
THEOREM SequencesAreInOrder == Spec => []SequencesInOrder
<1>1. IInv => SequencesInOrder
  BY DEF IInv, SequenceInv
<1> QED
  BY <1>1, Invariance, PTL

(* open_session: however first messages race with each other and with      *)
(* operators, a key never has two open sessions.                           *)
THEOREM OneOpenSessionPerKey == Spec => []OneOpenSession
<1>1. IInv => OneOpenSession
  BY DEF IInv, SessionInv
<1> QED
  BY <1>1, Invariance, PTL

=============================================================================
