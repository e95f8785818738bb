----------------------- MODULE PlatformChannels_proofs ----------------------
(***************************************************************************)
(* Proofs about the channels: the events that tell of conversations (E),   *)
(* the log of outbound WhatsApp messages (W), the deliveries of inbound    *)
(* ones (V), the pulls of connectors (P) and the reports on what the       *)
(* channels carried (D).                                                   *)
(*                                                                         *)
(* The lemmas are about the instances of MCPlatform, whose variables are   *)
(* slots:                                                                  *)
(*   E  ChannelEvents: v1 status, v2 opening, v3 lock, v4 message, v5      *)
(*      sent, v6 ends                                                      *)
(*   W  WhatsAppOutbound: v1 origin, v2 template, v3 connected, v4 open,   *)
(*      v5 send, v6 row, v7 known, v8 webhook, v9 receipts, v10 moves      *)
(*   V  WhatsAppDeliveries: v1 channel, v2 row, v3 turns, v4 replies, v5   *)
(*      lost, v6 hook, v7 posts                                            *)
(*   P  ConnectorPull: v1 style, v2 endpoint, v3 blank, v4 pull, v5        *)
(*      changed                                                            *)
(*   D  AnalyticsReport: v1 today, v2 conv, v3 message, v4 failed, v5      *)
(*      report                                                             *)
(***************************************************************************)
EXTENDS MCPlatform, TLAPS, FiniteSetTheorems, WellFoundedInduction

-----------------------------------------------------------------------------
(* Induction over numbers, by a set: for lemmas about data.                *)

(* Of two numbers, the first is less.                                      *)
Below == {p \in Nat \X Nat : p[1] < p[2]}

(* What holds of a number as soon as it holds of those below it holds of   *)
(* all up to n.                                                            *)
LEMMA Induction ==
  ASSUME NEW n \in Nat, NEW S,
         \A i \in 0..n : 0..(i - 1) \subseteq S => i \in S
  PROVE  0..n \subseteq S
<1> DEFINE Out == (0..n) \ S
<1>1. IsWellFoundedOn(Below, Nat)
  BY NatLessThanWellFounded DEF OpToRel, Below
<1>2. ASSUME Out # {} PROVE FALSE
  <2>1. Out \subseteq Nat
    OBVIOUS
  <2> HIDE DEF Out
  <2>2. PICK x \in Out : \A y \in Out : ~ (<<y, x>> \in Below)
    BY <1>1, <1>2, <2>1, WFMin
  <2>3. x \in 0..n /\ x \notin S
    BY DEF Out
  <2>4. \A y \in 0..(x - 1) : y \in 0..n /\ <<y, x>> \in Below
    BY <2>3 DEF Below
  <2>5. 0..(x - 1) \subseteq S
    BY <2>2, <2>4 DEF Out
  <2> QED
    BY <2>3, <2>5
<1> QED
  BY <1>2

-----------------------------------------------------------------------------
(* Channel events.  What a delivery knows of its conversation is of a row  *)
(* that was there before, and it emits before it is done.                  *)

(* What was told stays told.                                               *)
LEMMA ToldStays ==
  ASSUME v5 \subseteq v5', NEW event, NEW c, E!Told(event, c)
  PROVE  E!Told(event, c)'
BY DEF E!Told

(* A step of m that commits nothing: what its record has to be.            *)
LEMMA MessageStep ==
  ASSUME E!EventInv, NEW m \in Messages, NEW w \in E!Known,
         v4' = [v4 EXCEPT ![m] = w],
         UNCHANGED v1, v5 \subseteq v5',
         w.existing # E!None =>
           w.existing \in Conversations /\ v1[w.existing] # E!None,
         w.pc \in {"look", "open", "insert", "find"} => ~w.made,
         w.made => w.joined \in Conversations,
         w.made /\ w.pc \in {"lock", "turn", "emit", "commit"} =>
           /\ v1[w.joined] = E!None
           /\ \A n \in Messages \ {m} : v4[n].joined # w.joined,
         \A n \in Messages \ {m} : E!Pending(n) => v4[n].joined # w.joined,
         w.made /\ w.existing # E!None => v1[w.existing] # "active",
         w.pc \in {"commit", "done"} =>
           /\ w.existing = E!None =>
                \E e \in v5' : e.event = "started" /\ e.conversation = w.joined
           /\ w.escalates =>
                \E e \in v5' : e.event = "escalated" /\ e.conversation = w.joined
  PROVE  E!EventInv'
<1>1. /\ v4' \in [Messages -> E!Known] /\ v4'[m] = w
      /\ \A n \in Messages \ {m} : v4'[n] = v4[n]
  BY DEF E!EventInv, E!Types
<1>2. E!Types'
  BY <1>1 DEF E!EventInv, E!Types
<1>3. E!FoundHasRow'
  BY <1>1 DEF E!EventInv, E!FoundHasRow
<1>4. E!PendingIsOwn'
  BY <1>1 DEF E!EventInv, E!PendingIsOwn, E!Pending
<1>5. E!FoundHasEnded'
  BY <1>1 DEF E!EventInv, E!FoundHasEnded
<1>6. E!EmittedIsTold'
  BY <1>1, ToldStays DEF E!EventInv, E!EmittedIsTold, E!Told
<1> QED
  BY <1>2, <1>3, <1>4, <1>5, <1>6 DEF E!EventInv

(* The open session is a conversation that is active.                      *)
LEMMA SessionIsActive ==
  ASSUME E!open_session # E!None
  PROVE  E!open_session \in Conversations /\ v1[E!open_session] = "active"
<1>1. E!Active # {}
  BY DEF E!open_session
<1>2. PICK c \in E!Active : TRUE
  BY <1>1
<1> QED
  BY <1>1, <1>2 DEF E!open_session, E!Active

(* A message looks for the session, joins it or opens one.                 *)
LEMMA JoinStep ==
  ASSUME E!EventInv, NEW m \in Messages,
         E!Look(m) \/ E!Open(m) \/ E!Insert(m) \/ E!Find(m)
  PROVE  E!EventInv'
<1> DEFINE x == v4[m]
<1>1. /\ E!Types /\ x \in E!Known /\ ~x.made
      /\ UNCHANGED v1 /\ v5 \subseteq v5'
      /\ x.existing # E!None => x.existing \in Conversations /\ v1[x.existing] # E!None
      /\ x.pc \in {"look", "open", "insert", "find"}
      /\ \A n \in Messages \ {m} : E!Pending(n) =>
           v1[v4[n].joined] = E!None /\ v4[n].joined # x.joined
  BY DEF E!Look, E!Open, E!Insert, E!Find, E!At, E!EventInv, E!Types, E!PendingIsOwn,
         E!FoundHasRow
<1>2. /\ x.existing \in Conversations \cup {E!None}
      /\ x.joined \in Conversations \cup {E!None} /\ x.escalates \in BOOLEAN
  BY <1>1 DEF E!Known
<1>3. CASE v4' = [v4 EXCEPT ![m].existing = E!open_session, ![m].pc = "open"]
  <2> DEFINE w == [x EXCEPT !.existing = E!open_session, !.pc = "open"]
  <2>1. E!open_session \in Conversations \cup {E!None}
    BY SessionIsActive
  <2>2. /\ w \in E!Known /\ w.existing = E!open_session /\ w.pc = "open"
        /\ w.made = x.made /\ w.joined = x.joined
    BY <1>1, <1>2, <2>1 DEF E!Known
  <2>3. v4' = [v4 EXCEPT ![m] = w]
    BY <1>1, <1>3 DEF E!Types
  <2>4. E!open_session # E!None =>
          E!open_session \in Conversations /\ v1[E!open_session] # E!None
    BY SessionIsActive DEF E!None
  <2> HIDE DEF w, x
  <2>5. /\ ~w.made
        /\ w.existing # E!None =>
             w.existing \in Conversations /\ v1[w.existing] # E!None
        /\ \A n \in Messages \ {m} : E!Pending(n) => v4[n].joined # w.joined
    BY <1>1, <2>2, <2>4
  <2> QED
    BY <1>1, <2>2, <2>3, <2>5, MessageStep
<1>4. ASSUME NEW pc \in {"insert", "find", "failed"},
             v4' = [v4 EXCEPT ![m].pc = pc]
      PROVE  E!EventInv'
  <2> DEFINE w == [x EXCEPT !.pc = pc]
  <2>1. /\ w \in E!Known /\ w.existing = x.existing /\ w.pc = pc
        /\ w.made = x.made /\ w.joined = x.joined
    BY <1>1, <1>2 DEF E!Known
  <2>2. v4' = [v4 EXCEPT ![m] = w]
    BY <1>1, <1>4 DEF E!Types
  <2> HIDE DEF w, x
  <2>3. /\ ~w.made
        /\ w.existing # E!None =>
             w.existing \in Conversations /\ v1[w.existing] # E!None
        /\ \A n \in Messages \ {m} : E!Pending(n) => v4[n].joined # w.joined
    BY <1>1, <2>1
  <2> QED
    BY <1>1, <1>4, <2>1, <2>2, <2>3, MessageStep
<1>5. ASSUME NEW c \in Conversations, NEW made \in BOOLEAN, E!Join(m, c, made),
             \/ ~made /\ v1[c] = "active"
             \/ /\ made /\ v1[c] = E!None
                /\ \A n \in Messages : v4[n].joined # c
                /\ E!Active = {}
      PROVE  E!EventInv'
  <2> DEFINE w == [x EXCEPT !.joined = c, !.made = made, !.pc = "lock"]
  <2>1. /\ w \in E!Known /\ w.existing = x.existing /\ w.pc = "lock"
        /\ w.made = made /\ w.joined = c
    BY <1>1, <1>2 DEF E!Known
  <2>2. v4' = [v4 EXCEPT ![m] = w]
    BY <1>1, <1>5 DEF E!Join, E!Types
  <2>3. \A n \in Messages \ {m} : E!Pending(n) => v4[n].joined # c
    BY <1>1, <1>5 DEF E!None
  <2>4. made /\ x.existing # E!None => v1[x.existing] # "active"
    BY <1>1, <1>5 DEF E!Active, E!None
  <2> HIDE DEF w, x
  <2>5. w.existing # E!None =>
          w.existing \in Conversations /\ v1[w.existing] # E!None
    BY <1>1, <2>1
  <2>6. w.made => v1[w.joined] = E!None /\ \A n \in Messages : v4[n].joined # w.joined
    BY <1>5, <2>1
  <2>7. w.made /\ w.existing # E!None => v1[w.existing] # "active"
    BY <2>1, <2>4
  <2> QED
    BY <1>1, <2>1, <2>2, <2>3, <2>5, <2>6, <2>7, MessageStep
<1>6. CASE E!Look(m)
  BY <1>3, <1>6 DEF E!Look
<1>7. CASE E!Open(m) \/ E!Find(m)
  <2>1. CASE E!open_session = E!None
    BY <1>4, <1>7, <2>1 DEF E!Open, E!Find
  <2>2. CASE E!open_session # E!None
    BY <1>5, <1>7, <2>2, SessionIsActive DEF E!Open, E!Find
  <2> QED
    BY <2>1, <2>2
<1>8. CASE E!Insert(m)
  <2>1. CASE E!Active # {}
    BY <1>4, <1>8, <2>1 DEF E!Insert
  <2>2. CASE E!Active = {}
    <3>1. PICK c \in E!Unused : E!Join(m, c, TRUE)
      BY <1>8, <2>2 DEF E!Insert
    <3> QED
      BY <1>5, <2>2, <3>1 DEF E!Unused
  <2> QED
    BY <2>1, <2>2
<1> QED
  BY <1>6, <1>7, <1>8

(* It runs its turn, tells its events, or is rolled back.                  *)
LEMMA TurnStep ==
  ASSUME E!EventInv, NEW m \in Messages,
         E!Lock(m) \/ E!Turn(m) \/ E!Emit(m) \/ E!Rollback(m)
  PROVE  E!EventInv'
<1> DEFINE x == v4[m]
<1>1. /\ E!Types /\ x \in E!Known
      /\ UNCHANGED v1 /\ v5 \subseteq v5'
      /\ x.existing # E!None => x.existing \in Conversations /\ v1[x.existing] # E!None
      /\ x.made => x.joined \in Conversations
      /\ x.pc \in {"lock", "turn", "emit", "commit"}
      /\ x.made => /\ v1[x.joined] = E!None
                   /\ \A n \in Messages \ {m} : v4[n].joined # x.joined
      /\ \A n \in Messages \ {m} : E!Pending(n) => v4[n].joined # x.joined
      /\ x.made /\ x.existing # E!None => v1[x.existing] # "active"
  BY DEF E!Lock, E!Turn, E!Emit, E!Rollback, E!At, E!EventInv, E!Types, E!PendingIsOwn,
         E!FoundHasRow, E!FoundHasEnded, E!Pending
<1>2. ASSUME NEW w \in E!Known, v4' = [v4 EXCEPT ![m] = w],
             w.existing = x.existing, w.joined = x.joined, w.made = x.made,
             w.pc \in {"turn", "emit", "commit", "failed"},
             w.pc = "commit" =>
               /\ w.existing = E!None =>
                \E e \in v5' : e.event = "started" /\ e.conversation = w.joined
               /\ w.escalates =>
                \E e \in v5' : e.event = "escalated" /\ e.conversation = w.joined
      PROVE  E!EventInv'
  <2> HIDE DEF x
  <2>1. /\ w.existing # E!None =>
             w.existing \in Conversations /\ v1[w.existing] # E!None
        /\ w.made => /\ w.joined \in Conversations
                     /\ v1[w.joined] = E!None
                     /\ \A n \in Messages \ {m} : v4[n].joined # w.joined
        /\ \A n \in Messages \ {m} : E!Pending(n) => v4[n].joined # w.joined
        /\ w.made /\ w.existing # E!None => v1[w.existing] # "active"
    BY <1>1, <1>2
  <2>2. w.pc \notin {"look", "open", "insert", "find", "done"}
    BY <1>2
  <2> QED
    BY <1>1, <1>2, <2>1, <2>2, MessageStep
<1>3. CASE E!Lock(m) \/ E!Rollback(m)
  <2>1. PICK pc \in {"turn", "failed"} : v4' = [v4 EXCEPT ![m].pc = pc]
    BY <1>3 DEF E!Lock, E!Rollback
  <2> DEFINE w == [x EXCEPT !.pc = pc]
  <2>2. /\ w \in E!Known /\ w.existing = x.existing /\ w.pc = pc
        /\ w.made = x.made /\ w.joined = x.joined
    BY <1>1 DEF E!Known
  <2>3. v4' = [v4 EXCEPT ![m] = w]
    BY <1>1, <2>1 DEF E!Types
  <2> HIDE DEF w
  <2> QED
    BY <1>2, <2>2, <2>3
<1>4. CASE E!Turn(m)
  <2>1. PICK escalates \in BOOLEAN :
          v4' = [v4 EXCEPT ![m].escalates = escalates, ![m].pc = "emit"]
    BY <1>4 DEF E!Turn
  <2> DEFINE w == [x EXCEPT !.escalates = escalates, !.pc = "emit"]
  <2>2. /\ w \in E!Known /\ w.existing = x.existing /\ w.pc = "emit"
        /\ w.made = x.made /\ w.joined = x.joined
    BY <1>1 DEF E!Known
  <2>3. v4' = [v4 EXCEPT ![m] = w]
    BY <1>1, <2>1 DEF E!Types
  <2> HIDE DEF w
  <2> QED
    BY <1>2, <2>2, <2>3
<1>5. CASE E!Emit(m)
  <2> DEFINE w == [x EXCEPT !.pc = "commit"]
  <2>1. /\ w \in E!Known /\ w.existing = x.existing /\ w.pc = "commit"
        /\ w.made = x.made /\ w.joined = x.joined /\ w.escalates = x.escalates
    BY <1>1 DEF E!Known
  <2>2. v4' = [v4 EXCEPT ![m] = w]
    BY <1>1, <1>5 DEF E!Emit, E!Types
  <2>3. ASSUME NEW event \in E!EventNames,
               [event |-> event, conversation |-> x.joined, by |-> m] \in E!Emitted(m)
        PROVE  \E e \in v5' : e.event = event /\ e.conversation = x.joined
    BY <1>5, <2>3 DEF E!Emit
  <2>4. x.existing = E!None =>
          \E e \in v5' : e.event = "started" /\ e.conversation = x.joined
    BY <2>3 DEF E!Emitted, E!Existing, E!EventNames
  <2>5. x.escalates =>
          \E e \in v5' : e.event = "escalated" /\ e.conversation = x.joined
    BY <2>3 DEF E!Emitted, E!Escalated, E!EventNames
  <2> HIDE DEF w
  <2> QED
    BY <1>2, <2>1, <2>2, <2>4, <2>5
<1> QED
  BY <1>3, <1>4, <1>5

(* A commit decides what others see of the conversation it joined: nobody  *)
(* had found it, if it was its own.                                        *)
LEMMA CommitEventsStep ==
  ASSUME E!EventInv, NEW m \in Messages, E!Commit(m)
  PROVE  E!EventInv'
<1> DEFINE x == v4[m]
           c == v4[m].joined
           w == [x EXCEPT !.pc = "done"]
<1>1. /\ E!Types /\ x \in E!Known /\ x.pc = "commit" /\ UNCHANGED v5
      /\ x.made => c \in Conversations
      /\ x.made => /\ v1[c] = E!None
                   /\ \A n \in Messages \ {m} : v4[n].joined # c
  BY DEF E!Commit, E!At, E!EventInv, E!Types, E!PendingIsOwn, E!Pending
<1>2. /\ w \in E!Known /\ w.existing = x.existing /\ w.pc = "done"
      /\ w.made = x.made /\ w.joined = x.joined /\ w.escalates = x.escalates
  BY <1>1 DEF E!Known
<1>3. v4' = [v4 EXCEPT ![m] = w]
  BY <1>1 DEF E!Commit, E!Types
<1> HIDE DEF w
<1>4. /\ v4' \in [Messages -> E!Known] /\ v4'[m] = w
      /\ \A n \in Messages \ {m} : v4'[n] = v4[n]
  BY <1>1, <1>2, <1>3 DEF E!Types
<1>5. /\ v1' \in [Conversations -> E!Statuses]
      /\ \A d \in Conversations : d # c => v1'[d] = v1[d]
      /\ c \in Conversations =>
           v1'[c] = IF x.escalates THEN "escalated"
                    ELSE IF x.made THEN "active" ELSE v1[c]
  BY <1>1 DEF E!Commit, E!Types, E!Statuses
<1>6. \A d \in Conversations :
        /\ v1[d] # E!None => v1'[d] # E!None
        /\ v1'[d] = "active" => v1[d] = "active" \/ (x.made /\ d = c)
  BY <1>5 DEF E!None
<1>7. \A n \in Messages :
        /\ v4'[n].existing = v4[n].existing
        /\ v4'[n].joined = v4[n].joined
        /\ v4'[n].made = v4[n].made
        /\ v4'[n].escalates = v4[n].escalates
        /\ v4'[n].pc = IF n = m THEN "done" ELSE v4[n].pc
  BY <1>1, <1>2, <1>4
<1>8. E!Types'
  BY <1>4, <1>5 DEF E!Types
<1>9. E!FoundHasRow'
  BY <1>6, <1>7 DEF E!EventInv, E!FoundHasRow
<1>10. E!PendingIsOwn'
  <2> SUFFICES ASSUME NEW n \in Messages
               PROVE  /\ v4'[n].pc \in {"look", "open", "insert", "find"}
                           => ~v4'[n].made
                      /\ v4'[n].made => v4'[n].joined \in Conversations
                      /\ E!Pending(n)' =>
                           /\ v1'[v4'[n].joined] = E!None
                           /\ \A o \in Messages \ {n} :
                                v4'[o].joined # v4'[n].joined
    BY DEF E!PendingIsOwn
  <2>1. E!Pending(n)' => E!Pending(n) /\ n # m
    BY <1>7 DEF E!Pending
  <2>2. E!Pending(n)' => v4[n].joined \in Conversations \ {c}
    BY <2>1 DEF E!EventInv, E!PendingIsOwn, E!Pending
  <2> QED
    BY <1>5, <1>7, <2>1, <2>2 DEF E!EventInv, E!PendingIsOwn
<1>11. E!FoundHasEnded'
  <2> SUFFICES ASSUME NEW n \in Messages, v4[n].made,
                      v4[n].existing # E!None
               PROVE  v1'[v4[n].existing] # "active"
    BY <1>7 DEF E!FoundHasEnded
  <2>1. /\ v4[n].existing \in Conversations
        /\ v1[v4[n].existing] \notin {E!None, "active"}
    BY DEF E!EventInv, E!FoundHasRow, E!FoundHasEnded
  <2> QED
    BY <1>1, <1>6, <2>1
<1>12. E!EmittedIsTold'
  BY <1>1, <1>7, ToldStays DEF E!EventInv, E!EmittedIsTold
<1> QED
  BY <1>8, <1>9, <1>10, <1>11, <1>12 DEF E!EventInv

(* Every step keeps the invariant.                                         *)
LEMMA EventsStep ==
  E!EventInv /\ [E!Next]_(E!vars) => E!EventInv'
<1> SUFFICES ASSUME E!EventInv, [E!Next]_(E!vars) PROVE E!EventInv'
  OBVIOUS
<1>1. CASE UNCHANGED E!vars \/ E!Finished
  BY <1>1 DEF E!vars, E!Finished, E!EventInv, E!Types, E!FoundHasRow, E!PendingIsOwn,
              E!Pending, E!FoundHasEnded, E!EmittedIsTold, E!Told
<1>2. ASSUME NEW m \in Messages, E!Step(m) PROVE E!EventInv'
  BY <1>2, JoinStep, TurnStep, CommitEventsStep DEF E!Step
<1>3. ASSUME NEW c \in Conversations, E!End(c) PROVE E!EventInv'
  <2>1. /\ UNCHANGED <<v4, v5>> /\ v1[c] = "active"
        /\ v1' \in [Conversations -> E!Statuses]
        /\ \A d \in Conversations : d # c => v1'[d] = v1[d]
        /\ v1'[c] \notin {E!None, "active"}
    BY <1>3 DEF E!End, E!EventInv, E!Types, E!Statuses, E!None
  <2>2. E!Types' /\ E!FoundHasRow' /\ E!FoundHasEnded' /\ E!EmittedIsTold'
    BY <2>1
       DEF E!EventInv, E!Types, E!FoundHasRow, E!FoundHasEnded, E!EmittedIsTold, E!Told
  <2>3. E!PendingIsOwn'
    BY <2>1 DEF E!EventInv, E!PendingIsOwn, E!Pending, E!None
  <2> QED
    BY <2>2, <2>3 DEF E!EventInv
<1> QED
  BY <1>1, <1>2, <1>3 DEF E!Next

(* The first state, and what the invariant says.                           *)
LEMMA EventsStart ==
  E!Init => E!EventInv
BY DEF E!Init, E!EventInv, E!Types, E!Known, E!Statuses, E!None, E!FoundHasRow,
       E!PendingIsOwn, E!Pending, E!FoundHasEnded, E!EmittedIsTold

(* From the invariant: what is to be told is told.                         *)
LEMMA EventsEnd ==
  E!EventInv => E!StartIsTold /\ E!EscalationIsTold
BY DEF E!EventInv, E!EmittedIsTold, E!FoundHasEnded, E!StartIsTold, E!EscalationIsTold,
       E!At

-----------------------------------------------------------------------------
(* Outbound messages.  A row's stamps are those its statuses imply, and    *)
(* what a receipt loaded is a beginning of what the row says now.          *)

(* What apply_status makes of the row it loaded.                           *)
LEMMA AppliedRow ==
  ASSUME NEW status \in W!Reported, NEW l \in W!Row
  PROVE  LET a == W!Applied(status, l)
         IN /\ a \in W!Row /\ a.status = status /\ a.named <=> l.named
            /\ a.delivered <=> (l.delivered \/ status \in {"delivered", "read"})
            /\ a.read <=> (l.read \/ status = "read")
            /\ a.error <=> (l.error \/ status = "failed")
<1>1. CASE status = "sent"
  <2>1. W!Applied(status, l) = [l EXCEPT !.status = "sent"]
    BY <1>1 DEF W!Applied
  <2> QED
    BY <1>1, <2>1 DEF W!Row
<1>2. CASE status = "delivered"
  <2>1. W!Applied(status, l) = [l EXCEPT !.status = "delivered", !.delivered = TRUE]
    BY <1>2 DEF W!Applied
  <2> QED
    BY <1>2, <2>1 DEF W!Row
<1>3. CASE status = "read"
  <2>1. W!Applied(status, l) =
          [l EXCEPT !.status = "read", !.read = TRUE, !.delivered = TRUE]
    BY <1>3 DEF W!Applied
  <2> QED
    BY <1>3, <2>1 DEF W!Row
<1>4. CASE status = "failed"
  <2>1. W!Applied(status, l) = [l EXCEPT !.status = "failed", !.error = TRUE]
    BY <1>4 DEF W!Applied
  <2> QED
    BY <1>4, <2>1 DEF W!Row
<1> QED
  BY <1>1, <1>2, <1>3, <1>4 DEF W!Reported

(* What the UPDATE leaves, column by column.                               *)
LEMMA FlushedRow ==
  ASSUME NEW now \in W!Row, NEW loaded \in W!Row, NEW new \in W!Row
  PROVE  LET r == W!Flushed(now, loaded, new)
         IN /\ r \in W!Row
            /\ r.status = IF new.status = loaded.status THEN now.status ELSE new.status
            /\ \A f \in W!Stamps :
                 r[f] = IF new[f] = loaded[f] THEN now[f] ELSE new[f]
<1> DEFINE value(f) == IF new[f] = loaded[f] THEN now[f] ELSE new[f]
           r == [status |-> value("status"), named |-> value("named"),
                 delivered |-> value("delivered"), read |-> value("read"),
                 error |-> value("error")]
<1>1. DOMAIN now = {"status"} \cup W!Stamps
  BY DEF W!Row, W!Stamps
<1>2. W!Flushed(now, loaded, new) = [f \in {"status"} \cup W!Stamps |-> value(f)]
  BY <1>1 DEF W!Flushed
<1>3. W!Flushed(now, loaded, new) = r
  BY <1>2 DEF W!Stamps
<1>4. r \in W!Row
  BY DEF W!Row
<1> HIDE DEF r
<1>5. /\ W!Flushed(now, loaded, new).status = value("status")
      /\ \A f \in W!Stamps : W!Flushed(now, loaded, new)[f] = value(f)
  BY <1>2
<1> QED
  BY <1>3, <1>4, <1>5

(* A receipt is applied to a row that others have written since it was     *)
(* loaded: it stays consistent and keeps its stamps.                       *)
LEMMA FlushedStaysConsistent ==
  ASSUME NEW s \in Sends, NEW now \in W!Row, NEW l \in W!Row, NEW status \in W!Reported,
         status \in v7[s], "read" \in v7[s] => "delivered" \in v7[s],
         W!Consistent(now, v7[s]), W!Decided(now), l.named,
         \A f \in W!Stamps : l[f] => now[f]
  PROVE  LET r == W!Flushed(now, l, W!Applied(status, l))
         IN /\ r \in W!Row /\ W!Consistent(r, v7[s]) /\ W!Decided(r)
            /\ \A f \in W!Stamps : now[f] => r[f]
<1> DEFINE a == W!Applied(status, l)
           r == W!Flushed(now, l, a)
<1>1. /\ a \in W!Row /\ a.status = status /\ a.named <=> l.named
      /\ a.delivered <=> (l.delivered \/ status \in {"delivered", "read"})
      /\ a.read <=> (l.read \/ status = "read")
      /\ a.error <=> (l.error \/ status = "failed")
  BY AppliedRow
<1> HIDE DEF a
<1>2. /\ r \in W!Row
      /\ r.status = IF a.status = l.status THEN now.status ELSE a.status
      /\ \A f \in W!Stamps : r[f] = IF a[f] = l[f] THEN now[f] ELSE a[f]
  BY <1>1, FlushedRow
<1> HIDE DEF r
<1>3. ASSUME NEW f \in W!Stamps, NEW came \in BOOLEAN, a[f] <=> (l[f] \/ came)
      PROVE  r[f] <=> (now[f] \/ came)
  <2>1. /\ l[f] \in BOOLEAN /\ now[f] \in BOOLEAN /\ a[f] \in BOOLEAN
        /\ r[f] \in BOOLEAN
    BY <1>1, <1>2 DEF W!Row, W!Stamps
  <2>2. (a[f] = l[f] /\ r[f] = now[f]) \/ (a[f] # l[f] /\ r[f] = a[f])
    BY <1>2
  <2>3. CASE a[f] = l[f] /\ r[f] = now[f]
    BY <1>3, <2>1, <2>3
  <2>4. CASE a[f] # l[f] /\ r[f] = a[f]
    BY <1>3, <2>1, <2>4
  <2> QED
    BY <2>2, <2>3, <2>4
<1>4. /\ now.delivered \in BOOLEAN /\ now.read \in BOOLEAN
      /\ now.error \in BOOLEAN /\ now.named \in BOOLEAN
  BY DEF W!Row
<1>5. /\ r.named <=> now.named
      /\ r.delivered <=> (now.delivered \/ status \in {"delivered", "read"})
      /\ r.read <=> (now.read \/ status = "read")
      /\ r.error <=> (now.error \/ status = "failed")
      /\ r.status \in {now.status, status}
  <2>1. r["named"] <=> now["named"] \/ FALSE
    BY <1>1, <1>3 DEF W!Stamps
  <2>2. r["delivered"] <=> now["delivered"] \/ status \in {"delivered", "read"}
    BY <1>1, <1>3 DEF W!Stamps
  <2>3. r["read"] <=> now["read"] \/ status = "read"
    BY <1>1, <1>3 DEF W!Stamps
  <2>4. r["error"] <=> now["error"] \/ status = "failed"
    BY <1>1, <1>3 DEF W!Stamps
  <2> QED
    BY <1>1, <1>2, <2>1, <2>2, <2>3, <2>4
<1>s. /\ status \in {"sent", "delivered", "read"} => status \in v7[s]
      /\ status \in {"delivered", "read"} => "delivered" \in v7[s]
  OBVIOUS
<1>6. W!Consistent(r, v7[s])
  BY <1>4, <1>5, <1>s DEF W!Consistent, W!Reported
<1>7. now.named
  BY DEF W!Stamps
<1>8. W!Decided(r)
  BY <1>4, <1>5, <1>7 DEF W!Decided, W!Reported
<1>9. \A f \in W!Stamps : now[f] => r[f]
  BY <1>4, <1>5 DEF W!Stamps
<1> QED
  BY <1>2, <1>6, <1>8, <1>9 DEF r, a

(* A send moves on: its record, and what WhatsApp has come to with it.     *)
LEMMA SendMoves ==
  ASSUME W!LogInv, NEW s \in Sends,
         NEW x \in [pc : {"unsent", "call", "commit", "ended"}, row : W!Row],
         v5' = [v5 EXCEPT ![s] = x],
         UNCHANGED <<v6, v8, v3>>,
         v5[s].pc # "ended",
         \/ UNCHANGED v7
         \/ v7' = [v7 EXCEPT ![s] = {"sent"}] /\ x.pc = "commit",
         x.pc \in {"call", "commit"} => v3,
         x.pc \in {"unsent", "call"} => v7[s] = {},
         x.pc = "commit" => W!Consistent(x.row, v7'[s]) /\ W!Decided(x.row)
  PROVE  W!LogInv'
<1>1. /\ W!Types /\ W!Rows /\ W!Ways /\ W!Receipts /\ W!ReadIsDelivered
      /\ v6[s] = W!NoRow
  BY DEF W!LogInv, W!Ways
<1>2. /\ v5'[s] = x /\ \A t \in Sends \ {s} : v5'[t] = v5[t]
      /\ \A t \in Sends \ {s} : v7'[t] = v7[t]
      /\ v7'[s] \in {v7[s], {"sent"}}
  BY <1>1 DEF W!Types
<1>3. W!Types'
  BY <1>1, <1>2 DEF W!Types, W!Reported
<1>4. W!Rows'
  BY <1>1, <1>2 DEF W!Rows, W!Consistent, W!NoRow
<1>5. W!Ways'
  <2>1. ASSUME NEW t \in Sends \ {s}
        PROVE  /\ v6'[t] # W!NoRow => v5'[t].pc = "ended"
               /\ v5'[t].pc = "commit" =>
                    W!Consistent(v5'[t].row, v7'[t]) /\ W!Decided(v5'[t].row)
               /\ v5'[t].pc \in {"call", "commit"} => v3'
               /\ v5'[t].pc \in {"unsent", "call"} => v7'[t] = {}
    BY <1>1, <1>2 DEF W!Ways, W!Consistent
  <2>2. /\ v6'[s] # W!NoRow => v5'[s].pc = "ended"
        /\ v5'[s].pc = "commit" =>
             W!Consistent(v5'[s].row, v7'[s]) /\ W!Decided(v5'[s].row)
        /\ v5'[s].pc \in {"call", "commit"} => v3'
        /\ v5'[s].pc \in {"unsent", "call"} => v7'[s] = {}
    BY <1>1, <1>2 DEF W!Consistent
  <2> QED
    BY <2>1, <2>2 DEF W!Ways
<1>6. W!Receipts'
  <2>1. \A h \in Webhooks : v8[h] # W!Idle => v8[h].of \in Sends \ {s}
    BY <1>1 DEF W!Types, W!Receipts
  <2> QED
    BY <1>1, <1>2, <2>1 DEF W!Receipts
<1>7. W!ReadIsDelivered'
  BY <1>1, <1>2 DEF W!ReadIsDelivered
<1> QED
  BY <1>3, <1>4, <1>5, <1>6, <1>7 DEF W!LogInv

(* The steps of a send up to its end, but for the commit.                  *)
LEMMA SendStep ==
  ASSUME W!LogInv, NEW s \in Sends,
         W!Decide(s) \/ W!SendTemplate(s) \/ W!Accepted(s) \/ W!Rejected(s) \/ W!Crash(s)
  PROVE  W!LogInv'
<1> DEFINE call == [pc |-> "call", row |-> W!Queued]
           ended == [pc |-> "ended", row |-> W!NoRow]
           taken == [pc |-> "commit",
                     row |-> [W!Queued EXCEPT !.status = "sent", !.named = TRUE]]
           refused == [pc |-> "commit", row |-> W!Refusal]
<1>1. /\ W!NoRow \in W!Row /\ W!Queued \in W!Row
      /\ call \in [pc : {"unsent", "call", "commit", "ended"}, row : W!Row]
      /\ ended \in [pc : {"unsent", "call", "commit", "ended"}, row : W!Row]
  BY DEF W!NoRow, W!Queued, W!Row
<1>2. /\ refused \in [pc : {"unsent", "call", "commit", "ended"}, row : W!Row]
      /\ taken \in [pc : {"unsent", "call", "commit", "ended"}, row : W!Row]
  BY DEF W!Queued, W!Refusal, W!Row
<1>3. /\ UNCHANGED <<v6, v8, v3>>
      /\ v5[s].pc \in {"unsent", "call", "commit"}
      /\ v5[s].pc \in {"unsent", "call"} => v7[s] = {}
      /\ v5[s].pc \in {"call", "commit"} => v3
      /\ v7 \in [Sends -> SUBSET W!Reported]
  BY DEF W!Decide, W!SendTemplate, W!Accepted, W!Rejected, W!Crash, W!LogInv, W!Ways,
         W!World, W!Reports, W!Types
<1>4. CASE UNCHANGED v7 /\ v5' = [v5 EXCEPT ![s] = ended]
  BY <1>1, <1>3, <1>4, SendMoves
<1>5. CASE UNCHANGED v7 /\ v5' = [v5 EXCEPT ![s] = call]
           /\ v3 /\ v5[s].pc = "unsent"
  BY <1>1, <1>3, <1>5, SendMoves
<1>6. CASE W!Accepted(s)
  <2>1. /\ v7' = [v7 EXCEPT ![s] = {"sent"}] /\ v5' = [v5 EXCEPT ![s] = taken]
        /\ v3
    BY <1>3, <1>6 DEF W!Accepted
  <2>2. v7'[s] = {"sent"}
    BY <1>3, <2>1
  <2>3. W!Consistent(taken.row, v7'[s]) /\ W!Decided(taken.row)
    BY <2>2 DEF W!Consistent, W!Decided, W!Queued
  <2> HIDE DEF taken
  <2>4. PICK x \in [pc : {"unsent", "call", "commit", "ended"}, row : W!Row] :
          x = taken
    BY <1>2
  <2>5. x.pc = "commit" /\ v5' = [v5 EXCEPT ![s] = x]
    BY <2>1, <2>4 DEF taken
  <2>6. W!Consistent(x.row, v7'[s]) /\ W!Decided(x.row)
    BY <2>2, <2>4 DEF W!Consistent, W!Decided, W!Queued, taken
  <2> QED
    BY <1>3, <2>1, <2>5, <2>6, SendMoves
<1>7. CASE UNCHANGED v7 /\ v5' = [v5 EXCEPT ![s] = refused]
           /\ v5[s].pc = "call"
  <2>1. PICK x \in [pc : {"unsent", "call", "commit", "ended"}, row : W!Row] :
          x = refused
    BY <1>2
  <2>2. x.pc = "commit" /\ v5' = [v5 EXCEPT ![s] = x]
    BY <1>7, <2>1
  <2>3. W!Consistent(x.row, v7'[s]) /\ W!Decided(x.row)
    BY <2>1 DEF W!Consistent, W!Decided, W!Queued, W!Refusal
  <2> QED
    BY <1>3, <1>7, <2>2, <2>3, SendMoves
<1> QED
  BY <1>4, <1>5, <1>6, <1>7 DEF W!Decide, W!SendTemplate, W!Rejected, W!Crash

(* The commit of a send, whose row nobody has loaded.                      *)
LEMMA CommitSendStep ==
  ASSUME W!LogInv, NEW s \in Sends, W!Commit(s)
  PROVE  W!LogInv' /\ v6[s] = W!NoRow
<1> DEFINE ended == [pc |-> "ended", row |-> W!NoRow]
<1>1. /\ W!Types /\ W!Rows /\ W!Ways /\ W!Receipts /\ W!ReadIsDelivered
      /\ v5[s].pc = "commit" /\ v6[s] = W!NoRow
      /\ v6' = [v6 EXCEPT ![s] = v5[s].row]
      /\ v5' = [v5 EXCEPT ![s] = ended]
      /\ UNCHANGED <<v7, v8, v3>>
  BY DEF W!LogInv, W!Ways, W!Commit, W!World, W!Reports
<1>2. /\ v5'[s] = ended /\ \A t \in Sends \ {s} : v5'[t] = v5[t]
      /\ v6'[s] = v5[s].row /\ \A t \in Sends \ {s} : v6'[t] = v6[t]
      /\ ended.pc = "ended"
  BY <1>1 DEF W!Types
<1>3. W!Types'
  <2>1. ended \in [pc : {"unsent", "call", "commit", "ended"}, row : W!Row]
    BY DEF W!NoRow, W!Row
  <2> HIDE DEF ended
  <2> QED
    BY <1>1, <2>1 DEF W!Types
<1> HIDE DEF ended
<1>4. W!Rows'
  BY <1>1, <1>2 DEF W!Rows, W!Ways, W!Consistent
<1>5. W!Ways'
  BY <1>1, <1>2 DEF W!Ways, W!Consistent
<1>6. W!Receipts'
  <2>1. \A h \in Webhooks : v8[h] # W!Idle => v8[h].of \in Sends \ {s}
    BY <1>1 DEF W!Types, W!Receipts
  <2> QED
    BY <1>1, <1>2, <2>1 DEF W!Receipts
<1>7. W!ReadIsDelivered'
  BY <1>1 DEF W!ReadIsDelivered
<1> QED
  BY <1>1, <1>3, <1>4, <1>5, <1>6, <1>7 DEF W!LogInv

(* WhatsApp comes to something with a message it took.                     *)
LEMMA ProgressStep ==
  ASSUME W!LogInv, NEW s \in Sends, W!Progress(s)
  PROVE  W!LogInv'
<1>1. /\ W!Types /\ W!Rows /\ W!Ways /\ W!Receipts /\ W!ReadIsDelivered
      /\ UNCHANGED <<v5, v6, v8, v3>>
      /\ v7[s] # {}
  BY DEF W!LogInv, W!Progress, W!World, W!Reports
<1>2. PICK status \in {"delivered", "read", "failed"} :
        /\ v7' = [v7 EXCEPT ![s] = @ \cup {status}]
        /\ status = "read" => "delivered" \in v7[s]
  BY DEF W!Progress
<1>3. /\ v7' \in [Sends -> SUBSET W!Reported]
      /\ \A t \in Sends : v7[t] \subseteq v7'[t]
      /\ \A t \in Sends \ {s} : v7'[t] = v7[t]
      /\ v7'[s] = v7[s] \cup {status}
  BY <1>1, <1>2 DEF W!Types, W!Reported
<1>4. W!Types'
  BY <1>1, <1>3 DEF W!Types
<1>5. W!Rows'
  BY <1>1, <1>3 DEF W!Rows, W!Consistent
<1>6. W!Ways'
  BY <1>1, <1>3 DEF W!Ways, W!Consistent
<1>7. W!Receipts'
  BY <1>1, <1>3 DEF W!Receipts, W!Types
<1>8. W!ReadIsDelivered'
  BY <1>1, <1>2, <1>3 DEF W!ReadIsDelivered
<1> QED
  BY <1>4, <1>5, <1>6, <1>7, <1>8 DEF W!LogInv

(* A receipt comes in and is applied.                                      *)
LEMMA ReceiptStep ==
  ASSUME W!LogInv, NEW h \in Webhooks, W!Receipt(h)
  PROVE  W!LogInv'
<1>1. /\ W!Types /\ W!Rows /\ W!Ways /\ W!Receipts /\ W!ReadIsDelivered
      /\ UNCHANGED <<v5, v6, v7, v3>>
  BY DEF W!LogInv, W!Receipt, W!World
<1>2. PICK s \in Sends, status \in W!Reported :
        /\ status \in v7[s]
        /\ v8' = IF v6[s].named
             THEN [v8 EXCEPT ![h] =
               [pc |-> "apply", of |-> s, status |-> status, loaded |-> v6[s]]]
             ELSE v8
  BY <1>1 DEF W!Receipt, W!Types
<1> DEFINE w == [pc |-> "apply", of |-> s, status |-> status, loaded |-> v6[s]]
<1>3. CASE v6[s].named
  <2>1. status \in W!Reported /\ v6[s] \in W!Row
    BY <1>1 DEF W!Types
  <2>2. v6[s] # W!NoRow /\ v5[s].pc = "ended"
    BY <1>1, <1>3 DEF W!Ways, W!NoRow
  <2>3. W!Types'
    BY <1>1, <1>2, <1>3, <2>1 DEF W!Types
  <2>4. v8'[h] = w /\ \A g \in Webhooks \ {h} : v8'[g] = v8[g]
    BY <1>1, <1>2, <1>3 DEF W!Types
  <2>5. /\ w.status \in v7[w.of] /\ w.loaded.named /\ v5[w.of].pc = "ended"
        /\ w.loaded = v6[w.of]
    BY <1>2, <1>3, <2>2
  <2> HIDE DEF w
  <2>6. W!Receipts'
    <3>1. ASSUME NEW g \in Webhooks \ {h}, v8[g] # W!Idle
          PROVE  LET v == v8[g]
                 IN /\ v.status \in v7'[v.of]
                    /\ v.loaded.named /\ v5'[v.of].pc = "ended"
                    /\ v6'[v.of] # W!NoRow =>
                         \A f \in W!Stamps : v.loaded[f] => v6'[v.of][f]
      BY <1>1, <3>1 DEF W!Receipts
    <3>2. /\ w.status \in v7'[w.of]
          /\ w.loaded.named /\ v5'[w.of].pc = "ended"
          /\ v6'[w.of] # W!NoRow => \A f \in W!Stamps : w.loaded[f] => v6'[w.of][f]
      BY <1>1, <2>5
    <3> QED
      BY <2>4, <3>1, <3>2 DEF W!Receipts
  <2> QED
    BY <1>1, <2>3, <2>6 DEF W!LogInv, W!Rows, W!Ways, W!ReadIsDelivered, W!Consistent
<1>4. CASE ~v6[s].named
  BY <1>1, <1>2, <1>4
     DEF W!LogInv, W!Types, W!Rows, W!Ways, W!Receipts, W!ReadIsDelivered, W!Consistent
<1> QED
  BY <1>3, <1>4

(* A receipt moves the row it loaded, under its lock.                      *)
LEMMA ApplyStep ==
  ASSUME W!LogInv, NEW h \in Webhooks, W!Apply(h)
  PROVE  /\ W!LogInv'
         /\ \A s \in Sends : v6[s] # W!NoRow =>
              \A f \in W!Stamps : v6[s][f] => v6'[s][f]
<1> DEFINE w == v8[h]
           s == v8[h].of
           new == W!Flushed(v6[s], w.loaded, W!Applied(w.status, w.loaded))
<1>1. /\ W!Types /\ W!Rows /\ W!Ways /\ W!Receipts /\ W!ReadIsDelivered
      /\ UNCHANGED <<v5, v7, v3>>
      /\ v8' = [v8 EXCEPT ![h] = W!Idle]
  BY DEF W!LogInv, W!Apply, W!World
<1>2. /\ w # W!Idle /\ s \in Sends /\ w.status \in W!Reported /\ w.loaded \in W!Row
      /\ v6[s] \in W!Row /\ w.status \in v7[s] /\ w.loaded.named
      /\ v5[s].pc = "ended"
      /\ v6[s] # W!NoRow => \A f \in W!Stamps : w.loaded[f] => v6[s][f]
  BY <1>1 DEF W!Apply, W!Types, W!Idle, W!Receipts
<1>3. v6' = IF v6[s] = W!NoRow THEN v6 ELSE [v6 EXCEPT ![s] = new]
  BY DEF W!Apply
<1>4. v8' \in [Webhooks -> {W!Idle} \cup
       [pc : {"apply"}, of : Sends, status : W!Reported, loaded : W!Row]]
      /\ \A g \in Webhooks : v8'[g] # W!Idle => v8'[g] = v8[g]
  BY <1>1 DEF W!Types
<1>5. CASE v6[s] = W!NoRow
  BY <1>1, <1>3, <1>4, <1>5
     DEF W!LogInv, W!Types, W!Rows, W!Ways, W!Receipts, W!ReadIsDelivered, W!Consistent
<1>6. CASE v6[s] # W!NoRow
  <2>1. W!Consistent(v6[s], v7[s]) /\ W!Decided(v6[s])
    BY <1>1, <1>2, <1>6 DEF W!Rows
  <2>2. /\ new \in W!Row /\ W!Consistent(new, v7[s]) /\ W!Decided(new)
        /\ \A f \in W!Stamps : v6[s][f] => new[f]
    BY <1>1, <1>2, <1>6, <2>1, FlushedStaysConsistent DEF W!ReadIsDelivered
  <2> HIDE DEF new
  <2>3. /\ v6' \in [Sends -> W!Row]
        /\ v6'[s] = new /\ \A t \in Sends : t # s => v6'[t] = v6[t]
    <3>1. v6 \in [Sends -> W!Row] /\ v6' = [v6 EXCEPT ![s] = new]
      BY <1>1, <1>3, <1>6 DEF W!Types
    <3> HIDE DEF s, w
    <3> QED
      BY <1>2, <2>2, <3>1
  <2>4. \A t \in Sends : v6'[t] # W!NoRow => v6[t] # W!NoRow
    BY <1>6, <2>3
  <2>5. \A t \in Sends : v6[t] # W!NoRow =>
          \A f \in W!Stamps : v6[t][f] => v6'[t][f]
    BY <2>2, <2>3
  <2> HIDE DEF s, w
  <2>6. W!Types'
    BY <1>1, <1>4, <2>3 DEF W!Types
  <2>7. W!Rows'
    <3>1. W!Consistent(v6'[s], v7'[s]) /\ W!Decided(v6'[s])
      BY <1>1, <2>2, <2>3 DEF W!Consistent
    <3>2. ASSUME NEW t \in Sends, t # s
          PROVE  W!Consistent(v6'[t], v7'[t]) /\ (v6'[t] # W!NoRow => W!Decided(v6'[t]))
      BY <1>1, <2>3, <3>2 DEF W!Rows, W!Consistent
    <3> QED
      BY <3>1, <3>2 DEF W!Rows
  <2>8. W!Ways'
    BY <1>1, <2>4 DEF W!Ways, W!Consistent
  <2>9. W!Receipts'
    <3> SUFFICES ASSUME NEW g \in Webhooks, v8'[g] # W!Idle
                 PROVE  LET v == v8'[g]
                        IN /\ v.status \in v7'[v.of]
                           /\ v.loaded.named /\ v5'[v.of].pc = "ended"
                           /\ v6'[v.of] # W!NoRow =>
                                \A f \in W!Stamps : v.loaded[f] => v6'[v.of][f]
      BY DEF W!Receipts
    <3>1. v8'[g] = v8[g] /\ v8[g].of \in Sends
      BY <1>1, <1>4 DEF W!Types
    <3> QED
      BY <1>1, <2>4, <2>5, <3>1 DEF W!Receipts
  <2> QED
    BY <1>1, <2>5, <2>6, <2>7, <2>8, <2>9 DEF W!LogInv, W!ReadIsDelivered
<1> QED
  BY <1>5, <1>6

(* The connection and its log are deleted.                                 *)
LEMMA DisconnectStep ==
  ASSUME W!LogInv, W!Disconnect
  PROVE  W!LogInv'
<1>1. /\ W!Types /\ W!Rows /\ W!Ways /\ W!Receipts /\ W!ReadIsDelivered
      /\ UNCHANGED <<v5, v7, v8>>
      /\ v6' = [s \in Sends |-> W!NoRow]
      /\ \A s \in Sends : v5[s].pc \notin {"call", "commit"}
  BY DEF W!LogInv, W!Disconnect, W!Reports
<1>2. W!NoRow \in W!Row
  BY DEF W!NoRow, W!Row
<1>3. \A s \in Sends : v6'[s] = W!NoRow
  BY <1>1
<1>4. W!Types'
  BY <1>1, <1>2 DEF W!Types
<1>5. W!Rows'
  BY <1>3 DEF W!Rows, W!Consistent, W!NoRow
<1>6. W!Ways'
  BY <1>1, <1>3 DEF W!Ways, W!Consistent
<1>7. W!Receipts'
  BY <1>1, <1>3 DEF W!Receipts, W!Types
<1> QED
  BY <1>1, <1>4, <1>5, <1>6, <1>7 DEF W!LogInv, W!ReadIsDelivered

(* Every step keeps the invariant and the stamps.                          *)
LEMMA LogStep ==
  W!LogInv /\ [W!Next]_(W!vars) => W!LogInv' /\ W!StampsStayStep
<1> SUFFICES ASSUME W!LogInv, [W!Next]_(W!vars) PROVE W!LogInv' /\ W!StampsStayStep
  OBVIOUS
<1>1. ASSUME UNCHANGED <<v5, v6, v7, v8, v3>>
      PROVE  W!LogInv' /\ W!StampsStayStep
  BY <1>1
     DEF W!LogInv, W!Types, W!Rows, W!Ways, W!Receipts, W!ReadIsDelivered, W!Consistent,
         W!StampsStayStep
<1>2. CASE UNCHANGED W!vars \/ W!Finished \/ W!MoveWindow
  BY <1>1, <1>2 DEF W!vars, W!Finished, W!MoveWindow, W!Reports
<1>3. CASE W!Disconnect
  BY <1>3, DisconnectStep DEF W!Disconnect, W!StampsStayStep
<1>4. ASSUME NEW s \in Sends,
             \/ W!Decide(s) \/ W!SendTemplate(s) \/ W!Accepted(s) \/ W!Rejected(s)
             \/ W!Crash(s) \/ W!Progress(s)
      PROVE  W!LogInv' /\ W!StampsStayStep
  <2>1. UNCHANGED v6
    BY <1>4 DEF W!Decide, W!SendTemplate, W!Accepted, W!Rejected, W!Crash, W!Progress
  <2> QED
    BY <1>4, <2>1, SendStep, ProgressStep DEF W!StampsStayStep
<1>5. ASSUME NEW s \in Sends, W!Commit(s)
      PROVE  W!LogInv' /\ W!StampsStayStep
  <2>1. W!LogInv' /\ v6[s] = W!NoRow
    BY <1>5, CommitSendStep
  <2>2. \A t \in Sends : v6[t] # W!NoRow => v6'[t] = v6[t]
    BY <1>5, <2>1 DEF W!Commit, W!LogInv, W!Types
  <2> QED
    BY <2>1, <2>2 DEF W!StampsStayStep
<1>6. ASSUME NEW h \in Webhooks, W!Receipt(h) \/ W!Apply(h)
      PROVE  W!LogInv' /\ W!StampsStayStep
  <2>1. CASE W!Receipt(h)
    BY <2>1, ReceiptStep DEF W!Receipt, W!StampsStayStep
  <2>2. CASE W!Apply(h)
    BY <2>2, ApplyStep DEF W!StampsStayStep, W!Stamps
  <2> QED
    BY <1>6, <2>1, <2>2
<1> QED
  BY <1>2, <1>3, <1>4, <1>5, <1>6 DEF W!Next

(* A message begins without a row.                                         *)
LEMMA LogStart ==
  W!Init => W!LogInv
<1> SUFFICES ASSUME W!Init PROVE W!LogInv
  OBVIOUS
<1>1. W!NoRow \in W!Row
  BY DEF W!NoRow, W!Row
<1>2. W!Types
  BY <1>1 DEF W!Init, W!Types
<1> QED
  BY <1>2
     DEF W!Init, W!LogInv, W!Rows, W!Ways, W!Receipts, W!ReadIsDelivered, W!Consistent,
         W!NoRow

(* From the invariant: the log is consistent.                              *)
LEMMA LogEnd ==
  W!LogInv => W!LogIsConsistent /\ W!NothingStaysQueued
BY DEF W!LogInv, W!Rows, W!Consistent, W!Decided, W!LogIsConsistent,
       W!NothingStaysQueued

-----------------------------------------------------------------------------
(* Deliveries.  A message is claimed by one delivery at a time, and each   *)
(* answer and turn is accounted for by the ledger, the delivery that holds *)
(* it, or a roll-back.                                                     *)

(* Its own way of counting is the one of the library.                      *)
LEMMA DeliveriesCount ==
  \A S : /\ V!IsFiniteSet(S) <=> IsFiniteSet(S)
         /\ V!Cardinality(S) = Cardinality(S)
BY DEF V!IsFiniteSet, IsFiniteSet, V!Cardinality, Cardinality


(* A request that holds nothing.                                           *)
LEMMA OverIsOrderly ==
  ASSUME NEW how
  PROVE  /\ how \notin {"answer", "lock", "turn", "reply"} => V!Orderly(V!Over(how))
         /\ V!ClaimedBy(V!Over(how)) = {} /\ \A m : ~V!Replied(V!Over(how), m)
<1> DEFINE w == V!Over(how)
<1>1. /\ DOMAIN w = {"pc", "claims", "receipts", "mine", "wrote", "turned", "rows", "locks"}
      /\ w.pc = how /\ w.mine = <<>> /\ w.wrote = <<>> /\ w.turned = {}
  BY DEF V!Over
<1>2. DOMAIN w.mine = {} /\ Len(w.mine) = 0 /\ DOMAIN w.wrote = {}
  BY <1>1
<1>3. IsFiniteSet(DOMAIN w.wrote) /\ V!DoneBy(w) = 0
  BY <1>2, FS_EmptySet, DeliveriesCount DEF V!DoneBy
<1>4. w.mine \in Seq({w.mine[i] : i \in DOMAIN w.mine})
  BY <1>1
<1> HIDE DEF w
<1>5. how \notin {"answer", "lock", "turn", "reply"} => V!Orderly(w)
  BY <1>1, <1>2, <1>3, <1>4, DeliveriesCount DEF V!Orderly
<1>6. V!ClaimedBy(w) = {} /\ \A m : ~V!Replied(w, m)
  BY <1>2 DEF V!ClaimedBy, V!Replied
<1> QED
  BY <1>5, <1>6 DEF w

(* One that goes on and has claimed and answered the same is orderly too.  *)
LEMMA OrderStays ==
  ASSUME NEW v, V!Orderly(v), NEW w, DOMAIN w = DOMAIN v, w.mine = v.mine,
         w.wrote = v.wrote, w.turned = v.turned,
         w.pc \notin {"idle", "answered", "refused", "error", "reply"},
         w.pc \in {"answer", "lock", "turn"} => V!DoneBy(v) < Len(v.mine)
  PROVE  V!Orderly(w)
BY DEF V!Orderly, V!DoneBy

(* What a request answered it had claimed.                                 *)
LEMMA AnsweredIsClaimed ==
  ASSUME NEW w, V!Orderly(w)
  PROVE  DOMAIN w.wrote \subseteq V!ClaimedBy(w) /\ \A m : V!Replied(w, m) => m \in V!ClaimedBy(w)
<1>1. /\ Len(w.mine) \in Nat /\ V!DoneBy(w) \in 0..Len(w.mine)
      /\ DOMAIN w.mine = 1..Len(w.mine)
  BY DEF V!Orderly
<1>2. \A i \in 1..V!DoneBy(w) : i \in DOMAIN w.mine
  BY <1>1
<1>3. DOMAIN w.wrote = {w.mine[i].id : i \in 1..V!DoneBy(w)}
  BY DEF V!Orderly
<1> QED
  BY <1>2, <1>3 DEF V!Replied, V!ClaimedBy

(* A statement of one request that leaves what is committed.               *)
LEMMA HookStep ==
  ASSUME V!DeliveryInv, NEW h \in Requests, NEW w, V!Orderly(w),
         v6' = [v6 EXCEPT ![h] = w], UNCHANGED <<v2, v3, v4, v5>>,
         \A m \in V!ClaimedBy(w) :
           \/ m \in V!ClaimedBy(v6[h])
           \/ /\ m \in Wamids => v2[m] = "none"
              /\ \A g \in Requests \ {h} : m \notin V!ClaimedBy(v6[g]),
         \A m \in Wamids : V!Replied(v6[h], m) => V!Replied(w, m)
  PROVE  V!DeliveryInv'
<1>1. /\ DOMAIN v6' = Requests /\ v6'[h] = w
      /\ \A g \in Requests \ {h} : v6'[g] = v6[g]
  BY DEF V!DeliveryInv
<1>2. \A g \in Requests : V!Orderly(v6'[g])
  BY <1>1 DEF V!DeliveryInv
<1>3. V!Ledgers'
  BY DEF V!DeliveryInv, V!Ledgers
<1>4. \A m \in Wamids : (\A g \in Requests : ~V!Replied(v6'[g], m)) =>
                        \A g \in Requests : ~V!Replied(v6[g], m)
  BY <1>1
<1>5. V!Accounted'
  BY <1>4 DEF V!DeliveryInv, V!Accounted
<1>6. V!ClaimsAreApart'
  BY <1>1 DEF V!DeliveryInv, V!ClaimsAreApart
<1> QED
  BY <1>1, <1>2, <1>3, <1>5, <1>6 DEF V!DeliveryInv

(* One that leaves also what it claimed and what it answered.              *)
LEMMA HookQuietStep ==
  ASSUME V!DeliveryInv, NEW h \in Requests, NEW w,
         v6' = [v6 EXCEPT ![h] = w], UNCHANGED <<v2, v3, v4, v5>>,
         DOMAIN w = DOMAIN v6[h], w.mine = v6[h].mine, w.wrote = v6[h].wrote,
         w.turned = v6[h].turned,
         w.pc \notin {"idle", "answered", "refused", "error", "reply"},
         v6[h].pc # "reply",
         w.pc \in {"answer", "lock", "turn"} => V!DoneBy(v6[h]) < Len(v6[h].mine)
  PROVE  V!DeliveryInv'
<1>1. V!Orderly(v6[h])
  BY DEF V!DeliveryInv
<1>2. V!Orderly(w)
  BY <1>1, OrderStays
<1>3. V!ClaimedBy(w) = V!ClaimedBy(v6[h])
  BY DEF V!ClaimedBy
<1>4. \A m \in Wamids : V!Replied(v6[h], m) => V!Replied(w, m)
  BY DEF V!Replied
<1> QED
  BY <1>2, <1>3, <1>4, HookStep

(* A delivery that comes in has claimed nothing.                           *)
LEMMA PostStep == ASSUME V!DeliveryInv, NEW h \in Requests, V!Post(h) PROVE V!DeliveryInv'
<1>1. v6[h].pc \in {"idle", "answered", "refused", "error"}
  BY DEF V!Post
<1>2. V!Orderly(v6[h])
  BY DEF V!DeliveryInv
<1>3. \A m : ~V!Replied(v6[h], m)
  <2>1. v6[h].mine = <<>>
    BY <1>1, <1>2 DEF V!Orderly
  <2>2. Len(v6[h].mine) = 0 /\ V!DoneBy(v6[h]) = 0
    BY <1>2, <2>1 DEF V!Orderly
  <2>3. DOMAIN v6[h].wrote = {}
    BY <1>2, <2>2 DEF V!Orderly
  <2> QED
    BY <2>3 DEF V!Replied
<1>4. PICK body \in Bodies :
        v6' = [v6 EXCEPT ![h] =
          IF ~V!Connected \/ V!Refused(body) THEN V!Over("refused")
          ELSE IF ~body.readable THEN V!Over("answered")
          ELSE [V!Over("receive") EXCEPT !.claims = V!Parsed(body.messages),
                                         !.receipts = body.statuses]]
  BY DEF V!Post
<1> DEFINE w == [V!Over("receive") EXCEPT !.claims = V!Parsed(body.messages),
                                          !.receipts = body.statuses]
<1>5. V!Orderly(w) /\ V!ClaimedBy(w) = {}
  <2> DEFINE o == V!Over("receive")
  <2>1. /\ DOMAIN w = DOMAIN o /\ w.pc = "receive" /\ o.pc = "receive"
        /\ w.mine = o.mine /\ w.wrote = o.wrote /\ w.turned = o.turned
    BY DEF V!Over
  <2>2. V!Orderly(o) /\ V!ClaimedBy(o) = {}
    BY OverIsOrderly
  <2> HIDE DEF w, o
  <2>3. V!DoneBy(w) = V!DoneBy(o) /\ V!ClaimedBy(w) = V!ClaimedBy(o)
    BY <2>1 DEF V!DoneBy, V!ClaimedBy
  <2>4. V!Orderly(w)
    BY <2>1, <2>2, <2>3 DEF V!Orderly
  <2> QED
    BY <2>2, <2>3, <2>4
<1>6. UNCHANGED <<v2, v3, v4, v5>>
  BY DEF V!Post, V!ledger
<1> HIDE DEF w
<1>7. \E how \in {"refused", "answered"} : v6' = [v6 EXCEPT ![h] = V!Over(how)]
      \/ v6' = [v6 EXCEPT ![h] = w]
  BY <1>4 DEF w
<1>8. ASSUME NEW how \in {"refused", "answered"}, v6' = [v6 EXCEPT ![h] = V!Over(how)]
      PROVE  V!DeliveryInv'
  <2>1. V!Orderly(V!Over(how)) /\ V!ClaimedBy(V!Over(how)) = {}
    BY OverIsOrderly
  <2> QED
    BY <1>3, <1>6, <1>8, <2>1, HookStep
<1>9. ASSUME v6' = [v6 EXCEPT ![h] = w] PROVE V!DeliveryInv'
  BY <1>3, <1>5, <1>6, <1>9, HookStep
<1> QED
  BY <1>7, <1>8, <1>9

(* A message is claimed when nobody else has.                              *)
LEMMA RecordStep ==
  ASSUME V!DeliveryInv, NEW h \in Requests, V!RecordInbound(h)
  PROVE  V!DeliveryInv'
<1> DEFINE m == Head(v6[h].claims)
           mine == v6[h].mine
           w == [v6[h] EXCEPT !.claims = Tail(@),
                              !.mine = IF V!Claimed(h, m.id) THEN @ ELSE Append(@, m)]
<1>1. V!Orderly(v6[h]) /\ DOMAIN v6 = Requests
  BY DEF V!DeliveryInv
<1>2. /\ v6[h].pc = "receive" /\ UNCHANGED <<v2, v3, v4, v5>>
      /\ \A g \in Requests \ {h} : m.id \notin V!ClaimedBy(v6[g])
      /\ v6' = [v6 EXCEPT ![h] = w]
  BY <1>1 DEF V!RecordInbound, V!At, V!ledger, V!Claims, V!ClaimedBy
<1>3. /\ DOMAIN w = DOMAIN v6[h] /\ w.pc = "receive" /\ w.wrote = v6[h].wrote
      /\ w.turned = v6[h].turned
      /\ w.mine = IF V!Claimed(h, m.id) THEN mine ELSE Append(mine, m)
  BY <1>1, <1>2 DEF V!Orderly
<1> HIDE DEF w
<1>4. CASE V!Claimed(h, m.id)
  BY <1>1, <1>2, <1>3, <1>4, HookQuietStep
<1>5. CASE ~V!Claimed(h, m.id)
  <2>1. m.id \notin V!ClaimedBy(v6[h]) /\ (m.id \in Wamids => v2[m.id] = "none")
    BY <1>5 DEF V!Claimed, V!Claims, V!ClaimedBy
  <2> DEFINE S == {mine[i] : i \in DOMAIN mine}
             new == Append(mine, m)
             n == Len(mine)
  <2>2. mine \in Seq(S)
    BY <1>1 DEF V!Orderly
  <2> HIDE DEF S
  <2>3. n \in Nat /\ DOMAIN mine = 1..n
    BY <2>2
  <2>4. mine \in Seq(S \cup {m})
    BY <2>2
  <2>5. /\ new \in Seq(S \cup {m}) /\ Len(new) = n + 1 /\ new[n + 1] = m
        /\ \A i \in 1..n : new[i] = mine[i]
    BY <2>3, <2>4
  <2>6. DOMAIN new = 1..(n + 1)
    BY <2>3, <2>5
  <2> HIDE DEF new
  <2>7. {new[i] : i \in DOMAIN new} = S \cup {m}
    BY <2>3, <2>5, <2>6 DEF S
  <2>8. \A i \in DOMAIN new : i \in 1..n \/ i = n + 1
    BY <2>3, <2>6
  <2>9. \A i, j \in DOMAIN new : new[i].id = new[j].id => i = j
    <3>1. \A i \in 1..n : mine[i].id # m.id
      BY <2>1, <2>3 DEF V!ClaimedBy
    <3> QED
      BY <1>1, <2>3, <2>5, <2>8, <3>1 DEF V!Orderly
  <2>10. w.mine = new
    BY <1>3, <1>5 DEF new
  <2>11. /\ V!DoneBy(w) = V!DoneBy(v6[h]) /\ V!DoneBy(w) \in 0..n
         /\ V!DoneBy(w) \in 0..Len(w.mine)
         /\ \A i \in 1..V!DoneBy(w) : w.mine[i] = mine[i]
    BY <1>1, <1>3, <2>3, <2>5, <2>10 DEF V!Orderly, V!DoneBy
  <2>12. V!Orderly(w)
    <3>1. w.mine \in Seq({w.mine[i] : i \in DOMAIN w.mine})
      BY <2>5, <2>7, <2>10
    <3>2. {w.mine[i].id : i \in 1..V!DoneBy(w)} = {mine[i].id : i \in 1..V!DoneBy(v6[h])}
      BY <2>11
    <3>3. DOMAIN w.wrote = {w.mine[i].id : i \in 1..V!DoneBy(w)}
      BY <1>1, <1>3, <3>2 DEF V!Orderly
    <3>4. \A i, j \in DOMAIN w.mine : w.mine[i].id = w.mine[j].id => i = j
      BY <2>9, <2>10
    <3> QED
      BY <1>1, <1>3, <2>11, <3>1, <3>3, <3>4 DEF V!Orderly
  <2>13. \A x \in V!ClaimedBy(w) : x \in V!ClaimedBy(v6[h]) \/ x = m.id
    BY <2>3, <2>5, <2>8, <2>10 DEF V!ClaimedBy
  <2>14. \A x \in Wamids : V!Replied(v6[h], x) => V!Replied(w, x)
    BY <1>3 DEF V!Replied
  <2> QED
    BY <1>2, <2>1, <2>12, <2>13, <2>14, HookStep
<1> QED
  BY <1>4, <1>5

(* Receipts touch no claim.                                                *)
LEMMA ApplyStatusStep ==
  ASSUME V!DeliveryInv, NEW h \in Requests, V!ApplyStatus(h)
  PROVE  V!DeliveryInv'
<1> DEFINE of == Head(v6[h].receipts)
           w == [v6[h] EXCEPT !.receipts = Tail(@), !.rows = @ \cup {of}]
<1>1. V!Orderly(v6[h]) /\ DOMAIN v6 = Requests
  BY DEF V!DeliveryInv
<1>2. /\ v6[h].pc = "receive" /\ UNCHANGED <<v2, v3, v4, v5>>
      /\ v6' = [v6 EXCEPT ![h] = w]
  BY <1>1 DEF V!ApplyStatus, V!At, V!ledger
<1>3. /\ DOMAIN w = DOMAIN v6[h] /\ w.pc = "receive" /\ w.wrote = v6[h].wrote
      /\ w.turned = v6[h].turned /\ w.mine = v6[h].mine
  BY <1>1, <1>2 DEF V!Orderly
<1> HIDE DEF w
<1> QED
  BY <1>2, <1>3, HookQuietStep

(* When all is claimed the first message is answered.                      *)
LEMMA DispatchStep ==
  ASSUME V!DeliveryInv, NEW h \in Requests, V!Dispatch(h)
  PROVE  V!DeliveryInv'
<1> DEFINE w == [v6[h] EXCEPT !.pc = IF V!AllAnswered(h) THEN "commit" ELSE "answer"]
<1>1. V!Orderly(v6[h]) /\ DOMAIN v6 = Requests
  BY DEF V!DeliveryInv
<1>2. /\ v6[h].pc = "receive" /\ UNCHANGED <<v2, v3, v4, v5>>
      /\ v6' = [v6 EXCEPT ![h] = w]
  BY <1>1 DEF V!Dispatch, V!At, V!ledger
<1>3. /\ DOMAIN w = DOMAIN v6[h] /\ w.wrote = v6[h].wrote
      /\ w.turned = v6[h].turned /\ w.mine = v6[h].mine
      /\ w.pc = IF V!AllAnswered(h) THEN "commit" ELSE "answer"
  BY <1>1, <1>2 DEF V!Orderly
<1>4. ~V!AllAnswered(h) => V!DoneBy(v6[h]) < Len(v6[h].mine)
  <2>1. Len(v6[h].mine) \in Nat /\ V!DoneBy(v6[h]) \in 0..Len(v6[h].mine)
    BY <1>1 DEF V!Orderly
  <2> QED
    BY <2>1 DEF V!AllAnswered, V!DoneBy
<1> HIDE DEF w
<1> QED
  BY <1>2, <1>3, <1>4, HookQuietStep

(* What settling a message makes of the request.                           *)
LEMMA SettledIs ==
  ASSUME NEW h \in Requests, V!Orderly(v6[h]), NEW status, NEW replying \in BOOLEAN,
         NEW w, w = V!Settle(h, status, replying)
  PROVE  /\ DOMAIN w = DOMAIN v6[h] /\ w.mine = v6[h].mine /\ w.turned = v6[h].turned
         /\ w.wrote = V!Marked(v6[h], V!Current(h), status)
         /\ \/ w.pc \in {"reply", "commit"}
            \/ w.pc = "answer" /\ V!DoneBy(w) # Len(w.mine)
<1> DEFINE more == [v6[h] EXCEPT !.wrote = V!Marked(v6[h], V!Current(h), status)]
<1>1. /\ DOMAIN more = DOMAIN v6[h] /\ more.mine = v6[h].mine
      /\ more.turned = v6[h].turned
      /\ more.wrote = V!Marked(v6[h], V!Current(h), status)
  BY DEF V!Orderly
<1>2. w = [more EXCEPT !.pc = IF replying THEN "reply" ELSE V!After(h, more)]
  BY DEF V!Settle
<1> HIDE DEF more
<1>3. \/ V!After(h, more) = "commit"
      \/ V!After(h, more) = "answer" /\ V!DoneBy(more) # Len(more.mine)
  BY <1>1 DEF V!After, V!DoneBy
<1>4. /\ DOMAIN w = DOMAIN more /\ w.mine = more.mine /\ w.turned = more.turned
      /\ w.wrote = more.wrote /\ w.pc = IF replying THEN "reply" ELSE V!After(h, more)
  BY <1>1, <1>2 DEF V!Orderly
<1> QED
  BY <1>1, <1>3, <1>4 DEF V!DoneBy

(* A message that ends with a status.                                      *)
LEMMA SettleMessageStep ==
  ASSUME V!DeliveryInv, NEW h \in Requests, v6[h].pc \in {"answer", "turn"},
         NEW status \in V!Settled, NEW replying \in BOOLEAN,
         NEW s, s = V!Settle(h, status, replying),
         NEW w, DOMAIN w = DOMAIN s, w.pc = s.pc, w.mine = s.mine, w.wrote = s.wrote,
         w.turned \subseteq s.turned \cup {V!Current(h).id},
         v6' = [v6 EXCEPT ![h] = w], UNCHANGED <<v2, v3, v4, v5>>
  PROVE  V!DeliveryInv'
<1>0. /\ DOMAIN w = DOMAIN v6[h] /\ w.mine = v6[h].mine
      /\ w.turned \subseteq v6[h].turned \cup {V!Current(h).id}
      /\ w.wrote = V!Marked(v6[h], V!Current(h), status)
      /\ \/ w.pc \in {"reply", "commit"}
         \/ w.pc = "answer" /\ V!DoneBy(w) # Len(w.mine)
  <2>1. V!Orderly(v6[h])
    BY DEF V!DeliveryInv
  <2>2. /\ DOMAIN s = DOMAIN v6[h] /\ s.mine = v6[h].mine /\ s.turned = v6[h].turned
        /\ s.wrote = V!Marked(v6[h], V!Current(h), status)
        /\ \/ s.pc \in {"reply", "commit"}
           \/ s.pc = "answer" /\ V!DoneBy(s) # Len(s.mine)
    BY <2>1, SettledIs
  <2> QED
    BY <2>2 DEF V!DoneBy
<1> DEFINE mine == v6[h].mine
           n == V!DoneBy(v6[h])
           old == DOMAIN v6[h].wrote
           new == DOMAIN w.wrote
<1>1. V!Orderly(v6[h])
  BY DEF V!DeliveryInv
<1>2. /\ Len(mine) \in Nat /\ n \in 0..Len(mine) /\ n < Len(mine)
      /\ DOMAIN mine = 1..Len(mine)
  BY <1>1 DEF V!Orderly
<1>3. V!Current(h) = mine[n + 1] /\ n + 1 \in DOMAIN mine
  BY <1>2 DEF V!Current, V!DoneBy
<1>4. old = {mine[i].id : i \in 1..n} /\ IsFiniteSet(old) /\ Cardinality(old) = n
  BY <1>1, DeliveriesCount DEF V!Orderly, V!DoneBy
<1>5. \A i, j \in DOMAIN mine : mine[i].id = mine[j].id => i = j
  BY <1>1 DEF V!Orderly
<1>6. /\ new = old \cup {V!Current(h).id}
      /\ \A m \in new : w.wrote[m] = IF m = V!Current(h).id THEN status ELSE v6[h].wrote[m]
  BY <1>0 DEF V!Marked
<1>7. /\ \A m \in old : v6[h].wrote[m] \in V!Settled
      /\ v6[h].turned \subseteq old
  BY <1>1 DEF V!Orderly
<1>8. w.mine = mine /\ V!DoneBy(w) = Cardinality(new)
  BY <1>0, DeliveriesCount DEF V!DoneBy
<1> HIDE DEF mine, n, old, new
<1>9. V!Current(h).id \notin old
  <2>1. \A i \in 1..n : i \in DOMAIN mine /\ i # n + 1
    BY <1>2
  <2> QED
    BY <1>3, <1>4, <1>5, <2>1
<1>10. IsFiniteSet(new) /\ Cardinality(new) = n + 1
  <2> DEFINE m == V!Current(h).id
  <2>1. new = old \cup {m} /\ m \notin old
    BY <1>6, <1>9
  <2> HIDE DEF m
  <2>2. IsFiniteSet(old \cup {m}) /\ Cardinality(old \cup {m}) = Cardinality(old) + 1
    BY <1>4, <2>1, FS_AddElement
  <2> QED
    BY <1>4, <2>1, <2>2
<1>11. new = {mine[i].id : i \in 1..(n + 1)}
  <2>1. \A i : i \in 1..(n + 1) <=> i \in 1..n \/ i = n + 1
    BY <1>2
  <2> QED
    BY <1>3, <1>4, <1>6, <2>1
<1>12. /\ V!DoneBy(w) = n + 1 /\ V!DoneBy(w) \in 0..Len(w.mine) /\ V!DoneBy(w) > 0
       /\ (V!DoneBy(w) # Len(w.mine) => V!DoneBy(w) < Len(w.mine))
  <2>1. Len(w.mine) = Len(mine) /\ V!DoneBy(w) = n + 1
    BY <1>8, <1>10
  <2>2. /\ n + 1 \in 0..Len(mine) /\ n + 1 > 0
        /\ (n + 1 # Len(mine) => n + 1 < Len(mine))
    <3>1. n \in Nat /\ Len(mine) \in Nat /\ n < Len(mine)
      BY <1>2
    <3> QED
      BY <3>1
  <2> QED
    BY <2>1, <2>2
<1>13. \A m \in new : w.wrote[m] \in V!Settled
  BY <1>6, <1>7
<1>14. w.turned \subseteq new
  BY <1>0, <1>6, <1>7
<1>15. V!Orderly(w)
  <2>1. DOMAIN w.wrote = {w.mine[i].id : i \in 1..V!DoneBy(w)}
    BY <1>8, <1>11, <1>12 DEF new
  <2>2. \/ w.pc \in {"reply", "commit"}
        \/ w.pc = "answer" /\ V!DoneBy(w) < Len(w.mine)
    BY <1>0, <1>12
  <2>3. IsFiniteSet(DOMAIN w.wrote) /\ w.turned \subseteq DOMAIN w.wrote
        /\ \A m \in DOMAIN w.wrote : w.wrote[m] \in V!Settled
    BY <1>10, <1>13, <1>14 DEF new
  <2> QED
    BY <1>0, <1>1, <1>12, <2>1, <2>2, <2>3, DeliveriesCount DEF V!Orderly
<1>16. V!ClaimedBy(w) = V!ClaimedBy(v6[h])
  BY <1>0 DEF V!ClaimedBy
<1>17. \A m \in Wamids : V!Replied(v6[h], m) => V!Replied(w, m)
  <2>1. w.mine[V!DoneBy(w)].id \notin old
    BY <1>3, <1>8, <1>9, <1>12
  <2> QED
    BY <1>6, <2>1 DEF V!Replied, old, new
<1> QED
  BY <1>15, <1>16, <1>17, HookStep

(* A transaction rolled back takes its claims with it.                     *)
LEMMA HookRollbackStep ==
  ASSUME V!DeliveryInv, NEW h \in Requests, V!Rollback(h)
  PROVE  V!DeliveryInv'
<1>1. /\ v5' = [m \in Wamids |-> v5[m] + IF m \in V!ClaimedBy(v6[h]) THEN 1 ELSE 0]
      /\ v6' = [v6 EXCEPT ![h] = V!Over("error")] /\ UNCHANGED <<v2, v3, v4>>
  BY DEF V!Rollback, V!Claims, V!ClaimedBy
<1>2. /\ DOMAIN v6' = Requests /\ v6'[h] = V!Over("error")
      /\ \A g \in Requests \ {h} : v6'[g] = v6[g]
  BY <1>1 DEF V!DeliveryInv
<1>3. V!Orderly(V!Over("error")) /\ V!ClaimedBy(V!Over("error")) = {}
  BY OverIsOrderly
<1>4. \A m : V!Replied(v6[h], m) => m \in V!ClaimedBy(v6[h])
  BY AnsweredIsClaimed DEF V!DeliveryInv
<1>5. V!Ledgers'
  BY <1>1 DEF V!DeliveryInv, V!Ledgers
<1>6. \A m \in Wamids : /\ v5[m] \in Nat /\ v5'[m] \in Nat /\ v4[m] \in Nat
                        /\ v5'[m] = v5[m] + IF m \in V!ClaimedBy(v6[h]) THEN 1 ELSE 0
  BY <1>1 DEF V!DeliveryInv, V!Ledgers
<1>7. V!Accounted'
  <2> SUFFICES ASSUME NEW m \in Wamids
               PROVE  /\ v3[m] <= IF v2[m] = "none" THEN 0 ELSE 1
                      /\ v4[m] <= 1 + v5'[m]
                      /\ v2[m] = "none" /\ (\A g \in Requests : ~V!Replied(v6'[g], m)) =>
                           v4[m] <= v5'[m]
    BY <1>1 DEF V!Accounted
  <2>1. /\ v3[m] <= IF v2[m] = "none" THEN 0 ELSE 1
        /\ v4[m] <= 1 + v5[m]
        /\ v2[m] = "none" /\ (\A g \in Requests : ~V!Replied(v6[g], m)) => v4[m] <= v5[m]
    BY DEF V!DeliveryInv, V!Accounted
  <2>2. CASE m \in V!ClaimedBy(v6[h])
    BY <1>6, <2>1, <2>2
  <2>3. CASE m \notin V!ClaimedBy(v6[h])
    BY <1>2, <1>4, <1>6, <2>1, <2>3
  <2> QED
    BY <2>2, <2>3
<1>8. V!ClaimsAreApart'
  BY <1>1, <1>2, <1>3 DEF V!DeliveryInv, V!ClaimsAreApart
<1>9. \A g \in Requests : V!Orderly(v6'[g])
  BY <1>2, <1>3 DEF V!DeliveryInv
<1> QED
  BY <1>2, <1>5, <1>7, <1>8, <1>9 DEF V!DeliveryInv

(* A message is read, or is settled without a turn.                        *)
LEMMA HandleStep ==
  ASSUME V!DeliveryInv, NEW h \in Requests, V!HandleInbound(h)
  PROVE  V!DeliveryInv'
<1> DEFINE locked == [v6[h] EXCEPT !.pc = "lock"]
           quiet == V!Settle(h, "processed", FALSE)
           blank == V!Settle(h, "processed", TRUE)
           unread == V!Settle(h, "failed", TRUE)
<1>1. V!Orderly(v6[h]) /\ v6[h].pc = "answer" /\ DOMAIN v6 = Requests
  BY DEF V!HandleInbound, V!At, V!DeliveryInv
<1>2. \/ V!Rollback(h)
      \/ /\ UNCHANGED <<v2, v3, v4, v5>>
         /\ \/ v6' = [v6 EXCEPT ![h] = locked] \/ v6' = [v6 EXCEPT ![h] = quiet]
            \/ v6' = [v6 EXCEPT ![h] = blank] \/ v6' = [v6 EXCEPT ![h] = unread]
  <2> HIDE DEF quiet, blank, unread, locked
  <2>1. CASE v1 = "records"
    BY <1>1, <2>1 DEF V!HandleInbound, V!ledger, quiet
  <2>2. CASE v1 # "records"
    <3>1. PICK read \in V!Readable(V!Current(h).kind) :
            IF read = "raises" THEN V!Rollback(h)
            ELSE /\ v6' = [v6 EXCEPT ![h] =
                      CASE read = "words" -> [@ EXCEPT !.pc = "lock"]
                        [] read = "blank" -> V!Settle(h, "processed", TRUE)
                        [] OTHER -> V!Settle(h, "failed", TRUE)]
                 /\ UNCHANGED <<v1, V!ledger, v7>>
      BY <2>2 DEF V!HandleInbound
    <3> QED
      BY <1>1, <3>1 DEF V!ledger, blank, unread, locked
  <2> QED
    BY <2>1, <2>2
<1>3. ASSUME v6' = [v6 EXCEPT ![h] = locked], UNCHANGED <<v2, v3, v4, v5>>
      PROVE  V!DeliveryInv'
  <2>1. /\ DOMAIN locked = DOMAIN v6[h] /\ locked.mine = v6[h].mine
        /\ locked.wrote = v6[h].wrote /\ locked.turned = v6[h].turned
        /\ locked.pc = "lock" /\ V!DoneBy(v6[h]) < Len(v6[h].mine)
    BY <1>1 DEF V!Orderly
  <2> HIDE DEF locked
  <2> QED
    BY <1>1, <1>3, <2>1, HookQuietStep
<1>4. ASSUME NEW w \in {quiet, blank, unread}, v6' = [v6 EXCEPT ![h] = w],
             UNCHANGED <<v2, v3, v4, v5>>
      PROVE  V!DeliveryInv'
  <2>1. PICK status \in V!Settled, replying \in BOOLEAN : w = V!Settle(h, status, replying)
    BY <1>4 DEF V!Settled
  <2> HIDE DEF quiet, blank, unread
  <2>2. w.turned \subseteq w.turned \cup {V!Current(h).id}
    OBVIOUS
  <2>3. v6[h].pc \in {"answer", "turn"}
    BY <1>1
  <2> QED
    BY <1>4, <2>1, <2>2, <2>3, SettleMessageStep
<1> HIDE DEF locked, quiet, blank, unread
<1> QED
  BY <1>2, <1>3, <1>4, HookRollbackStep

(* Waiting for the contact changes nothing that counts.                    *)
LEMMA LockStep == ASSUME V!DeliveryInv, NEW h \in Requests, V!Lock(h) PROVE V!DeliveryInv'
<1> DEFINE w == [v6[h] EXCEPT !.pc = "turn", !.locks = @ \cup {V!Current(h).from}]
<1>1. V!Orderly(v6[h]) /\ DOMAIN v6 = Requests
  BY DEF V!DeliveryInv
<1>2. /\ v6[h].pc = "lock" /\ UNCHANGED <<v2, v3, v4, v5>>
      /\ v6' = [v6 EXCEPT ![h] = w]
  BY <1>1 DEF V!Lock, V!At, V!ledger
<1>3. /\ DOMAIN w = DOMAIN v6[h] /\ w.wrote = v6[h].wrote /\ w.pc = "turn"
      /\ w.turned = v6[h].turned /\ w.mine = v6[h].mine
      /\ V!DoneBy(v6[h]) < Len(v6[h].mine)
  BY <1>1, <1>2 DEF V!Orderly
<1> HIDE DEF w
<1> QED
  BY <1>2, <1>3, HookQuietStep

(* A turn settles the message.                                             *)
LEMMA PutToTurnStep ==
  ASSUME V!DeliveryInv, NEW h \in Requests, V!Turn(h)
  PROVE  V!DeliveryInv'
<1>1. V!Orderly(v6[h]) /\ v6[h].pc = "turn" /\ UNCHANGED <<v2, v3, v4, v5>>
  BY DEF V!DeliveryInv, V!Turn, V!At, V!ledger
<1>2. PICK status \in V!Settled :
        v6' = [v6 EXCEPT ![h] =
          [V!Settle(h, status, status = "processed") EXCEPT !.turned = @ \cup {V!Current(h).id}]]
  BY DEF V!Turn
<1>3. PICK replying \in BOOLEAN : replying <=> status = "processed"
  OBVIOUS
<1> DEFINE s == V!Settle(h, status, replying)
           w == [s EXCEPT !.turned = @ \cup {V!Current(h).id}]
<1>4. V!Settle(h, status, status = "processed") = s
  BY <1>3 DEF V!Settle
<1>5. v6' = [v6 EXCEPT ![h] = w]
  BY <1>2, <1>4
<1> HIDE DEF s
<1>6. DOMAIN s = DOMAIN v6[h]
  BY <1>1, SettledIs DEF s
<1>7. /\ DOMAIN w = DOMAIN s /\ w.mine = s.mine /\ w.wrote = s.wrote /\ w.pc = s.pc
      /\ w.turned \subseteq s.turned \cup {V!Current(h).id}
  BY <1>1, <1>6 DEF V!Orderly
<1> HIDE DEF w
<1>8. v6[h].pc \in {"answer", "turn"}
  BY <1>1
<1>9. s = V!Settle(h, status, replying)
  BY DEF s
<1> QED
  BY <1>1, <1>5, <1>7, <1>8, <1>9, SettleMessageStep

(* The first reply to a message is the one reply it is owed.               *)
LEMMA ReplyStep == ASSUME V!DeliveryInv, NEW h \in Requests, V!Reply(h) PROVE V!DeliveryInv'
<1> DEFINE pc == V!After(h, v6[h])
           w == [v6[h] EXCEPT !.pc = pc]
           m == V!Answered(h).id
           n == V!DoneBy(v6[h])
<1>1. V!Orderly(v6[h]) /\ v6[h].pc = "reply" /\ DOMAIN v6 = Requests
  BY DEF V!DeliveryInv, V!Reply, V!At
<1>2. /\ v6' = [v6 EXCEPT ![h] = w] /\ UNCHANGED <<v2, v3, v5>>
      /\ v4' = [v4 EXCEPT ![m] = @ + 1] \/ UNCHANGED v4
  BY <1>1 DEF V!Reply
<1>3. /\ DOMAIN w = DOMAIN v6[h] /\ w.mine = v6[h].mine /\ w.wrote = v6[h].wrote
      /\ w.turned = v6[h].turned /\ w.pc = pc
  BY <1>1 DEF V!Orderly
<1>4. \/ pc = "commit"
      \/ pc = "answer" /\ n # Len(v6[h].mine)
  BY DEF V!After, V!DoneBy
<1>5. Len(v6[h].mine) \in Nat /\ n \in 0..Len(v6[h].mine) /\ n > 0
      /\ DOMAIN v6[h].mine = 1..Len(v6[h].mine)
      /\ DOMAIN v6[h].wrote = {v6[h].mine[i].id : i \in 1..n}
  BY <1>1 DEF V!Orderly
<1>6. m = v6[h].mine[n].id /\ m \in DOMAIN v6[h].wrote /\ m \in V!ClaimedBy(v6[h])
  BY <1>5 DEF V!Answered, V!DoneBy, V!ClaimedBy
<1> HIDE DEF pc, w, m, n
<1>7. V!Orderly(w)
  <2>1. V!DoneBy(w) = n
    BY <1>3 DEF V!DoneBy, n
  <2>2. pc = "answer" => n < Len(w.mine)
    BY <1>3, <1>4, <1>5
  <2>3. w.pc \notin {"idle", "answered", "refused", "error", "reply"}
    BY <1>3, <1>4
  <2>4. w.pc \in {"answer", "lock", "turn"} => V!DoneBy(v6[h]) < Len(v6[h].mine)
    BY <1>3, <1>4, <2>2 DEF n
  <2> QED
    BY <1>1, <1>3, <2>3, <2>4, OrderStays
<1>8. \A x : V!Replied(w, x) <=> x \in DOMAIN v6[h].wrote
  BY <1>3, <1>4 DEF V!Replied
<1>9. /\ DOMAIN v6' = Requests /\ v6'[h] = w
      /\ \A g \in Requests \ {h} : v6'[g] = v6[g]
  BY <1>1, <1>2
<1>10. V!Ledgers'
  BY <1>2 DEF V!DeliveryInv, V!Ledgers
<1>11. \A x : V!Replied(v6[h], x) => V!Replied(w, x)
  BY <1>8 DEF V!Replied
<1>12. ~V!Replied(v6[h], m)
  BY <1>1, <1>6 DEF V!Replied, n
<1>13. m \in Wamids => v2[m] = "none" /\ \A g \in Requests \ {h} : ~V!Replied(v6[g], m)
  <2>1. \A g \in Requests \ {h} : m \notin V!ClaimedBy(v6[g]) /\ (m \in Wamids => v2[m] = "none")
    BY <1>6 DEF V!DeliveryInv, V!ClaimsAreApart
  <2>2. \A g \in Requests : \A x : V!Replied(v6[g], x) => x \in V!ClaimedBy(v6[g])
    BY AnsweredIsClaimed DEF V!DeliveryInv
  <2>3. m \in Wamids => v2[m] = "none"
    BY <1>6 DEF V!DeliveryInv, V!ClaimsAreApart
  <2> QED
    BY <2>1, <2>2, <2>3
<1>14. V!Accounted'
  <2> SUFFICES ASSUME NEW x \in Wamids
               PROVE  /\ v3[x] <= IF v2[x] = "none" THEN 0 ELSE 1
                      /\ v4'[x] <= 1 + v5[x]
                      /\ v2[x] = "none" /\ (\A g \in Requests : ~V!Replied(v6'[g], x)) =>
                           v4'[x] <= v5[x]
    BY <1>2 DEF V!Accounted
  <2>1. /\ v3[x] <= IF v2[x] = "none" THEN 0 ELSE 1
        /\ v4[x] <= 1 + v5[x]
        /\ v2[x] = "none" /\ (\A g \in Requests : ~V!Replied(v6[g], x)) => v4[x] <= v5[x]
        /\ v4[x] \in Nat /\ v5[x] \in Nat
    BY DEF V!DeliveryInv, V!Accounted, V!Ledgers
  <2>2. (\A g \in Requests : ~V!Replied(v6'[g], x)) => \A g \in Requests : ~V!Replied(v6[g], x)
    BY <1>9, <1>11
  <2>3. CASE x = m
    <3>1. v4[x] <= v5[x]
      BY <1>12, <1>13, <2>1, <2>3
    <3>2. V!Replied(v6'[h], x)
      BY <1>6, <1>8, <1>9, <2>3
    <3>3. v4'[x] \in {v4[x], v4[x] + 1}
      BY <1>2, <2>3 DEF V!DeliveryInv, V!Ledgers
    <3> QED
      BY <2>1, <3>1, <3>2, <3>3
  <2>4. CASE x # m
    <3>1. v4'[x] = v4[x]
      BY <1>2, <2>4 DEF V!DeliveryInv, V!Ledgers
    <3> QED
      BY <2>1, <2>2, <3>1
  <2> QED
    BY <2>3, <2>4
<1>15. V!ClaimsAreApart'
  <2>1. \A g \in Requests : V!ClaimedBy(v6'[g]) = V!ClaimedBy(v6[g])
    BY <1>3, <1>9 DEF V!ClaimedBy
  <2> QED
    BY <1>2, <2>1 DEF V!DeliveryInv, V!ClaimsAreApart
<1>16. \A g \in Requests : V!Orderly(v6'[g])
  BY <1>7, <1>9 DEF V!DeliveryInv
<1> QED
  BY <1>9, <1>10, <1>14, <1>15, <1>16 DEF V!DeliveryInv

(* The commit makes of each outcome a row, once.                           *)
LEMMA HookCommitStep ==
  ASSUME V!DeliveryInv, NEW h \in Requests, V!Commit(h)
  PROVE  V!DeliveryInv'
<1> DEFINE w == v6[h]
<1>1. V!Orderly(w) /\ w.pc = "commit"
  BY DEF V!DeliveryInv, V!Commit, V!At
<1>2. /\ v2' = [m \in Wamids |-> IF m \in DOMAIN w.wrote THEN w.wrote[m] ELSE v2[m]]
      /\ v3' = [m \in Wamids |-> v3[m] + IF m \in w.turned THEN 1 ELSE 0]
      /\ v6' = [v6 EXCEPT ![h] = V!Over("answered")] /\ UNCHANGED <<v4, v5>>
  BY DEF V!Commit
<1>3. /\ DOMAIN v6' = Requests /\ v6'[h] = V!Over("answered")
      /\ \A g \in Requests \ {h} : v6'[g] = v6[g]
  BY <1>2 DEF V!DeliveryInv
<1>4. V!Orderly(V!Over("answered")) /\ V!ClaimedBy(V!Over("answered")) = {}
  BY OverIsOrderly
<1>5. /\ \A m \in DOMAIN w.wrote : w.wrote[m] \in V!Settled /\ m \in V!ClaimedBy(w)
      /\ w.turned \subseteq DOMAIN w.wrote
  BY <1>1, AnsweredIsClaimed DEF V!Orderly
<1>6. \A m : V!Replied(w, m) => m \in DOMAIN w.wrote
  BY DEF V!Replied
<1>7. "none" \notin V!Settled
  BY DEF V!Settled
<1>8. \A m \in Wamids : v2[m] \in V!Settled \cup {"none"} /\ v3[m] \in Nat /\ v4[m] \in Nat
                        /\ v5[m] \in Nat
  BY DEF V!DeliveryInv, V!Ledgers
<1>9. \A m \in V!ClaimedBy(w) : /\ m \in Wamids => v2[m] = "none"
                                /\ \A g \in Requests \ {h} : m \notin V!ClaimedBy(v6[g])
  BY DEF V!DeliveryInv, V!ClaimsAreApart
<1> HIDE DEF w
<1>10. \A m \in Wamids : /\ v2'[m] = IF m \in DOMAIN w.wrote THEN w.wrote[m] ELSE v2[m]
                         /\ v3'[m] = v3[m] + IF m \in w.turned THEN 1 ELSE 0
  BY <1>2
<1>11. V!Ledgers'
  <2>1. v2' \in [Wamids -> V!Settled \cup {"none"}]
    BY <1>2, <1>5, <1>8
  <2>2. v3' \in [Wamids -> Nat]
    BY <1>2, <1>8
  <2> QED
    BY <1>2, <2>1, <2>2 DEF V!DeliveryInv, V!Ledgers
<1>12. V!Accounted'
  <2> SUFFICES ASSUME NEW m \in Wamids
               PROVE  /\ v3'[m] <= IF v2'[m] = "none" THEN 0 ELSE 1
                      /\ v4[m] <= 1 + v5[m]
                      /\ v2'[m] = "none" /\ (\A g \in Requests : ~V!Replied(v6'[g], m)) =>
                           v4[m] <= v5[m]
    BY <1>2 DEF V!Accounted
  <2>1. /\ v3[m] <= IF v2[m] = "none" THEN 0 ELSE 1
        /\ v4[m] <= 1 + v5[m]
        /\ v2[m] = "none" /\ (\A g \in Requests : ~V!Replied(v6[g], m)) => v4[m] <= v5[m]
    BY DEF V!DeliveryInv, V!Accounted
  <2>2. CASE m \in DOMAIN w.wrote
    <3>1. v2'[m] # "none" /\ v2[m] = "none"
      BY <1>5, <1>7, <1>9, <1>10, <2>2
    <3>2. v3[m] = 0
      BY <1>8, <2>1, <3>1
    <3> QED
      BY <1>10, <2>1, <3>1, <3>2
  <2>3. CASE m \notin DOMAIN w.wrote
    <3>1. v2'[m] = v2[m] /\ v3'[m] = v3[m]
      BY <1>5, <1>8, <1>10, <2>3
    <3>2. (\A g \in Requests : ~V!Replied(v6'[g], m)) => \A g \in Requests : ~V!Replied(v6[g], m)
      BY <1>3, <1>6, <2>3 DEF w
    <3> QED
      BY <2>1, <3>1, <3>2
  <2> QED
    BY <2>2, <2>3
<1>13. V!ClaimsAreApart'
  <2> SUFFICES ASSUME NEW g \in Requests, NEW m \in V!ClaimedBy(v6'[g])
               PROVE  /\ m \in Wamids => v2'[m] = "none"
                      /\ \A k \in Requests \ {g} : m \notin V!ClaimedBy(v6'[k])
    BY DEF V!ClaimsAreApart
  <2>1. g # h /\ v6'[g] = v6[g]
    BY <1>3, <1>4
  <2>2. /\ m \in Wamids => v2[m] = "none"
        /\ \A k \in Requests \ {g} : m \notin V!ClaimedBy(v6[k])
    BY <2>1 DEF V!DeliveryInv, V!ClaimsAreApart
  <2>3. m \notin V!ClaimedBy(w)
    BY <2>1, <2>2 DEF w
  <2>4. m \in Wamids => v2'[m] = "none"
    BY <1>5, <1>10, <2>2, <2>3
  <2>5. \A k \in Requests \ {g} : m \notin V!ClaimedBy(v6'[k])
    BY <1>3, <1>4, <2>2
  <2> QED
    BY <2>4, <2>5
<1>14. \A g \in Requests : V!Orderly(v6'[g])
  BY <1>3, <1>4 DEF V!DeliveryInv
<1> QED
  BY <1>3, <1>11, <1>12, <1>13, <1>14 DEF V!DeliveryInv

(* So every step keeps the invariant.                                      *)
LEMMA DeliveryStep == ASSUME V!DeliveryInv, [V!Next]_(V!vars) PROVE V!DeliveryInv'
<1>1. ASSUME UNCHANGED V!vars PROVE V!DeliveryInv'
  BY <1>1 DEF V!vars, V!DeliveryInv, V!Ledgers, V!Accounted, V!ClaimsAreApart
<1>2. ASSUME NEW h \in Requests, V!Post(h) \/ V!Statement(h) \/ V!Crash(h)
      PROVE  V!DeliveryInv'
  <2>1. CASE V!BreakDeadlock(h) \/ V!Crash(h)
    BY <2>1, HookRollbackStep DEF V!BreakDeadlock, V!Crash
  <2> QED
    BY <1>2, <2>1, PostStep, RecordStep, ApplyStatusStep, DispatchStep, HandleStep,
       LockStep, PutToTurnStep, ReplyStep, HookCommitStep DEF V!Statement
<1> QED
  BY <1>1, <1>2 DEF V!Next, V!Finished

(* In the beginning nothing is claimed.                                    *)
LEMMA DeliveryStart == ASSUME V!Init PROVE V!DeliveryInv
<1>1. /\ v2 = [m \in Wamids |-> "none"] /\ v3 = [m \in Wamids |-> 0]
      /\ v4 = [m \in Wamids |-> 0] /\ v5 = [m \in Wamids |-> 0]
      /\ v6 = [h \in Requests |-> V!Over("idle")]
  BY DEF V!Init
<1>2. V!Orderly(V!Over("idle")) /\ V!ClaimedBy(V!Over("idle")) = {}
  BY OverIsOrderly
<1>3. V!Ledgers
  BY <1>1 DEF V!Ledgers
<1>4. V!Accounted
  BY <1>1 DEF V!Accounted
<1>5. V!ClaimsAreApart
  BY <1>1, <1>2 DEF V!ClaimsAreApart
<1> QED
  BY <1>1, <1>2, <1>3, <1>4, <1>5 DEF V!DeliveryInv

(* From the invariant: deliveries are safe.                                *)
LEMMA DeliveryEnd == ASSUME V!DeliveryInv PROVE V!DeliveriesAreSafe
<1> SUFFICES ASSUME NEW m \in Wamids
             PROVE  /\ v3[m] <= 1 /\ v4[m] <= 1 + v5[m]
                    /\ v4[m] > 0 =>
                         v2[m] \in V!Settled \/ v5[m] > 0 \/ \E h \in Requests : m \in V!Claims(h)
  BY DEF V!DeliveriesAreSafe
<1>1. /\ v3[m] <= IF v2[m] = "none" THEN 0 ELSE 1
      /\ v4[m] <= 1 + v5[m]
      /\ v2[m] = "none" /\ (\A h \in Requests : ~V!Replied(v6[h], m)) => v4[m] <= v5[m]
  BY DEF V!DeliveryInv, V!Accounted
<1>2. v2[m] \in V!Settled \cup {"none"} /\ v3[m] \in Nat /\ v4[m] \in Nat /\ v5[m] \in Nat
  BY DEF V!DeliveryInv, V!Ledgers
<1>3. ASSUME NEW h \in Requests, V!Replied(v6[h], m) PROVE m \in V!Claims(h)
  BY <1>3, AnsweredIsClaimed DEF V!DeliveryInv, V!Claims, V!ClaimedBy
<1>4. v3[m] <= 1
  BY <1>1, <1>2
<1>5. v4[m] > 0 =>
        v2[m] \in V!Settled \/ v5[m] > 0 \/ \E h \in Requests : m \in V!Claims(h)
  <2>1. v4[m] > 0 /\ v4[m] <= v5[m] => v5[m] > 0
    BY <1>2
  <2> QED
    BY <1>1, <1>2, <1>3, <2>1
<1> QED
  BY <1>1, <1>4, <1>5

-----------------------------------------------------------------------------
(* Reports.  A report is several statements, each of which sees what is    *)
(* committed when it runs: what the earlier ones found is still so unless  *)
(* something was committed since.                                          *)

(* A sum over a set, by one of its members and the rest.                   *)
First(s) == CHOOSE x \in s : TRUE

SumStep(sum, points, field, s) ==
  IF s = {} THEN 0 ELSE points[First(s)][field] + sum[s \ {First(s)}]

Sum(sum, points, field, sets) ==
  sum = [s \in sets |-> SumStep(sum, points, field, s)]

(* The sum of a field over the points of a chart is such a sum.            *)
LEMMA OverIsSum ==
  ASSUME NEW points, NEW field
  PROVE  D!Over(points, field)
           = (CHOOSE sum : Sum(sum, points, field, SUBSET DOMAIN points))[DOMAIN points]
BY DEF D!Over, D!MapThenSumSet, D!MapThenFoldSet, Sum, SumStep, First

(* The sets with no more than k members.                                   *)
UpTo(all, k) == {s \in SUBSET all : Cardinality(s) <= k}

(* A set without its first is smaller by one.                              *)
LEMMA FirstOut ==
  ASSUME NEW all, IsFiniteSet(all), NEW k \in Nat, NEW s \in UpTo(all, k), s # {}
  PROVE  /\ First(s) \in s /\ IsFiniteSet(s)
         /\ Cardinality(s) \in Nat /\ Cardinality(s) > 0
         /\ IsFiniteSet(s \ {First(s)})
         /\ Cardinality(s \ {First(s)}) = Cardinality(s) - 1
         /\ s \ {First(s)} \in UpTo(all, k - 1)
<1>1. First(s) \in s
  BY DEF First
<1>2. s \subseteq all /\ Cardinality(s) <= k
  BY DEF UpTo
<1>3. IsFiniteSet(s)
  BY <1>2, FS_Subset
<1>4. Cardinality(s) \in Nat /\ Cardinality(s) # 0
  BY <1>3, FS_CardinalityType, FS_EmptySet
<1>5. IsFiniteSet(s \ {First(s)}) /\ Cardinality(s \ {First(s)}) = Cardinality(s) - 1
  BY <1>1, <1>3, FS_RemoveElement
<1>6. Cardinality(s \ {First(s)}) <= k - 1
  BY <1>2, <1>4, <1>5
<1> QED
  BY <1>1, <1>2, <1>3, <1>4, <1>5, <1>6 DEF UpTo

(* Over a finite set of points there is one: by induction on the size.     *)
LEMMA SumExists ==
  ASSUME NEW points, NEW field, IsFiniteSet(DOMAIN points)
  PROVE  \E sum : Sum(sum, points, field, SUBSET DOMAIN points)
<1> DEFINE all == DOMAIN points
           n == Cardinality(all)
           S == {k \in 0..n : \E sum : Sum(sum, points, field, UpTo(all, k))}
<1>1. n \in Nat
  BY FS_CardinalityType
<1> HIDE DEF all, n
<1>2. IsFiniteSet(all)
  BY DEF all
<1>3. ASSUME NEW k \in 0..n, 0..(k - 1) \subseteq S PROVE k \in S
  <2>1. CASE k = 0
    <3> DEFINE sum == [s \in UpTo(all, 0) |-> 0]
    <3>1. ASSUME NEW s \in UpTo(all, 0) PROVE s = {}
      <4>1. CASE s # {}
        <5>1. Cardinality(s) \in Nat /\ Cardinality(s) > 0 /\ Cardinality(s) <= 0
          BY <1>2, <4>1, FirstOut DEF UpTo
        <5> QED
          BY <5>1
      <4> QED
        BY <4>1
    <3>2. \A s \in UpTo(all, 0) : SumStep(sum, points, field, s) = 0
      BY <3>1 DEF SumStep
    <3>3. Sum(sum, points, field, UpTo(all, 0))
      BY <3>2 DEF Sum
    <3> QED
      BY <2>1, <3>3
  <2>2. CASE k > 0
    <3>1. k - 1 \in 0..(k - 1) /\ k \in Nat
      BY <1>1, <2>2
    <3>2. PICK g : Sum(g, points, field, UpTo(all, k - 1))
      BY <1>3, <3>1
    <3> DEFINE sum == [s \in UpTo(all, k) |-> SumStep(g, points, field, s)]
    <3>3. UpTo(all, k - 1) \subseteq UpTo(all, k)
      <4> SUFFICES ASSUME NEW s \in UpTo(all, k - 1) PROVE s \in UpTo(all, k)
        OBVIOUS
      <4>1. s \subseteq all /\ Cardinality(s) <= k - 1 /\ IsFiniteSet(s)
        BY <1>2, FS_Subset DEF UpTo
      <4>2. Cardinality(s) \in Nat
        BY <4>1, FS_CardinalityType
      <4> QED
        BY <3>1, <4>1, <4>2 DEF UpTo
    <3>4. \A s \in UpTo(all, k - 1) : g[s] = SumStep(g, points, field, s)
      BY <3>2 DEF Sum
    <3>5. \A s \in UpTo(all, k - 1) : sum[s] = g[s]
      BY <3>3, <3>4
    <3>6. ASSUME NEW s \in UpTo(all, k)
          PROVE  SumStep(sum, points, field, s) = SumStep(g, points, field, s)
      <4>1. CASE s = {}
        BY <4>1 DEF SumStep
      <4>2. CASE s # {}
        <5>1. s \ {First(s)} \in UpTo(all, k - 1)
          BY <1>2, <3>1, <4>2, FirstOut
        <5>2. sum[s \ {First(s)}] = g[s \ {First(s)}]
          BY <3>5, <5>1
        <5> HIDE DEF sum
        <5> QED
          BY <4>2, <5>2 DEF SumStep
      <4> QED
        BY <4>1, <4>2
    <3>7. Sum(sum, points, field, UpTo(all, k))
      BY <3>6 DEF Sum
    <3> QED
      BY <3>7
  <2> QED
    BY <1>1, <2>1, <2>2
<1> HIDE DEF S
<1>4. 0..n \subseteq S
  BY <1>1, <1>3, Induction
<1>5. \E sum : Sum(sum, points, field, UpTo(all, n))
  BY <1>1, <1>4 DEF S
<1>6. UpTo(all, n) = SUBSET all
  <2> SUFFICES ASSUME NEW s \in SUBSET all PROVE Cardinality(s) <= n
    BY DEF UpTo
  <2> QED
    BY <1>2, FS_Subset DEF n
<1> QED
  BY <1>5, <1>6 DEF all

(* The parts of a set of rows add up to it.                                *)
LEMMA PartsAddUp ==
  ASSUME NEW points, NEW field, IsFiniteSet(DOMAIN points),
         NEW rows, IsFiniteSet(rows), NEW group,
         \A k \in DOMAIN points :
           points[k][field] = Cardinality({r \in rows : group[r] = k}),
         \A r \in rows : group[r] \in DOMAIN points
  PROVE  D!Over(points, field) = Cardinality(rows)
<1> DEFINE all == DOMAIN points
           n == Cardinality(all)
           sum == CHOOSE sum : Sum(sum, points, field, SUBSET DOMAIN points)
           those(s) == {r \in rows : group[r] \in s}
           S == {k \in 0..n : \A s \in UpTo(all, k) : sum[s] = Cardinality(those(s))}
<1>1. n \in Nat
  BY FS_CardinalityType
<1>2. Sum(sum, points, field, SUBSET all)
  BY SumExists
<1>3. D!Over(points, field) = sum[all]
  BY OverIsSum
<1> HIDE DEF sum
<1>4. \A s \in SUBSET all : sum[s] = SumStep(sum, points, field, s)
  BY <1>2 DEF Sum
<1>5. \A s : IsFiniteSet(those(s))
  BY FS_Subset
<1>6. ASSUME NEW k \in 0..n, 0..(k - 1) \subseteq S PROVE k \in S
  <2>1. ASSUME NEW s \in UpTo(all, k) PROVE sum[s] = Cardinality(those(s))
    <3>1. s \in SUBSET all /\ sum[s] = SumStep(sum, points, field, s)
      BY <1>4 DEF UpTo
    <3>2. CASE s = {}
      <4>1. those(s) = {}
        BY <3>2
      <4>2. sum[s] = 0
        BY <3>1, <3>2 DEF SumStep
      <4> QED
        BY <4>1, <4>2, FS_EmptySet
    <3>3. CASE s # {}
      <4> DEFINE x == First(s)
                 rest == s \ {First(s)}
      <4>1. /\ x \in s /\ Cardinality(s) \in Nat /\ Cardinality(s) > 0
            /\ rest \in UpTo(all, k - 1)
        <5>1. k \in Nat /\ IsFiniteSet(all)
          BY <1>1
        <5> HIDE DEF all
        <5> QED
          BY <3>3, <5>1, FirstOut
      <4>2. k \in Nat /\ k > 0
        BY <1>1, <4>1 DEF UpTo
      <4>3. k - 1 \in S
        BY <1>6, <4>2
      <4>4. sum[rest] = Cardinality(those(rest))
        BY <4>1, <4>3
      <4>5. sum[s] = points[x][field] + sum[rest]
        BY <3>1, <3>3 DEF SumStep
      <4> HIDE DEF x
      <4> DEFINE mine == {r \in rows : group[r] = x}
      <4>6. points[x][field] = Cardinality(mine) /\ IsFiniteSet(mine)
        BY <3>1, <4>1, FS_Subset
      <4>7. those(s) = mine \cup those(rest) /\ mine \cap those(rest) = {}
        BY <4>1 DEF x
      <4> HIDE DEF mine, those, rest
      <4>8. Cardinality(mine \cup those(rest))
              = Cardinality(mine) + Cardinality(those(rest)) - Cardinality(mine \cap those(rest))
        BY <1>5, <4>6, FS_Union
      <4>9. Cardinality(mine \cap those(rest)) = 0
        BY <4>7, FS_EmptySet
      <4>10. Cardinality(mine) \in Nat /\ Cardinality(those(rest)) \in Nat
        BY <1>5, <4>6, FS_CardinalityType
      <4> QED
        BY <4>4, <4>5, <4>6, <4>7, <4>8, <4>9, <4>10
    <3> QED
      BY <3>2, <3>3
  <2> QED
    BY <2>1
<1> HIDE DEF S
<1>7. 0..n \subseteq S
  BY <1>1, <1>6, Induction
<1>8. all \in UpTo(all, n)
  BY <1>1 DEF UpTo
<1>9. sum[all] = Cardinality(those(all))
  BY <1>1, <1>7, <1>8 DEF S
<1>10. those(all) = rows
  OBVIOUS
<1> QED
  BY <1>3, <1>9, <1>10

(* The counts of this component are those of the library.                  *)
LEMMA ReportCounts ==
  /\ \A S : D!Cardinality(S) = Cardinality(S)
  /\ \A S : D!IsFiniteSet(S) <=> IsFiniteSet(S)
BY DEF D!Cardinality, Cardinality, D!IsFiniteSet, IsFiniteSet

(* The parts of a chart add up to what was counted at once.                *)
LEMMA ChartAddsUp ==
  ASSUME NEW points, IsFiniteSet(DOMAIN points), NEW rows, IsFiniteSet(rows), NEW group,
         \A k \in DOMAIN points : points[k] = D!Point({r \in rows : group[r] = k}),
         \A r \in rows : group[r] \in DOMAIN points
  PROVE  /\ D!Over(points, "messages") = D!Point(rows).messages
         /\ D!Over(points, "tokens") = D!Point(rows).tokens
         /\ D!Over(points, "cost") = D!Point(rows).cost
<1>1. \A x : /\ D!Point(x).messages = Cardinality(x)
             /\ D!Point(x).tokens = Cardinality(D!Of(x, D!Provided))
             /\ D!Point(x).cost = Cardinality(D!Of(x, {"priced"}))
  BY ReportCounts DEF D!Point
<1>2. D!Over(points, "messages") = Cardinality(rows)
  <2>1. \A k \in DOMAIN points :
          points[k]["messages"] = Cardinality({r \in rows : group[r] = k})
    BY <1>1
  <2> QED
    BY <2>1, PartsAddUp
<1>3. ASSUME NEW field, NEW kinds,
             \A k \in DOMAIN points :
               points[k][field] = Cardinality(D!Of({r \in rows : group[r] = k}, kinds))
      PROVE  D!Over(points, field) = Cardinality(D!Of(rows, kinds))
  <2> DEFINE those == D!Of(rows, kinds)
  <2>1. IsFiniteSet(those) /\ \A r \in those : group[r] \in DOMAIN points
    BY FS_Subset DEF D!Of
  <2>2. ASSUME NEW k \in DOMAIN points
        PROVE  points[k][field] = Cardinality({r \in those : group[r] = k})
    <3>1. D!Of({r \in rows : group[r] = k}, kinds) = {r \in those : group[r] = k}
      BY DEF D!Of
    <3> QED
      BY <1>3, <3>1
  <2> HIDE DEF those
  <2>3. D!Over(points, field) = Cardinality(those)
    BY <2>1, <2>2, PartsAddUp
  <2> QED
    BY <2>3 DEF those
<1>4. \A k \in DOMAIN points :
        /\ points[k]["tokens"] = Cardinality(D!Of({r \in rows : group[r] = k}, D!Provided))
        /\ points[k]["cost"] = Cardinality(D!Of({r \in rows : group[r] = k}, {"priced"}))
  BY <1>1
<1>5. D!Over(points, "tokens") = Cardinality(D!Of(rows, D!Provided))
  BY <1>3, <1>4
<1>6. D!Over(points, "cost") = Cardinality(D!Of(rows, {"priced"}))
  BY <1>3, <1>4
<1> QED
  BY <1>1, <1>2, <1>5, <1>6

(* What an undisturbed usage report shows adds up to its totals.           *)
LEMMA TotalsEnd ==
  ASSUME D!ReportAssumption, D!ReportInv PROVE D!TotalsAddUp
<1>1. SUFFICES ASSUME v5.asked = "usage", v5.pc = "done", ~v5.disturbed
               PROVE  /\ v5.totals.messages = D!Over(v5.daily, "messages")
                      /\ v5.totals.tokens = D!Over(v5.daily, "tokens")
                      /\ v5.totals.cost = D!Over(v5.daily, "cost")
                      /\ v5.totals.messages = D!Over(v5.channels, "messages")
                      /\ v5.totals.tokens = D!Over(v5.models, "tokens")
                      /\ v5.totals.cost = D!Over(v5.models, "cost")
                      /\ v5.without_context <= v5.assistant
  BY DEF D!TotalsAddUp
<1>2. /\ D!Has(D!message_totals) /\ D!Has(D!daily) /\ D!Has(D!by_channel) /\ D!Has(D!by_model)
      /\ D!RowTypes
  BY <1>1 DEF D!ReportInv, D!HasFound
<1> DEFINE rows == D!In(v5.window)
<1>3. v3 \in Seq(D!MessageRow) /\ rows \subseteq DOMAIN v3
  BY <1>2 DEF D!RowTypes, D!In
<1>4. IsFiniteSet(rows)
  <2>1. Len(v3) \in Nat /\ DOMAIN v3 = 1..Len(v3)
    BY <1>3
  <2>2. IsFiniteSet(DOMAIN v3)
    BY <2>1, FS_Interval
  <2> QED
    BY <1>3, <2>2, FS_Subset
<1>5. \A n \in rows : v3[n] \in D!MessageRow
  BY <1>3
<1>6. /\ v5.totals = D!Point(rows)
      /\ v5.assistant = Cardinality(D!Of(rows, D!Replies))
      /\ v5.without_context = Cardinality(D!Of(rows, {"blind"}))
  BY <1>2, ReportCounts DEF D!Has, D!message_totals
<1>7. v5.daily = [d \in {v3[n].day : n \in rows} |-> D!Point({n \in rows : v3[n].day = d})]
  BY <1>2 DEF D!Has, D!daily
<1> DEFINE model(n) == v3[n].kind = "priced"
           provided == D!Of(rows, D!Provided)
<1>8. v5.models = [m \in {model(n) : n \in provided} |-> D!Point({n \in provided : model(n) = m})]
  BY <1>2 DEF D!Has, D!by_model
<1> DEFINE inScope == {c \in Convs : D!InScope(c) /\ v2[c].started # D!None}
<1>9. v5.channels = [channel \in {ChannelOf[c] : c \in inScope} |->
          [conversations |-> Cardinality({c \in inScope : ChannelOf[c] = channel}),
           messages |-> Cardinality(D!Joined(channel))]]
  BY <1>2, ReportCounts DEF D!Has, D!by_channel
<1>10. \A n \in rows : v3[n].conv \in inScope
  BY <1>2, <1>3, <1>5 DEF D!RowTypes, D!MessageRow, D!In
<1> HIDE DEF rows, inScope
<1>11. /\ D!Point(rows).messages = D!Over(v5.daily, "messages")
       /\ D!Point(rows).tokens = D!Over(v5.daily, "tokens")
       /\ D!Point(rows).cost = D!Over(v5.daily, "cost")
  <2> DEFINE group == [n \in rows |-> v3[n].day]
             points == v5.daily
  <2>1. DOMAIN points = {v3[n].day : n \in rows}
    BY <1>7
  <2>2. IsFiniteSet(DOMAIN points)
    <3>1. DOMAIN points \subseteq 0..MaxDay
      BY <1>5, <2>1 DEF D!MessageRow, D!Days
    <3>2. MaxDay \in Nat
      BY DEF D!ReportAssumption
    <3>3. IsFiniteSet(0..MaxDay)
      BY <3>2, FS_Interval
    <3> QED
      BY <3>1, <3>3, FS_Subset
  <2>3. \A r \in rows : group[r] \in DOMAIN points
    BY <2>1
  <2>4. ASSUME NEW k \in DOMAIN points PROVE points[k] = D!Point({r \in rows : group[r] = k})
    <3>1. {r \in rows : group[r] = k} = {n \in rows : v3[n].day = k}
      OBVIOUS
    <3> DEFINE portion(d) == D!Point({n \in rows : v3[n].day = d})
    <3>2. points = [d \in DOMAIN points |-> portion(d)]
      BY <1>7, <2>1
    <3> HIDE DEF portion, points
    <3>3. points[k] = portion(k)
      BY <3>2
    <3> QED
      BY <3>1, <3>3 DEF portion
  <2> HIDE DEF group, points
  <2>5. /\ D!Over(points, "messages") = D!Point(rows).messages
        /\ D!Over(points, "tokens") = D!Point(rows).tokens
        /\ D!Over(points, "cost") = D!Point(rows).cost
    BY <1>4, <2>2, <2>3, <2>4, ChartAddsUp
  <2> QED
    BY <2>5 DEF points
<1>12. /\ D!Point(provided).tokens = D!Over(v5.models, "tokens")
       /\ D!Point(provided).cost = D!Over(v5.models, "cost")
  <2> DEFINE group == [n \in provided |-> model(n)]
             points == v5.models
  <2>1. DOMAIN points = {model(n) : n \in provided}
    BY <1>8
  <2>2. IsFiniteSet(DOMAIN points)
    <3>1. DOMAIN points \subseteq {TRUE, FALSE}
      BY <2>1
    <3>2. IsFiniteSet({TRUE, FALSE})
      <4>1. {TRUE, FALSE} = {TRUE} \cup {FALSE}
        OBVIOUS
      <4>2. IsFiniteSet({TRUE}) /\ IsFiniteSet({FALSE})
        BY FS_Singleton
      <4>3. IsFiniteSet({TRUE} \cup {FALSE})
        BY <4>2, FS_Union
      <4> QED
        BY <4>1, <4>3
    <3> QED
      BY <3>1, <3>2, FS_Subset
  <2>3. \A r \in provided : group[r] \in DOMAIN points
    BY <2>1
  <2>4. ASSUME NEW k \in DOMAIN points PROVE points[k] = D!Point({r \in provided : group[r] = k})
    <3>1. {r \in provided : group[r] = k} = {n \in provided : model(n) = k}
      OBVIOUS
    <3> DEFINE portion(d) == D!Point({n \in provided : model(n) = d})
    <3>2. points = [d \in DOMAIN points |-> portion(d)]
      BY <1>8, <2>1
    <3> HIDE DEF portion, points
    <3>3. points[k] = portion(k)
      BY <3>2
    <3> QED
      BY <3>1, <3>3 DEF portion
  <2>5. IsFiniteSet(provided)
    BY <1>4, FS_Subset DEF D!Of
  <2> HIDE DEF group, points, provided
  <2>6. /\ D!Over(points, "messages") = D!Point(provided).messages
        /\ D!Over(points, "tokens") = D!Point(provided).tokens
        /\ D!Over(points, "cost") = D!Point(provided).cost
    BY <2>2, <2>3, <2>4, <2>5, ChartAddsUp
  <2> QED
    BY <2>6 DEF points
<1>13. D!Point(provided).tokens = D!Point(rows).tokens /\ D!Point(provided).cost = D!Point(rows).cost
  <2>1. D!Of(provided, D!Provided) = D!Of(rows, D!Provided)
    BY DEF D!Of
  <2>2. D!Of(provided, {"priced"}) = D!Of(rows, {"priced"})
    BY DEF D!Of, D!Provided
  <2> QED
    BY <2>1, <2>2 DEF D!Point
<1>14. D!Point(rows).messages = D!Over(v5.channels, "messages")
  <2> DEFINE group == [n \in rows |-> ChannelOf[v3[n].conv]]
             points == v5.channels
  <2>1. DOMAIN points = {ChannelOf[c] : c \in inScope}
    BY <1>9
  <2>2. IsFiniteSet(DOMAIN points)
    <3>1. DOMAIN points \subseteq {"web", "preview"}
      BY <2>1 DEF inScope, D!ReportAssumption
    <3>2. IsFiniteSet({"web", "preview"})
      <4>1. {"web", "preview"} = {"web"} \cup {"preview"}
        OBVIOUS
      <4>2. IsFiniteSet({"web"}) /\ IsFiniteSet({"preview"})
        BY FS_Singleton
      <4>3. IsFiniteSet({"web"} \cup {"preview"})
        BY <4>2, FS_Union
      <4> QED
        BY <4>1, <4>3
    <3> QED
      BY <3>1, <3>2, FS_Subset
  <2>3. \A r \in rows : group[r] \in DOMAIN points
    BY <1>10, <2>1
  <2>4. ASSUME NEW k \in DOMAIN points
        PROVE  points[k]["messages"] = Cardinality({r \in rows : group[r] = k})
    <3>1. {r \in rows : group[r] = k} = D!Joined(k)
      BY DEF D!Joined, rows
    <3>2. points[k]["messages"] = Cardinality(D!Joined(k))
      BY <1>9, <2>1
    <3> QED
      BY <3>1, <3>2
  <2> HIDE DEF group, points
  <2>5. D!Over(points, "messages") = Cardinality(rows)
    BY <1>4, <2>2, <2>3, <2>4, PartsAddUp
  <2> QED
    BY <2>5, ReportCounts DEF points, D!Point
<1>15. v5.without_context <= v5.assistant
  <2>1. D!Of(rows, {"blind"}) \subseteq D!Of(rows, D!Replies)
    BY DEF D!Of, D!Replies
  <2>2. IsFiniteSet(D!Of(rows, D!Replies))
    BY <1>4, FS_Subset DEF D!Of
  <2> QED
    BY <1>6, <2>1, <2>2, FS_Subset
<1> HIDE DEF provided
<1> QED
  BY <1>6, <1>11, <1>12, <1>13, <1>14, <1>15

(* Wherever a window is cut, a row is in one of the two parts or in        *)
(* neither, as it is in the window or not.                                 *)
LEMMA WindowsEnd ==
  ASSUME D!ReportAssumption, D!ReportInv PROVE D!WindowsPartition
<1>1. SUFFICES ASSUME v5.pc = "done", NEW cut \in (v5.window.start + 1)..(v5.window.end - 1)
               PROVE  LET first == [v5.window EXCEPT !.end = cut]
                          second == [v5.window EXCEPT !.start = cut]
                      IN  /\ D!In(first) \cap D!In(second) = {}
                          /\ D!In(first) \cup D!In(second) = D!In(v5.window)
  BY DEF D!WindowsPartition
<1>2. v5.window \in [start : Nat, end : Nat]
  BY <1>1 DEF D!ReportInv, D!ReportTypes
<1> DEFINE first == [v5.window EXCEPT !.end = cut]
           second == [v5.window EXCEPT !.start = cut]
<1>3. /\ first.start = v5.window.start /\ first.end = cut
      /\ second.start = cut /\ second.end = v5.window.end
      /\ v5.window.start \in Nat /\ v5.window.end \in Nat
  BY <1>2
<1>4. \A n \in DOMAIN v3 : v3[n].day \in Nat
  <2> TAKE n \in DOMAIN v3
  <2>1. v3[n] \in D!MessageRow
    BY DEF D!ReportInv, D!RowTypes
  <2>2. v3[n].day \in 0..MaxDay
    BY <2>1 DEF D!MessageRow, D!Days
  <2> QED
    BY <2>2
<1> HIDE DEF first, second
<1>5. ASSUME NEW n \in DOMAIN v3
      PROVE  /\ ~(D!Within(v3[n].day, first) /\ D!Within(v3[n].day, second))
             /\ D!Within(v3[n].day, first) \/ D!Within(v3[n].day, second)
                  <=> D!Within(v3[n].day, v5.window)
  <2>1. v3[n].day \in Nat /\ v5.window.start < cut /\ cut < v5.window.end /\ cut \in Int
    BY <1>1, <1>3, <1>4
  <2> QED
    BY <1>3, <2>1 DEF D!Within
<1>6. D!In(first) \cap D!In(second) = {} /\ D!In(first) \cup D!In(second) = D!In(v5.window)
  BY <1>5 DEF D!In
<1> QED
  BY <1>6 DEF first, second

(* The lesser of two counts.                                               *)
LEMMA LeastOfTwo ==
  ASSUME NEW a \in Nat, NEW b \in Nat
  PROVE  D!Min({a, b}) = IF a <= b THEN a ELSE b
<1> DEFINE m == IF a <= b THEN a ELSE b
<1>1. m \in {a, b} /\ \A y \in {a, b} : m <= y
  OBVIOUS
<1>2. \A x \in {a, b} : (\A y \in {a, b} : x <= y) => x = m
  OBVIOUS
<1> HIDE DEF m
<1>3. (CHOOSE x \in {a, b} : \A y \in {a, b} : x <= y) = m
  BY <1>1, <1>2
<1> QED
  BY <1>3 DEF D!Min, m

(* What an undisturbed failure report lists is the newest of what it       *)
(* counts.                                                                 *)
LEMMA SamplesEnd ==
  ASSUME D!ReportAssumption, D!ReportInv PROVE D!SamplesAreTheNewest
<1>1. SUFFICES ASSUME v5.asked = "failures", v5.pc = "done", ~v5.disturbed, NEW k \in D!Kinds
               PROVE  /\ D!Cardinality(v5.recent[k]) = D!Min({Recent, v5.counted[k]})
                      /\ \A f \in v5.recent[k], g \in D!Dated(k, v5.window) :
                           g.day > f.day => g \in v5.recent[k]
  BY DEF D!SamplesAreTheNewest
<1> DEFINE rows == D!Dated(k, v5.window)
<1>2. v5.recent[k] \in D!Samples(rows) /\ D!Has(D!count_in)
  BY <1>1 DEF D!ReportInv, D!HasFound
<1>3. v5.counted[k] = IF k = "webhook" THEN D!Min({Recent, Cardinality(rows)}) ELSE Cardinality(rows)
  BY <1>2, ReportCounts DEF D!Has, D!count_in
<1>4. Cardinality(v5.recent[k]) = D!Min({Recent, Cardinality(rows)})
  BY <1>2, ReportCounts DEF D!Samples
<1>5. Recent \in Nat /\ Cardinality(rows) \in Nat
  BY ReportCounts, FS_Subset, FS_CardinalityType
     DEF D!ReportAssumption, D!ReportInv, D!RowTypes, D!Dated
<1>6. \A f \in v5.recent[k], g \in rows : g.day > f.day => g \in v5.recent[k]
  BY <1>2 DEF D!Samples, D!Newest
<1> HIDE DEF rows
<1>7. D!Min({Recent, v5.counted[k]}) = D!Min({Recent, Cardinality(rows)})
  <2>1. CASE k = "webhook"
    <3> DEFINE m == D!Min({Recent, Cardinality(rows)})
    <3>1. m = IF Recent <= Cardinality(rows) THEN Recent ELSE Cardinality(rows)
      BY <1>5, LeastOfTwo
    <3>2. m \in Nat /\ m <= Recent /\ v5.counted[k] = m
      BY <1>3, <1>5, <2>1, <3>1
    <3> HIDE DEF m
    <3>3. D!Min({Recent, m}) = m
      BY <1>5, <3>2, LeastOfTwo
    <3> QED
      BY <3>2, <3>3 DEF m
  <2>2. CASE k # "webhook"
    BY <1>3, <2>2
  <2> QED
    BY <2>1, <2>2
<1> QED
  BY <1>4, <1>6, <1>7, ReportCounts DEF rows

(* What the statements find is the same as long as nothing is committed.   *)
LEMMA FindingsStay ==
  ASSUME UNCHANGED <<v2, v3, v4>>, v5'.window = v5.window, v5'.preview = v5.preview
  PROVE  /\ D!message_totals' = D!message_totals
         /\ D!daily' = D!daily
         /\ D!by_channel' = D!by_channel
         /\ D!by_model' = D!by_model
         /\ D!count_in' = D!count_in
         /\ \A k : D!Samples(D!Dated(k, v5.window))' = D!Samples(D!Dated(k, v5.window))
<1> DEFINE rows == D!In(v5.window)
<1>1. \A c : D!InScope(c)' <=> D!InScope(c)
  BY DEF D!InScope
<1>2. rows' = rows
  BY <1>1 DEF D!In, D!Within
<1>3. \A x, kinds : D!Of(x, kinds)' = D!Of(x, kinds)
  BY DEF D!Of
<1>4. \A x : D!Point(x)' = D!Point(x)
  <2> TAKE x
  <2>1. D!Of(x, D!Provided)' = D!Of(x, D!Provided) /\ D!Of(x, {"priced"})' = D!Of(x, {"priced"})
    BY <1>3 DEF D!Provided
  <2> QED
    BY <2>1 DEF D!Point
<1>5. /\ D!Of(rows, D!Provided)' = D!Of(rows, D!Provided)
      /\ D!Of(rows, D!Replies)' = D!Of(rows, D!Replies)
      /\ D!Of(rows, {"priced"})' = D!Of(rows, {"priced"})
      /\ D!Of(rows, {"blind"})' = D!Of(rows, {"blind"})
  BY <1>2 DEF D!Of, D!Provided, D!Replies
<1>6. D!message_totals' = D!message_totals
  BY <1>2, <1>5 DEF D!message_totals, D!Point
<1>7. D!daily' = D!daily
  <2> DEFINE dom == {v3[n].day : n \in rows}
             on(d) == {n \in rows : v3[n].day = d}
             f == [d \in dom |-> D!Point(on(d))]
  <2>1. dom' = dom
    BY <1>2
  <2>2. \A d : on(d)' = on(d)
    BY <1>2
  <2>3. \A d : D!Point(on(d))' = D!Point(on(d))
    <3> TAKE d
    <3>1. /\ D!Of(on(d), D!Provided)' = D!Of(on(d), D!Provided)
          /\ D!Of(on(d), {"priced"})' = D!Of(on(d), {"priced"})
      BY <2>2 DEF D!Of, D!Provided
    <3> QED
      BY <2>2, <3>1 DEF D!Point
  <2>4. f' = f
    BY <2>1, <2>3
  <2> QED
    BY <2>4 DEF D!daily
<1>8. D!by_channel' = D!by_channel
  <2> DEFINE inScope == {c \in Convs : D!InScope(c) /\ v2[c].started # D!None}
             dom == {ChannelOf[c] : c \in inScope}
             row(channel) ==
               [conversations |-> D!Cardinality({c \in inScope : ChannelOf[c] = channel}),
                messages |-> D!Cardinality(D!Joined(channel))]
             f == [channel \in dom |-> row(channel)]
  <2>1. inScope' = inScope
    BY <1>1 DEF D!None
  <2>2. dom' = dom
    BY <2>1
  <2>3. \A channel : D!Joined(channel)' = D!Joined(channel)
    BY <1>2 DEF D!Joined
  <2>4. \A channel : row(channel)' = row(channel)
    <3> TAKE channel
    <3>1. {c \in inScope : ChannelOf[c] = channel}' = {c \in inScope : ChannelOf[c] = channel}
      BY <2>1
    <3> QED
      BY <2>3, <3>1
  <2>5. f' = f
    BY <2>2, <2>4
  <2> QED
    BY <2>5 DEF D!by_channel
<1>9. D!by_model' = D!by_model
  <2> DEFINE those == D!Of(rows, D!Provided)
             dom == {v3[n].kind = "priced" : n \in those}
             on(m) == {n \in those : (v3[n].kind = "priced") = m}
             f == [m \in dom |-> D!Point(on(m))]
  <2>1. those' = those
    BY <1>5
  <2>2. dom' = dom
    BY <2>1
  <2>3. \A m : on(m)' = on(m)
    BY <2>1
  <2>4. \A m : D!Point(on(m))' = D!Point(on(m))
    <3> TAKE m
    <3>1. /\ D!Of(on(m), D!Provided)' = D!Of(on(m), D!Provided)
          /\ D!Of(on(m), {"priced"})' = D!Of(on(m), {"priced"})
      BY <2>3 DEF D!Of, D!Provided
    <3> QED
      BY <2>3, <3>1 DEF D!Point
  <2>5. f' = f
    BY <2>2, <2>4
  <2> QED
    BY <2>5 DEF D!by_model
<1>10. \A k : D!Dated(k, v5.window)' = D!Dated(k, v5.window)
  BY DEF D!Dated, D!Within
<1>11. D!count_in' = D!count_in
  <2> DEFINE row(k) == IF k = "webhook"
                       THEN D!Min({Recent, D!Cardinality(D!Dated(k, v5.window))})
                       ELSE D!Cardinality(D!Dated(k, v5.window))
             f == [k \in D!Kinds |-> row(k)]
  <2>1. \A k : row(k)' = row(k)
    BY <1>10
  <2>2. f' = f
    BY <2>1 DEF D!Kinds
  <2> QED
    BY <2>2 DEF D!count_in
<1>12. \A k : D!Samples(D!Dated(k, v5.window))' = D!Samples(D!Dated(k, v5.window))
  BY <1>10
<1> QED
  BY <1>6, <1>7, <1>8, <1>9, <1>11, <1>12

(* A statement adds what it found to the report and moves it on.           *)
LEMMA FindsMoves ==
  ASSUME D!ReportInv, NEW pc \in D!Usage \cup D!Failures, NEW next, NEW found,
         D!Finds(pc, next, found),
         DOMAIN found \cap {"pc", "asked", "preview", "disturbed", "window"} = {}
  PROVE  /\ v5.pc = pc /\ v5'.pc = next /\ UNCHANGED <<v1, v2, v3, v4>>
         /\ DOMAIN v5' = DOMAIN found \cup DOMAIN v5
         /\ v5'.asked = v5.asked /\ v5'.preview = v5.preview
         /\ v5'.disturbed = v5.disturbed /\ v5'.window = v5.window
         /\ \A f \in DOMAIN found : v5'[f] = found[f]
         /\ \A f \in DOMAIN v5 : f \notin DOMAIN found /\ f # "pc" => v5'[f] = v5[f]
<1> DEFINE r == [v5 EXCEPT !.pc = next]
<1>1. v5.pc = pc /\ UNCHANGED <<v1, v2, v3, v4>> /\ v5' = D!With(found, r)
  BY DEF D!Finds
<1>2. {"pc", "asked", "preview", "disturbed", "window"} \subseteq DOMAIN v5
  BY <1>1 DEF D!ReportInv, D!ReportTypes, D!Usage, D!Failures
<1>3. DOMAIN r = DOMAIN v5 /\ r.pc = next /\ \A f \in DOMAIN v5 : f # "pc" => r[f] = v5[f]
  BY <1>2
<1> HIDE DEF r
<1>4. /\ DOMAIN v5' = DOMAIN found \cup DOMAIN r
      /\ \A f \in DOMAIN found \cup DOMAIN r : v5'[f] = IF f \in DOMAIN found THEN found[f] ELSE r[f]
  BY <1>1 DEF D!With
<1>5. v5'.pc = next /\ \A f \in DOMAIN v5 : f \notin DOMAIN found /\ f # "pc" => v5'[f] = v5[f]
  BY <1>2, <1>3, <1>4
<1>6. /\ v5'["asked"] = v5["asked"] /\ v5'["preview"] = v5["preview"]
      /\ v5'["disturbed"] = v5["disturbed"] /\ v5'["window"] = v5["window"]
  BY <1>2, <1>5
<1> QED
  BY <1>1, <1>3, <1>4, <1>5, <1>6

(* The types after a statement.                                            *)
LEMMA FindsTypes ==
  ASSUME D!ReportInv, NEW pc \in D!Usage \cup D!Failures, NEW next, NEW found,
         D!Finds(pc, next, found),
         DOMAIN found \cap {"pc", "asked", "preview", "disturbed", "window"} = {},
         \/ pc \in D!Usage /\ next \in D!Usage \cup {"done"}
         \/ pc \in D!Failures /\ next \in D!Failures \cup {"done"}
  PROVE  D!RowTypes' /\ D!ReportTypes'
<1>1. /\ v5.pc = pc /\ v5'.pc = next /\ UNCHANGED <<v1, v2, v3, v4>>
      /\ DOMAIN v5' = DOMAIN found \cup DOMAIN v5
      /\ v5'.asked = v5.asked /\ v5'.disturbed = v5.disturbed /\ v5'.window = v5.window
  BY FindsMoves
<1>2. D!RowTypes'
  BY <1>1 DEF D!ReportInv, D!RowTypes
<1>3. D!ReportTypes
  BY DEF D!ReportInv
<1>4. D!ReportTypes'
  BY <1>1, <1>3 DEF D!ReportTypes, D!Usage, D!Failures
<1> QED
  BY <1>2, <1>4

(* What was found is still so after a statement that finds something else. *)
LEMMA FindsKeeps ==
  ASSUME D!ReportInv, NEW pc \in D!Usage \cup D!Failures, NEW next, NEW found,
         D!Finds(pc, next, found),
         DOMAIN found \cap {"pc", "asked", "preview", "disturbed", "window"} = {}
  PROVE  /\ DOMAIN found \cap {"totals", "assistant", "without_context"} = {}
              /\ D!Has(D!message_totals) => D!Has(D!message_totals)'
         /\ DOMAIN found \cap {"daily"} = {} /\ D!Has(D!daily) => D!Has(D!daily)'
         /\ DOMAIN found \cap {"channels"} = {} /\ D!Has(D!by_channel) => D!Has(D!by_channel)'
         /\ DOMAIN found \cap {"counted"} = {} /\ D!Has(D!count_in) => D!Has(D!count_in)'
         /\ found = D!message_totals => D!Has(D!message_totals)'
         /\ found = D!daily => D!Has(D!daily)'
         /\ found = D!by_channel => D!Has(D!by_channel)'
         /\ found = D!by_model => D!Has(D!by_model)'
         /\ found = D!count_in => D!Has(D!count_in)'
<1>1. /\ UNCHANGED <<v2, v3, v4>> /\ v5'.preview = v5.preview /\ v5'.window = v5.window
      /\ DOMAIN v5' = DOMAIN found \cup DOMAIN v5
      /\ \A f \in DOMAIN found : v5'[f] = found[f]
      /\ \A f \in DOMAIN v5 : f \notin DOMAIN found /\ f # "pc" => v5'[f] = v5[f]
  BY FindsMoves
<1>2. /\ D!message_totals' = D!message_totals /\ D!daily' = D!daily
      /\ D!by_channel' = D!by_channel /\ D!by_model' = D!by_model
      /\ D!count_in' = D!count_in
  BY <1>1, FindingsStay
<1>3. /\ DOMAIN D!message_totals = {"totals", "assistant", "without_context"}
      /\ DOMAIN D!daily = {"daily"} /\ DOMAIN D!by_channel = {"channels"}
      /\ DOMAIN D!count_in = {"counted"}
  BY DEF D!message_totals, D!daily, D!by_channel, D!count_in
<1>4. /\ DOMAIN found \cap DOMAIN D!message_totals = {} /\ D!Has(D!message_totals)
            => D!Has(D!message_totals)'
  BY <1>1, <1>2, <1>3 DEF D!Has
<1>5. DOMAIN found \cap DOMAIN D!daily = {} /\ D!Has(D!daily) => D!Has(D!daily)'
  BY <1>1, <1>2, <1>3 DEF D!Has
<1>6. DOMAIN found \cap DOMAIN D!by_channel = {} /\ D!Has(D!by_channel) => D!Has(D!by_channel)'
  BY <1>1, <1>2, <1>3 DEF D!Has
<1>7. DOMAIN found \cap DOMAIN D!count_in = {} /\ D!Has(D!count_in) => D!Has(D!count_in)'
  BY <1>1, <1>2, <1>3 DEF D!Has
<1>8. found = D!message_totals => D!Has(D!message_totals)'
  BY <1>1, <1>2 DEF D!Has
<1>9. found = D!daily => D!Has(D!daily)'
  BY <1>1, <1>2 DEF D!Has
<1>10. found = D!by_channel => D!Has(D!by_channel)'
  BY <1>1, <1>2 DEF D!Has
<1>11. found = D!by_model => D!Has(D!by_model)'
  BY <1>1, <1>2 DEF D!Has
<1>12. found = D!count_in => D!Has(D!count_in)'
  BY <1>1, <1>2 DEF D!Has
<1> QED
  BY <1>3, <1>4, <1>5, <1>6, <1>7, <1>8, <1>9, <1>10, <1>11, <1>12

(* The statements of a usage report.                                       *)
LEMMA UsageStep ==
  ASSUME D!ReportInv,
         D!Counts \/ D!Totals \/ D!Daily \/ D!ByChannel \/ D!ByModel
  PROVE  D!ReportInv'
<1> USE DEF D!Usage, D!Failures
<1>1. CASE D!Counts
  <2>1. PICK found : D!Finds("counts", "totals", found) /\ DOMAIN found = {"started", "escalated"}
    BY <1>1 DEF D!Counts
  <2>2. v5'.pc = "totals" /\ v5.pc = "counts" /\ v5'.asked = v5.asked
    BY <2>1, FindsMoves
  <2>3. D!RowTypes' /\ D!ReportTypes'
    BY <2>1, FindsTypes
  <2>4. v5'.asked = "usage"
    BY <2>2 DEF D!ReportInv, D!ReportTypes
  <2> QED
    BY <2>2, <2>3, <2>4 DEF D!ReportInv, D!HasFound
<1>2. CASE D!Totals
  <2> DEFINE found == D!message_totals
  <2>1. D!Finds("totals", "daily", found) /\ DOMAIN found = {"totals", "assistant", "without_context"}
    BY <1>2 DEF D!Totals, D!message_totals
  <2> HIDE DEF found
  <2>2. v5'.pc = "daily" /\ v5.pc = "totals" /\ v5'.asked = v5.asked
    BY <2>1, FindsMoves
  <2>3. D!RowTypes' /\ D!ReportTypes'
    BY <2>1, FindsTypes
  <2>4. v5'.asked = "usage"
    BY <2>2 DEF D!ReportInv, D!ReportTypes
  <2>5. D!Has(D!message_totals)'
    BY <2>1, FindsKeeps DEF found
  <2> QED
    BY <2>2, <2>3, <2>4, <2>5 DEF D!ReportInv, D!HasFound
<1>3. CASE D!Daily
  <2> DEFINE found == D!daily
  <2>1. D!Finds("daily", "channels", found) /\ DOMAIN found = {"daily"}
    BY <1>3 DEF D!Daily, D!daily
  <2> HIDE DEF found
  <2>2. v5'.pc = "channels" /\ v5.pc = "daily" /\ v5'.asked = v5.asked /\ v5'.disturbed = v5.disturbed
    BY <2>1, FindsMoves
  <2>3. D!RowTypes' /\ D!ReportTypes'
    BY <2>1, FindsTypes
  <2>4. v5'.asked = "usage" /\ v5.asked = "usage"
    BY <2>2 DEF D!ReportInv, D!ReportTypes
  <2>5. D!Has(D!daily)'
    BY <2>1, FindsKeeps DEF found
  <2>6. ~v5.disturbed => D!Has(D!message_totals)
    BY <2>2, <2>4 DEF D!ReportInv, D!HasFound
  <2>7. ~v5'.disturbed => D!Has(D!message_totals)'
    BY <2>1, <2>2, <2>6, FindsKeeps
  <2> QED
    BY <2>2, <2>3, <2>4, <2>5, <2>7 DEF D!ReportInv, D!HasFound
<1>4. CASE D!ByChannel
  <2> DEFINE found == D!by_channel
  <2>1. D!Finds("channels", "models", found) /\ DOMAIN found = {"channels"}
    BY <1>4 DEF D!ByChannel, D!by_channel
  <2> HIDE DEF found
  <2>2. v5'.pc = "models" /\ v5.pc = "channels" /\ v5'.asked = v5.asked /\ v5'.disturbed = v5.disturbed
    BY <2>1, FindsMoves
  <2>3. D!RowTypes' /\ D!ReportTypes'
    BY <2>1, FindsTypes
  <2>4. v5'.asked = "usage" /\ v5.asked = "usage"
    BY <2>2 DEF D!ReportInv, D!ReportTypes
  <2>5. D!Has(D!by_channel)'
    BY <2>1, FindsKeeps DEF found
  <2>6. ~v5.disturbed => D!Has(D!message_totals) /\ D!Has(D!daily)
    BY <2>2, <2>4 DEF D!ReportInv, D!HasFound
  <2>7. ~v5'.disturbed => D!Has(D!message_totals)' /\ D!Has(D!daily)'
    BY <2>1, <2>2, <2>6, FindsKeeps
  <2> QED
    BY <2>2, <2>3, <2>4, <2>5, <2>7 DEF D!ReportInv, D!HasFound
<1>5. CASE D!ByModel
  <2> DEFINE found == D!by_model
  <2>1. D!Finds("models", "done", found) /\ DOMAIN found = {"models"}
    BY <1>5 DEF D!ByModel, D!by_model
  <2> HIDE DEF found
  <2>2. v5'.pc = "done" /\ v5.pc = "models" /\ v5'.asked = v5.asked /\ v5'.disturbed = v5.disturbed
    BY <2>1, FindsMoves
  <2>3. D!RowTypes' /\ D!ReportTypes'
    BY <2>1, FindsTypes
  <2>4. v5'.asked = "usage" /\ v5.asked = "usage"
    BY <2>2 DEF D!ReportInv, D!ReportTypes
  <2>5. D!Has(D!by_model)'
    BY <2>1, FindsKeeps DEF found
  <2>6. ~v5.disturbed => D!Has(D!message_totals) /\ D!Has(D!daily) /\ D!Has(D!by_channel)
    BY <2>2, <2>4 DEF D!ReportInv, D!HasFound
  <2>7. ~v5'.disturbed => D!Has(D!message_totals)' /\ D!Has(D!daily)' /\ D!Has(D!by_channel)'
    BY <2>1, <2>2, <2>6, FindsKeeps
  <2> QED
    BY <2>2, <2>3, <2>4, <2>5, <2>7 DEF D!ReportInv, D!HasFound
<1> QED
  BY <1>1, <1>2, <1>3, <1>4, <1>5

(* The statements of a failure report.                                     *)
LEMMA FailuresStep ==
  ASSUME D!ReportInv, D!Counting \/ D!Sampling PROVE D!ReportInv'
<1> USE DEF D!Usage, D!Failures
<1>1. CASE D!Counting
  <2> DEFINE found == D!count_in
  <2>1. D!Finds("counting", "sampling", found) /\ DOMAIN found = {"counted"}
    BY <1>1 DEF D!Counting, D!count_in
  <2> HIDE DEF found
  <2>2. v5'.pc = "sampling" /\ v5.pc = "counting" /\ v5'.asked = v5.asked
    BY <2>1, FindsMoves
  <2>3. D!RowTypes' /\ D!ReportTypes'
    BY <2>1, FindsTypes
  <2>4. v5'.asked = "failures"
    BY <2>2 DEF D!ReportInv, D!ReportTypes
  <2>5. D!Has(D!count_in)'
    BY <2>1, FindsKeeps DEF found
  <2> QED
    BY <2>2, <2>3, <2>4, <2>5 DEF D!ReportInv, D!HasFound
<1>2. CASE D!Sampling
  <2>1. PICK sampled \in [D!Kinds -> SUBSET v4] :
          /\ \A k \in D!Kinds : sampled[k] \in D!Samples(D!Dated(k, v5.window))
          /\ D!Finds("sampling", "done", [recent |-> sampled])
    BY <1>2 DEF D!Sampling
  <2> DEFINE found == [recent |-> sampled]
  <2>2. D!Finds("sampling", "done", found) /\ DOMAIN found = {"recent"} /\ found["recent"] = sampled
    BY <2>1
  <2> HIDE DEF found
  <2>3. /\ v5'.pc = "done" /\ v5.pc = "sampling" /\ v5'.asked = v5.asked
        /\ v5'.disturbed = v5.disturbed /\ v5'["recent"] = sampled
        /\ UNCHANGED <<v2, v3, v4>> /\ v5'.preview = v5.preview /\ v5'.window = v5.window
    BY <2>2, FindsMoves
  <2>4. D!RowTypes' /\ D!ReportTypes'
    BY <2>2, FindsTypes
  <2>5. v5'.asked = "failures" /\ v5.asked = "failures"
    BY <2>3 DEF D!ReportInv, D!ReportTypes
  <2>6. ~v5.disturbed => D!Has(D!count_in)
    BY <2>3, <2>5 DEF D!ReportInv, D!HasFound
  <2>7. ~v5'.disturbed => D!Has(D!count_in)'
    BY <2>2, <2>3, <2>6, FindsKeeps
  <2>8. \A k : D!Samples(D!Dated(k, v5.window))' = D!Samples(D!Dated(k, v5.window))
    BY <2>3, FindingsStay
  <2>9. \A k \in D!Kinds : v5'.recent[k] \in D!Samples(D!Dated(k, v5.window))'
    BY <2>1, <2>3, <2>8
  <2>10. \A k \in D!Kinds' : (v5.recent[k] \in D!Samples(D!Dated(k, v5.window)))'
    BY <2>9 DEF D!Kinds
  <2> QED
    BY <2>3, <2>4, <2>5, <2>7, <2>10 DEF D!ReportInv, D!HasFound
<1> QED
  BY <1>1, <1>2

(* What is committed while a report runs has disturbed it.                 *)
LEMMA CommitsDisturb ==
  ASSUME D!ReportInv, D!Disturb, D!RowTypes' PROVE D!ReportInv'
<1>1. /\ v5' = [v5 EXCEPT !.disturbed = v5.pc # "unasked"]
      /\ v5.pc \notin {"refused", "done"}
  BY DEF D!Disturb
<1>2. D!ReportTypes
  BY DEF D!ReportInv
<1>3. /\ DOMAIN v5' = DOMAIN v5 /\ v5'.pc = v5.pc /\ v5'.asked = v5.asked
      /\ v5'.window = v5.window /\ v5'.disturbed = (v5.pc # "unasked")
  BY <1>1, <1>2 DEF D!ReportTypes
<1>4. D!ReportTypes'
  BY <1>2, <1>3 DEF D!ReportTypes
<1>5. ~v5'.disturbed => v5'.pc = "unasked"
  BY <1>3
<1>6. ~v5'.disturbed => D!HasFound'
  BY <1>5 DEF D!HasFound
<1> QED
  BY <1>4, <1>6 DEF D!ReportInv

(* A turn commits rows of its conversation, which has started.             *)
LEMMA RowsStep ==
  ASSUME D!ReportAssumption, D!ReportInv,
         (\E c \in Convs : D!Turn(c)) \/ D!Fail \/ D!Recover
  PROVE  D!RowTypes'
<1>1. D!RowTypes /\ MaxDay \in Nat /\ MaxFailed \in Nat
  BY DEF D!ReportInv, D!ReportAssumption
<1>2. ASSUME NEW c \in Convs, D!Turn(c) PROVE D!RowTypes'
  <2>1. PICK reply \in D!Replies, hand \in BOOLEAN :
          /\ v3' = v3 \o <<[conv |-> c, day |-> v1, kind |-> "question"],
                            [conv |-> c, day |-> v1, kind |-> reply]>>
          /\ v2' = [v2 EXCEPT ![c].started = IF @ = D!None THEN v1 ELSE @,
                              ![c].escalated = IF hand THEN v1 ELSE @]
    BY <1>2 DEF D!Turn
  <2>2. v1' = v1 /\ v4' = v4 /\ v1 \in D!Days /\ v1 # D!None
    BY <1>1, <1>2 DEF D!Turn, D!RowTypes, D!Days, D!None
  <2>3. v2 \in [Convs -> D!ConvRow] /\ v2[c] \in D!ConvRow
    BY <1>1 DEF D!RowTypes
  <2> DEFINE row == [v2[c] EXCEPT !.started = IF v2[c].started = D!None THEN v1 ELSE v2[c].started,
                                  !.escalated = IF hand THEN v1 ELSE v2[c].escalated]
  <2>4. v2' = [v2 EXCEPT ![c] = row]
    BY <2>1, <2>3 DEF D!ConvRow
  <2>5. row \in D!ConvRow /\ row.started # D!None
    BY <2>2, <2>3 DEF D!ConvRow
  <2> HIDE DEF row
  <2>6. /\ v2' \in [Convs -> D!ConvRow] /\ v2'[c].started # D!None
        /\ \A d \in Convs : v2[d].started # D!None => v2'[d].started # D!None
    BY <2>3, <2>4, <2>5
  <2> DEFINE asked == [conv |-> c, day |-> v1, kind |-> "question"]
             answered == [conv |-> c, day |-> v1, kind |-> reply]
  <2>7. asked \in D!MessageRow /\ answered \in D!MessageRow /\ asked.conv = c /\ answered.conv = c
    BY <2>2 DEF D!MessageRow
  <2>8. v3' = v3 \o <<asked, answered>> /\ v3 \in Seq(D!MessageRow)
    BY <1>1, <2>1 DEF D!RowTypes
  <2> HIDE DEF asked, answered
  <2>9. /\ v3' \in Seq(D!MessageRow) /\ Len(v3) \in Nat
        /\ Len(v3') = Len(v3) + 2
        /\ \A n \in 1..Len(v3) : v3'[n] = v3[n]
        /\ v3'[Len(v3) + 1] = asked /\ v3'[Len(v3) + 2] = answered
    BY <2>7, <2>8
  <2>10. \A n \in DOMAIN v3' : v2'[v3'[n].conv].started # D!None
    <3> TAKE n \in DOMAIN v3'
    <3>1. n \in 1..(Len(v3) + 2)
      BY <2>9
    <3>2. CASE n \in 1..Len(v3)
      <4>1. v3'[n] = v3[n] /\ v3[n] \in D!MessageRow /\ v2[v3[n].conv].started # D!None
        BY <1>1, <2>8, <2>9, <3>2 DEF D!RowTypes
      <4>2. v3[n].conv \in Convs
        BY <4>1 DEF D!MessageRow
      <4> QED
        BY <2>6, <4>1, <4>2
    <3>3. CASE n = Len(v3) + 1
      BY <2>6, <2>7, <2>9, <3>3
    <3>4. CASE n = Len(v3) + 2
      BY <2>6, <2>7, <2>9, <3>4
    <3> QED
      BY <2>9, <3>1, <3>2, <3>3, <3>4
  <2>11. D!None' = D!None
    BY DEF D!None
  <2> QED
    BY <1>1, <2>2, <2>6, <2>9, <2>10, <2>11 DEF D!RowTypes
<1>3. CASE D!Fail
  <2> DEFINE one(kind) == kind \in {"ingestion", "webhook"}
             name(kind) == IF one(kind) THEN 0 ELSE D!Cardinality(v4)
             rest(kind) == {f \in v4 : ~(one(kind) /\ f.kind = kind)}
  <2>a. PICK kind \in D!Kinds :
          v4' = rest(kind) \cup {[kind |-> kind, id |-> name(kind), day |-> v1]}
    BY <1>3, Zenon DEF D!Fail
  <2> DEFINE id == name(kind)
             kept == rest(kind)
  <2>1. /\ v4' = kept \cup {[kind |-> kind, id |-> id, day |-> v1]}
        /\ kept \subseteq v4
        /\ id = 0 \/ id = D!Cardinality(v4)
    BY <2>a
  <2> HIDE DEF id, kept, one, name, rest
  <2>2. D!Cardinality(v4) < MaxFailed /\ UNCHANGED <<v1, v2, v3>>
    BY <1>3 DEF D!Fail
  <2>3. IsFiniteSet(v4) /\ v4 \subseteq D!FailureRow /\ v1 \in D!Days
    BY <1>1, ReportCounts DEF D!RowTypes
  <2>4. Cardinality(v4) \in Nat /\ id \in 0..MaxFailed
    BY <1>1, <2>1, <2>2, <2>3, ReportCounts, FS_CardinalityType
  <2>5. [kind |-> kind, id |-> id, day |-> v1] \in D!FailureRow
    BY <2>3, <2>4 DEF D!FailureRow
  <2>6. IsFiniteSet(kept) /\ kept \subseteq D!FailureRow
    BY <2>1, <2>3, FS_Subset
  <2>7. IsFiniteSet(v4') /\ v4' \subseteq D!FailureRow
    BY <2>1, <2>5, <2>6, FS_AddElement
  <2>8. D!IsFiniteSet(v4')
    BY <2>7, ReportCounts
  <2> QED
    BY <1>1, <2>2, <2>7, <2>8 DEF D!RowTypes
<1>4. CASE D!Recover
  <2>1. UNCHANGED <<v1, v2, v3>> /\ v4' \subseteq v4
    BY <1>4 DEF D!Recover
  <2>2. IsFiniteSet(v4) /\ v4 \subseteq D!FailureRow
    BY <1>1, ReportCounts DEF D!RowTypes
  <2>3. IsFiniteSet(v4') /\ v4' \subseteq D!FailureRow
    BY <2>1, <2>2, FS_Subset
  <2>4. D!IsFiniteSet(v4')
    BY <2>3, ReportCounts
  <2> QED
    BY <1>1, <2>1, <2>3, <2>4 DEF D!RowTypes
<1> QED
  BY <1>2, <1>3, <1>4

(* Every step keeps the invariant.                                         *)
LEMMA ReportStep ==
  ASSUME D!ReportAssumption, D!ReportInv, [D!Next]_(D!vars) PROVE D!ReportInv'
<1>1. CASE UNCHANGED D!vars
  <2>1. UNCHANGED <<v1, v2, v3, v4, v5>>
    BY <1>1 DEF D!vars
  <2>2. /\ D!message_totals' = D!message_totals /\ D!daily' = D!daily
        /\ D!by_channel' = D!by_channel /\ D!by_model' = D!by_model
        /\ D!count_in' = D!count_in
        /\ \A k : D!Samples(D!Dated(k, v5.window))' = D!Samples(D!Dated(k, v5.window))
    BY <2>1, FindingsStay
  <2>3. /\ D!Has(D!message_totals) => D!Has(D!message_totals)'
        /\ D!Has(D!daily) => D!Has(D!daily)'
        /\ D!Has(D!by_channel) => D!Has(D!by_channel)'
        /\ D!Has(D!by_model) => D!Has(D!by_model)'
        /\ D!Has(D!count_in) => D!Has(D!count_in)'
    BY <2>1, <2>2 DEF D!Has
  <2>4. (\A k \in D!Kinds : v5.recent[k] \in D!Samples(D!Dated(k, v5.window)))
          => (\A k \in D!Kinds : v5.recent[k] \in D!Samples(D!Dated(k, v5.window)))'
    BY <2>1, <2>2 DEF D!Kinds
  <2>5. D!HasFound => D!HasFound'
    BY <2>1, <2>3, <2>4 DEF D!HasFound
  <2>6. D!RowTypes' /\ D!ReportTypes'
    BY <2>1 DEF D!ReportInv, D!RowTypes, D!ReportTypes
  <2> QED
    BY <2>1, <2>5, <2>6 DEF D!ReportInv
<1>2. CASE (\E c \in Convs : D!Turn(c)) \/ D!Fail \/ D!Recover
  <2>1. D!Disturb
    BY <1>2 DEF D!Turn, D!Fail, D!Recover
  <2> QED
    BY <1>2, <2>1, RowsStep, CommitsDisturb
<1>3. CASE D!Tick
  <2>1. v5.pc = "unasked" /\ UNCHANGED <<v2, v3, v4, v5>> /\ v1' \in D!Days
    BY <1>3 DEF D!Tick, D!Days, D!ReportInv, D!RowTypes, D!ReportAssumption
  <2>2. D!RowTypes'
    BY <2>1 DEF D!ReportInv, D!RowTypes
  <2>3. D!ReportTypes'
    BY <2>1 DEF D!ReportInv, D!ReportTypes
  <2>4. D!HasFound'
    BY <2>1 DEF D!HasFound
  <2> QED
    BY <2>2, <2>3, <2>4 DEF D!ReportInv
<1>4. CASE D!Ask
  <2>1. D!ReportTypes /\ v5.pc = "unasked" /\ UNCHANGED <<v1, v2, v3, v4>>
    BY <1>4 DEF D!Ask, D!ReportInv
  <2>2. D!RowTypes'
    BY <2>1 DEF D!ReportInv, D!RowTypes
  <2>3. PICK start \in 0..(MaxDay + 1), end \in 0..(MaxDay + 1) :
          \/ v5' = [v5 EXCEPT !.pc = "refused"]
          \/ v5' = D!With([window |-> [start |-> start, end |-> end]],
                         [v5 EXCEPT !.pc = IF v5.asked = "usage" THEN "counts" ELSE "counting"])
    BY <1>4 DEF D!Ask
  <2>4. CASE v5' = [v5 EXCEPT !.pc = "refused"]
    <3>1. /\ DOMAIN v5' = DOMAIN v5 /\ v5'.pc = "refused" /\ v5'.asked = v5.asked
          /\ v5'.disturbed = v5.disturbed
      BY <2>1, <2>4 DEF D!ReportTypes
    <3>2. D!ReportTypes'
      BY <2>1, <3>1 DEF D!ReportTypes, D!Usage, D!Failures
    <3>3. D!HasFound'
      BY <3>1 DEF D!HasFound
    <3> QED
      BY <2>2, <3>2, <3>3 DEF D!ReportInv
  <2>5. CASE v5' = D!With([window |-> [start |-> start, end |-> end]],
                 [v5 EXCEPT !.pc = IF v5.asked = "usage" THEN "counts" ELSE "counting"])
    <3> DEFINE next == IF v5.asked = "usage" THEN "counts" ELSE "counting"
               found == [window |-> [start |-> start, end |-> end]]
               r == [v5 EXCEPT !.pc = next]
    <3>1. DOMAIN found = {"window"} /\ found["window"] = [start |-> start, end |-> end]
      OBVIOUS
    <3>2. /\ DOMAIN r = DOMAIN v5 /\ r["pc"] = next
          /\ r["asked"] = v5["asked"] /\ r["disturbed"] = v5["disturbed"]
      BY <2>1 DEF D!ReportTypes
    <3>3. v5' = D!With(found, r)
      BY <2>5
    <3> HIDE DEF found, r
    <3>4. /\ DOMAIN v5' = DOMAIN found \cup DOMAIN r
          /\ \A f \in DOMAIN found \cup DOMAIN r : v5'[f] = IF f \in DOMAIN found THEN found[f] ELSE r[f]
      BY <3>3 DEF D!With
    <3>5. {"pc", "asked", "preview", "disturbed"} \subseteq DOMAIN r
      BY <2>1, <3>2 DEF D!ReportTypes
    <3>6. /\ v5'["window"] = [start |-> start, end |-> end] /\ "window" \in DOMAIN v5'
          /\ v5'["pc"] = next /\ v5'["asked"] = v5["asked"] /\ v5'["disturbed"] = v5["disturbed"]
          /\ {"pc", "asked", "preview", "disturbed"} \subseteq DOMAIN v5'
      BY <3>1, <3>2, <3>4, <3>5
    <3>7. v5'.window \in [start : Nat, end : Nat]
      BY <3>6 DEF D!ReportAssumption
    <3>8. next \in {"counts", "counting"} /\ (next = "counts" <=> v5.asked = "usage")
      OBVIOUS
    <3>9. v5.asked \in {"usage", "failures"} /\ v5.disturbed \in BOOLEAN
      BY <2>1 DEF D!ReportTypes, D!Asked
    <3> HIDE DEF next
    <3>10. D!ReportTypes'
      BY <3>6, <3>7, <3>8, <3>9 DEF D!ReportTypes, D!Usage, D!Failures, D!Asked
    <3>11. D!HasFound'
      BY <3>6, <3>8 DEF D!HasFound
    <3> QED
      BY <2>2, <3>10, <3>11 DEF D!ReportInv
  <2> QED
    BY <2>3, <2>4, <2>5
<1>5. CASE D!Counts \/ D!Totals \/ D!Daily \/ D!ByChannel \/ D!ByModel
  BY <1>5, UsageStep
<1>6. CASE D!Counting \/ D!Sampling
  BY <1>6, FailuresStep
<1>7. CASE D!Finished
  BY <1>1, <1>7 DEF D!Finished
<1> QED
  BY <1>1, <1>2, <1>3, <1>4, <1>5, <1>6, <1>7 DEF D!Next

(* Nothing is asked in the beginning.                                      *)
LEMMA ReportStart ==
  ASSUME D!ReportAssumption, D!Init PROVE D!ReportInv
<1>1. /\ v1 = 0 /\ v2 = [c \in Convs |-> [started |-> D!None, escalated |-> D!None]]
      /\ v3 = <<>> /\ v4 = {}
  BY DEF D!Init
<1>2. PICK asked \in D!Asked, preview \in BOOLEAN :
        v5 = [pc |-> "unasked", asked |-> asked, preview |-> preview, disturbed |-> FALSE]
  BY DEF D!Init
<1>3. D!IsFiniteSet(v4)
  BY <1>1, ReportCounts, FS_EmptySet
<1>4. v2 \in [Convs -> D!ConvRow]
  BY <1>1 DEF D!ConvRow
<1>5. D!RowTypes
  BY <1>1, <1>3, <1>4 DEF D!RowTypes, D!Days, D!ReportAssumption
<1>6. D!ReportTypes
  BY <1>2 DEF D!ReportTypes, D!Usage, D!Failures
<1>7. D!HasFound
  BY <1>2 DEF D!HasFound
<1> QED
  BY <1>5, <1>6, <1>7 DEF D!ReportInv

-----------------------------------------------------------------------------
(* Pulls.  The pages of an endpoint that stands still follow each other,   *)
(* in every style of pagination that says where the next one begins.       *)

(* A walk over records: it begins with what there is and passes over some. *)
WalkStep(walk, start, items, void, bound, n) ==
  IF n = 0 THEN start
  ELSE IF Len(walk[n - 1]) >= bound \/ items[n] \in void THEN walk[n - 1]
  ELSE Append(walk[n - 1], items[n])

Walk(walk, start, items, void, bound, upto) ==
  walk = [n \in upto |-> WalkStep(walk, start, items, void, bound, n)]

(* There is such a walk.                                                   *)
LEMMA WalkExists ==
  ASSUME NEW start, NEW items, NEW void, NEW bound, NEW len \in Nat
  PROVE  \E walk : Walk(walk, start, items, void, bound, 0..len)
<1> DEFINE S == {k \in 0..len : \E walk : Walk(walk, start, items, void, bound, 0..k)}
<1>1. ASSUME NEW k \in 0..len, 0..(k - 1) \subseteq S PROVE k \in S
  <2>1. CASE k = 0
    <3> DEFINE w == [n \in 0..k |-> start]
    <3>1. \A n \in 0..k : WalkStep(w, start, items, void, bound, n) = start
      BY <2>1 DEF WalkStep
    <3>2. Walk(w, start, items, void, bound, 0..k)
      BY <3>1 DEF Walk
    <3> QED
      BY <3>2
  <2>2. CASE k # 0
    <3>1. k - 1 \in 0..(k - 1) /\ k - 1 \in Nat /\ 0..(k - 1) \subseteq 0..k
      BY <2>2
    <3>2. PICK v : Walk(v, start, items, void, bound, 0..(k - 1))
      BY <1>1, <3>1
    <3> DEFINE last == WalkStep(v, start, items, void, bound, k)
               w == [n \in 0..k |-> IF n = k THEN last ELSE v[n]]
    <3> HIDE DEF last
    <3>3. \A n \in 0..(k - 1) : w[n] = v[n]
      BY <3>1
    <3>4. \A n \in 0..(k - 1) : v[n] = WalkStep(v, start, items, void, bound, n)
      BY <3>2 DEF Walk
    <3>5. ASSUME NEW n \in 0..k
          PROVE  WalkStep(w, start, items, void, bound, n)
                   = WalkStep(v, start, items, void, bound, n)
      <4>1. n # 0 => w[n - 1] = v[n - 1]
        BY <3>3
      <4> QED
        BY <4>1 DEF WalkStep
    <3>6. \A n \in 0..k : w[n] = WalkStep(w, start, items, void, bound, n)
      <4> TAKE n \in 0..k
      <4>1. CASE n = k
        BY <3>5, <4>1 DEF last
      <4>2. CASE n # k
        <5>1. n \in 0..(k - 1)
          BY <4>2
        <5> QED
          BY <3>3, <3>4, <3>5, <5>1
      <4> QED
        BY <4>1, <4>2
    <3>7. w = [n \in 0..k |-> w[n]]
      OBVIOUS
    <3> HIDE DEF w
    <3>8. Walk(w, start, items, void, bound, 0..k)
      BY <3>6, <3>7 DEF Walk
    <3> QED
      BY <3>8
  <2> QED
    BY <2>1, <2>2
<1> HIDE DEF S
<1>2. 0..len \subseteq S
  BY <1>1, Induction
<1> QED
  BY <1>2 DEF S

(* The records of a page are taken by such a walk.                         *)
LEMMA TakenWalks ==
  ASSUME NEW page, Len(page) \in Nat
  PROVE  \E walk : /\ Walk(walk, v4.records, page, v3, MaxRecords, 0..Len(page))
                   /\ P!Taken(page) = walk[Len(page)]
<1> DEFINE w == CHOOSE walk : Walk(walk, v4.records, page, v3, MaxRecords, 0..Len(page))
<1>1. Walk(w, v4.records, page, v3, MaxRecords, 0..Len(page))
  BY WalkExists
<1>2. P!Taken(page) = w[Len(page)]
  BY DEF P!Taken, P!Full, Walk, WalkStep
<1> QED
  BY <1>1, <1>2

(* What is indexable of the first records is a walk without a bound.       *)
IndexStep(g, items, void, n) ==
  IF n = 0 THEN <<>>
  ELSE IF items[n] \in void THEN g[n - 1]
  ELSE Append(g[n - 1], items[n])

Index(g, items, void) == g = [n \in 0..Len(items) |-> IndexStep(g, items, void, n)]

(* So it exists.                                                           *)
LEMMA IndexExists ==
  ASSUME NEW Items, NEW items \in Seq(Items), NEW void
  PROVE  \E g : Index(g, items, void)
<1> DEFINE len == Len(items)
<1>1. len \in Nat /\ \A n \in 1..len : items[n] \in Items
  OBVIOUS
<1>2. PICK w : Walk(w, <<>>, items, void, len, 0..len)
  BY <1>1, WalkExists
<1>3. \A n \in 0..len : w[n] = WalkStep(w, <<>>, items, void, len, n)
  BY <1>2 DEF Walk
<1> HIDE DEF len
<1> DEFINE S == {n \in 0..len : w[n] \in Seq(Items) /\ Len(w[n]) <= n}
<1>4. ASSUME NEW n \in 0..len, 0..(n - 1) \subseteq S PROVE n \in S
  <2>1. CASE n = 0
    <3>1. w[n] = <<>>
      BY <1>3, <2>1 DEF WalkStep
    <3>2. <<>> \in Seq(Items) /\ Len(<<>>) = 0
      OBVIOUS
    <3>3. w[n] \in Seq(Items) /\ Len(w[n]) <= n
      BY <2>1, <3>1, <3>2
    <3> QED
      BY <3>3
  <2>2. CASE n # 0
    <3>1. n - 1 \in 0..(n - 1) /\ n \in 1..len
      BY <2>2
    <3>2. w[n - 1] \in Seq(Items) /\ Len(w[n - 1]) <= n - 1 /\ items[n] \in Items
      BY <1>1, <1>4, <3>1 DEF len
    <3>3. w[n] \in {w[n - 1], Append(w[n - 1], items[n])}
      BY <1>3, <2>2 DEF WalkStep
    <3>4. /\ Append(w[n - 1], items[n]) \in Seq(Items)
          /\ Len(Append(w[n - 1], items[n])) = Len(w[n - 1]) + 1
          /\ Len(w[n - 1]) \in Nat
      BY <3>2
    <3>5. w[n] \in Seq(Items) /\ Len(w[n]) <= n
      <4>1. CASE w[n] = w[n - 1]
        BY <3>2, <3>4, <4>1
      <4>2. CASE w[n] = Append(w[n - 1], items[n])
        BY <3>2, <3>4, <4>2
      <4> QED
        BY <3>3, <4>1, <4>2
    <3> QED
      BY <3>5
  <2> QED
    BY <2>1, <2>2
<1>5. 0..len \subseteq S
  <2> HIDE DEF S
  <2> QED
    BY <1>1, <1>4, Induction
<1>6. \A n \in 0..len : w[n] = IndexStep(w, items, void, n)
  <2> TAKE n \in 0..len
  <2>1. CASE n = 0
    BY <1>3, <2>1 DEF WalkStep, IndexStep
  <2>2. CASE n # 0
    <3>1. n - 1 \in 0..len /\ n - 1 \in Nat /\ n - 1 < len /\ len \in Nat
      BY <1>1, <2>2
    <3>2. Len(w[n - 1]) <= n - 1 /\ Len(w[n - 1]) \in Nat
      BY <1>5, <3>1
    <3>3. ~(Len(w[n - 1]) >= len)
      BY <3>1, <3>2
    <3> QED
      BY <1>3, <2>2, <3>3 DEF WalkStep, IndexStep
  <2> QED
    BY <2>1, <2>2
<1>7. w = [n \in 0..len |-> w[n]]
  BY <1>2 DEF Walk
<1> QED
  BY <1>6, <1>7 DEF Index, len

(* And Indexed is it.                                                      *)
LEMMA IndexedIs ==
  ASSUME P!PullTypes PROVE Index(P!Indexed, v2, v3)
<1>1. \E g : Index(g, v2, v3)
  BY IndexExists DEF P!PullTypes
<1>2. P!Indexed = CHOOSE g : Index(g, v2, v3)
  BY DEF P!Indexed, Index, IndexStep
<1> QED
  BY <1>1, <1>2

(* What is indexable of n records has n of them at the most, and all of    *)
(* them if none is blank.                                                  *)
LEMMA IndexTypes ==
  ASSUME NEW Items, NEW items \in Seq(Items), NEW void, NEW g, Index(g, items, void)
  PROVE  \A n \in 0..Len(items) :
           g[n] \in Seq(Items) /\ Len(g[n]) <= n /\ (void = {} => Len(g[n]) = n)
<1> DEFINE len == Len(items)
<1>1. len \in Nat /\ \A n \in 1..len : items[n] \in Items
  OBVIOUS
<1>2. \A n \in 0..len : g[n] = IndexStep(g, items, void, n)
  BY DEF Index
<1> HIDE DEF len
<1> DEFINE Counted(n) == /\ g[n] \in Seq(Items)
                         /\ Len(g[n]) <= n
                         /\ void = {} => Len(g[n]) = n
           S == {n \in 0..len : Counted(n)}
<1>3. ASSUME NEW n \in 0..len, 0..(n - 1) \subseteq S PROVE n \in S
  <2>1. CASE n = 0
    <3>1. g[n] = <<>>
      BY <1>2, <2>1 DEF IndexStep
    <3>2. <<>> \in Seq(Items) /\ Len(<<>>) = 0
      OBVIOUS
    <3>3. Counted(n)
      BY <2>1, <3>1, <3>2
    <3> QED
      BY <3>3
  <2>2. CASE n # 0
    <3>1. n - 1 \in 0..(n - 1) /\ n \in 1..len
      BY <2>2
    <3>2. Counted(n - 1) /\ items[n] \in Items
      <4> HIDE DEF Counted
      <4> QED
        BY <1>1, <1>3, <3>1
    <3>3. g[n] = IF items[n] \in void THEN g[n - 1] ELSE Append(g[n - 1], items[n])
      BY <1>2, <2>2 DEF IndexStep
    <3>4. /\ Append(g[n - 1], items[n]) \in Seq(Items)
          /\ Len(Append(g[n - 1], items[n])) = Len(g[n - 1]) + 1
          /\ Len(g[n - 1]) \in Nat
      BY <3>2
    <3>5. CASE items[n] \in void
      <4>1. Counted(n)
        BY <3>2, <3>3, <3>4, <3>5
      <4> QED
        BY <4>1
    <3>6. CASE items[n] \notin void
      <4>1. Counted(n)
        BY <3>2, <3>3, <3>4, <3>6
      <4> QED
        BY <4>1
    <3> QED
      BY <3>5, <3>6
  <2> QED
    BY <2>1, <2>2
<1>4. 0..len \subseteq S
  <2> HIDE DEF S
  <2> QED
    BY <1>1, <1>3, Induction
<1>5. \A n \in 0..len : Counted(n)
  <2> HIDE DEF Counted
  <2> QED
    BY <1>4
<1> QED
  BY <1>5 DEF len

(* What is indexable of some of the records is the beginning of what is    *)
(* indexable of more.                                                      *)
LEMMA IndexGrows ==
  ASSUME NEW items \in Seq(Records), NEW void, NEW g, Index(g, items, void),
         NEW i \in 0..Len(items)
  PROVE  P!IsPrefix(g[i], g[Len(items)])
<1> DEFINE len == Len(items)
           Begins(n) == /\ Len(g[i]) <= Len(g[n])
                        /\ \A m \in 1..Len(g[i]) : g[n][m] = g[i][m]
           S == {n \in 0..len : i <= n => Begins(n)}
<1>1. /\ len \in Nat /\ i \in 0..len
      /\ \A n \in 0..len : g[n] \in Seq(Records) /\ Len(g[n]) \in Nat
  BY IndexTypes
<1>2. \A n \in 0..len : g[n] = IndexStep(g, items, void, n)
  BY DEF Index
<1>3. \A n \in 1..len : items[n] \in Records
  OBVIOUS
<1> HIDE DEF len
<1>4. ASSUME NEW n \in 0..len, 0..(n - 1) \subseteq S PROVE n \in S
  <2>1. CASE n <= i
    <3>1. i <= n => n = i
      BY <1>1, <2>1
    <3>2. Begins(i)
      BY <1>1
    <3> HIDE DEF Begins
    <3> QED
      BY <3>1, <3>2
  <2>2. CASE n > i
    <3>1. n - 1 \in 0..(n - 1) /\ n \in 1..len /\ n # 0 /\ i <= n - 1 /\ n - 1 \in 0..len
      BY <1>1, <2>2
    <3>2. Begins(n - 1)
      <4> HIDE DEF Begins
      <4> QED
        BY <1>4, <3>1
    <3>3. g[n] \in {g[n - 1], Append(g[n - 1], items[n])}
      BY <1>2, <3>1 DEF IndexStep
    <3>4. g[n - 1] \in Seq(Records) /\ Len(g[n - 1]) \in Nat /\ Len(g[i]) \in Nat
          /\ items[n] \in Records
      BY <1>1, <1>3, <3>1
    <3>5. /\ Len(Append(g[n - 1], items[n])) = Len(g[n - 1]) + 1
          /\ \A m \in 1..Len(g[n - 1]) : Append(g[n - 1], items[n])[m] = g[n - 1][m]
      BY <3>4
    <3>6. \A m \in 1..Len(g[i]) : m \in 1..Len(g[n - 1])
      BY <3>2, <3>4
    <3>7. CASE g[n] = g[n - 1]
      BY <3>2, <3>7
    <3>8. CASE g[n] = Append(g[n - 1], items[n])
      <4>1. Len(g[i]) <= Len(g[n])
        BY <3>2, <3>4, <3>5, <3>8
      <4>2. \A m \in 1..Len(g[i]) : g[n][m] = g[i][m]
        BY <3>2, <3>5, <3>6, <3>8
      <4> QED
        BY <4>1, <4>2
    <3> QED
      BY <3>3, <3>7, <3>8
  <2> QED
    BY <1>1, <2>1, <2>2
<1>5. 0..len \subseteq S
  <2> HIDE DEF S
  <2> QED
    BY <1>1, <1>4, Induction
<1>6. Begins(len) /\ len \in 0..len
  <2>1. len \in 0..len /\ i <= len
    BY <1>1
  <2> HIDE DEF Begins
  <2> QED
    BY <1>5, <2>1
<1>7. /\ g[i] \in Seq(Records) /\ g[len] \in Seq(Records)
      /\ Len(g[i]) \in Nat /\ Len(g[len]) \in Nat
  BY <1>1, <1>6
<1>8. SubSeq(g[i], 1, Len(g[i])) = SubSeq(g[len], 1, Len(g[i]))
  BY <1>6, <1>7
<1> QED
  BY <1>6, <1>8 DEF P!IsPrefix, len

(* Whatever the endpoint answers, what is taken stays within the bound.    *)
LEMMA TakenIsBounded ==
  ASSUME P!PullAssumption, P!PullTypes, Len(v4.records) <= MaxRecords,
         NEW page \in Seq(Records)
  PROVE  P!Taken(page) \in Seq(Records) /\ Len(P!Taken(page)) <= MaxRecords
<1> DEFINE len == Len(page)
<1>1. len \in Nat /\ MaxRecords \in Nat /\ \A n \in 1..len : page[n] \in Records
  BY DEF P!PullAssumption
<1>2. PICK w : /\ Walk(w, v4.records, page, v3, MaxRecords, 0..len)
               /\ P!Taken(page) = w[len]
  BY TakenWalks
<1>3. \A n \in 0..len : w[n] = WalkStep(w, v4.records, page, v3, MaxRecords, n)
  BY <1>2 DEF Walk
<1>4. v4.records \in Seq(Records)
  BY DEF P!PullTypes, P!Pull
<1> HIDE DEF len
<1> DEFINE Bounded(n) == w[n] \in Seq(Records) /\ Len(w[n]) <= MaxRecords
           S == {n \in 0..len : Bounded(n)}
<1>5. ASSUME NEW n \in 0..len, 0..(n - 1) \subseteq S PROVE n \in S
  <2>1. CASE n = 0
    <3>1. w[n] = v4.records
      BY <1>3, <2>1 DEF WalkStep
    <3> QED
      BY <1>4, <3>1
  <2>2. CASE n # 0
    <3>1. n - 1 \in 0..(n - 1) /\ n \in 1..len
      BY <2>2
    <3>2. Bounded(n - 1) /\ page[n] \in Records
      <4> HIDE DEF Bounded
      <4> QED
        BY <1>1, <1>5, <3>1
    <3>3. w[n] = IF Len(w[n - 1]) >= MaxRecords \/ page[n] \in v3 THEN w[n - 1]
                 ELSE Append(w[n - 1], page[n])
      BY <1>3, <2>2 DEF WalkStep
    <3>4. /\ Append(w[n - 1], page[n]) \in Seq(Records)
          /\ Len(Append(w[n - 1], page[n])) = Len(w[n - 1]) + 1
          /\ Len(w[n - 1]) \in Nat
      BY <3>2
    <3>5. CASE w[n] = w[n - 1]
      BY <3>2, <3>5
    <3>6. CASE w[n] = Append(w[n - 1], page[n]) /\ ~(Len(w[n - 1]) >= MaxRecords)
      <4>1. Bounded(n)
        BY <1>1, <3>2, <3>4, <3>6
      <4> QED
        BY <4>1
    <3> QED
      BY <3>3, <3>5, <3>6
  <2> QED
    BY <2>1, <2>2
<1>6. 0..len \subseteq S
  <2> HIDE DEF S
  <2> QED
    BY <1>1, <1>5, Induction
<1>7. len \in 0..len
  BY <1>1
<1> QED
  BY <1>2, <1>6, <1>7

(* And a page that begins where what is taken ends adds what is indexable  *)
(* of it, unless the bound ends it before.                                 *)
LEMMA PageIsTaken ==
  ASSUME P!PullAssumption, P!PullTypes, NEW k \in 0..Len(v2), NEW e \in k..Len(v2),
         v4.records = P!Indexed[k]
  PROVE  \E i \in 0..Len(v2) :
           /\ P!Taken(SubSeq(v2, k + 1, e)) = P!Indexed[i]
           /\ ~P!Full(P!Taken(SubSeq(v2, k + 1, e))) => i = e
<1> DEFINE page == SubSeq(v2, k + 1, e)
           len == Len(page)
           all == Len(v2)
           g == P!Indexed
<1>1. v2 \in Seq(Records) /\ all \in Nat /\ k \in 0..all /\ e \in k..all
  BY DEF P!PullTypes
<1>2. /\ len = e - k /\ len \in Nat
      /\ \A n \in 1..len : page[n] = v2[k + n] /\ k + n \in 1..all
  BY <1>1
<1>3. PICK w : /\ Walk(w, v4.records, page, v3, MaxRecords, 0..len)
               /\ P!Taken(page) = w[len]
  BY <1>2, TakenWalks
<1> HIDE DEF page, all
<1>4. \A n \in 0..len : w[n] = WalkStep(w, v4.records, page, v3, MaxRecords, n)
  BY <1>3 DEF Walk
<1>5. \A n \in 0..all : g[n] = IndexStep(g, v2, v3, n)
  BY IndexedIs DEF Index, all
<1>6. MaxRecords \in Nat
  BY DEF P!PullAssumption
<1> HIDE DEF len, g
<1> DEFINE Follows(n) == \E i \in 0..(k + n) :
                           w[n] = g[i] /\ (Len(w[n]) >= MaxRecords \/ i = k + n)
           S == {n \in 0..len : Follows(n)}
<1>7. ASSUME NEW n \in 0..len, 0..(n - 1) \subseteq S PROVE n \in S
  <2>1. CASE n = 0
    <3>1. w[n] = g[k] /\ k \in 0..(k + n) /\ k = k + n
      BY <1>1, <1>4, <2>1 DEF WalkStep, g
    <3>2. Follows(n)
      BY <3>1
    <3> QED
      BY <3>2
  <2>2. CASE n # 0
    <3>1. /\ n - 1 \in 0..(n - 1) /\ n \in 1..len /\ k + n \in 1..all
          /\ page[n] = v2[k + n] /\ k + n # 0 /\ (k + n) - 1 = k + (n - 1)
      BY <1>1, <1>2, <2>2
    <3>2. Follows(n - 1)
      <4> HIDE DEF Follows
      <4> QED
        BY <1>7, <3>1
    <3>3. w[n] = IF Len(w[n - 1]) >= MaxRecords \/ page[n] \in v3 THEN w[n - 1]
                 ELSE Append(w[n - 1], page[n])
      BY <1>4, <2>2 DEF WalkStep
    <3>4. g[k + n] = IF v2[k + n] \in v3 THEN g[k + (n - 1)]
                     ELSE Append(g[k + (n - 1)], v2[k + n])
      <4>1. k + n \in 0..all
        BY <3>1
      <4> QED
        BY <1>5, <3>1, <4>1 DEF IndexStep
    <3>5. PICK i \in 0..(k + (n - 1)) :
            w[n - 1] = g[i] /\ (Len(w[n - 1]) >= MaxRecords \/ i = k + (n - 1))
      BY <3>2
    <3>6. i \in 0..(k + n) /\ k + n \in 0..(k + n)
      BY <1>1, <3>1
    <3>7. CASE Len(w[n - 1]) >= MaxRecords
      <4>1. w[n] = g[i] /\ Len(w[n]) >= MaxRecords
        BY <3>3, <3>5, <3>7
      <4>2. Follows(n)
        BY <3>6, <4>1
      <4> QED
        BY <4>2
    <3>8. CASE ~(Len(w[n - 1]) >= MaxRecords)
      <4>1. w[n] = g[k + n]
        BY <3>1, <3>3, <3>4, <3>5, <3>8
      <4>2. Follows(n)
        BY <3>6, <4>1
      <4> QED
        BY <4>2
    <3> QED
      BY <3>7, <3>8
  <2> QED
    BY <2>1, <2>2
<1>8. 0..len \subseteq S
  <2> HIDE DEF S
  <2> QED
    BY <1>2, <1>7, Induction
<1>9. Follows(len)
  <2>1. len \in 0..len
    BY <1>2
  <2> HIDE DEF Follows
  <2> QED
    BY <1>8, <2>1
<1>10. k + len = e
  BY <1>1, <1>2
<1>11. PICK i \in 0..e : w[len] = g[i] /\ (Len(w[len]) >= MaxRecords \/ i = e)
  BY <1>9, <1>10
<1>12. i \in 0..all
  BY <1>1
<1> QED
  BY <1>3, <1>11, <1>12 DEF P!Full, page, all, g

(* The lesser of two numbers.                                              *)
LEMMA LesserOfTwo ==
  ASSUME NEW a \in Nat, NEW b \in Nat
  PROVE  P!Min({a, b}) = IF a <= b THEN a ELSE b
<1> DEFINE m == IF a <= b THEN a ELSE b
<1>1. m \in {a, b} /\ \A y \in {a, b} : m <= y
  OBVIOUS
<1>2. \A x : x \in {a, b} /\ (\A y \in {a, b} : x <= y) => x = m
  OBVIOUS
<1> HIDE DEF m
<1>3. (CHOOSE x \in {a, b} : \A y \in {a, b} : x <= y) = m
  BY <1>1, <1>2
<1> QED
  BY <1>3 DEF P!Min, m

(* Records to skip: there are no more than the endpoint has.               *)
Cap(n) == IF n <= Len(v2) THEN n ELSE Len(v2)

(* What the endpoint answers to a request for what follows n records.      *)
LEMMA FromIs ==
  ASSUME P!PullAssumption, P!PullTypes, NEW n \in Nat
  PROVE  /\ P!From(n) \in Seq(Records)
         /\ Cap(n) \in 0..Len(v2) /\ Cap(n + PageSize) \in Cap(n)..Len(v2)
         /\ P!From(n) = SubSeq(v2, Cap(n) + 1, Cap(n + PageSize))
         /\ P!From(n) = <<>> => Cap(n) = Len(v2)
<1> DEFINE all == Len(v2)
<1>1. /\ v2 \in Seq(Records) /\ all \in Nat /\ PageSize \in Nat /\ PageSize > 0
      /\ \A i \in 1..all : v2[i] \in Records
  BY DEF P!PullTypes, P!PullAssumption
<1>2. P!From(n) = SubSeq(v2, n + 1, Cap(n + PageSize))
  <2>1. n + PageSize \in Nat
    BY <1>1
  <2> QED
    BY <1>1, <2>1, LesserOfTwo DEF P!From, Cap
<1>3. Cap(n) \in 0..all /\ Cap(n + PageSize) \in Cap(n)..all
  BY <1>1 DEF Cap
<1>4. CASE n <= all
  <2>1. Cap(n) = n
    BY <1>4 DEF Cap
  <2>2. P!From(n) \in Seq(Records) /\ Len(P!From(n)) = Cap(n + PageSize) - n
    BY <1>1, <1>2, <1>3, <2>1
  <2>3. P!From(n) = <<>> => Cap(n + PageSize) = n
    BY <1>1, <1>3, <2>1, <2>2
  <2>4. Cap(n + PageSize) = n => n = all
    BY <1>1, <1>4 DEF Cap
  <2> QED
    BY <1>2, <1>3, <2>1, <2>2, <2>3, <2>4
<1>5. CASE n > all
  <2>1. Cap(n) = all /\ Cap(n + PageSize) = all
    BY <1>1, <1>5 DEF Cap
  <2>2. SubSeq(v2, n + 1, all) = <<>> /\ SubSeq(v2, all + 1, all) = <<>>
    BY <1>1, <1>5
  <2>3. <<>> \in Seq(Records)
    OBVIOUS
  <2> QED
    BY <1>2, <1>3, <2>1, <2>2, <2>3
<1> QED
  BY <1>1, <1>4, <1>5

(* The pull is of the kind the invariant speaks of.                        *)
Steady == v5 = 0 /\ v1 # "link" /\ (v1 = "offset" => v3 = {})

(* The next page, of an endpoint that stands still.                        *)
LEMMA PageIs ==
  ASSUME P!PullAssumption, P!PullInv, v4.pc = "fetch"
  PROVE  /\ P!Page \in Seq(Records) /\ P!next_cursor \in Nat
         /\ Steady =>
              /\ P!Reached \in 0..Len(v2)
              /\ \E e \in P!Reached..Len(v2) :
                   /\ P!Page = SubSeq(v2, P!Reached + 1, e)
                   /\ P!Page = <<>> => P!Reached = Len(v2)
                   /\ v1 = "none" => e = Len(v2)
                   /\ v1 = "cursor" => IF P!next_cursor = 0 THEN e = Len(v2)
                                       ELSE e = P!next_cursor
                   /\ v1 = "page" => e = Cap((v4.pages + 1) * PageSize)
<1> DEFINE all == Len(v2)
<1>1. /\ P!PullTypes /\ v2 \in Seq(Records) /\ all \in Nat
      /\ PageSize \in Nat /\ PageSize > 0 /\ MaxPages \in Nat
      /\ v4.records \in Seq(Records) /\ v4.pages \in Nat /\ v4.cursor \in Nat
      /\ v1 \in P!Styles
  BY DEF P!PullInv, P!PullTypes, P!PullAssumption, P!Pull
<1>2. Steady => P!Reached \in 0..all
  BY DEF Steady, P!PullInv, P!Walks
<1>3. P!next_cursor \in Nat
  BY <1>1 DEF P!next_cursor
<1>4. CASE v1 = "none"
  <2>1. P!Page = v2 /\ P!Reached = 0
    BY <1>4 DEF P!Page, P!Reached
  <2>2. /\ v2 = SubSeq(v2, 0 + 1, all) /\ all \in 0..all
        /\ v2 = <<>> => 0 = all
    BY <1>1
  <2>3. P!Page \in Seq(Records) /\ P!next_cursor \in Nat
    BY <1>1, <1>3, <2>1
  <2>4. /\ P!Page = SubSeq(v2, P!Reached + 1, all) /\ all \in P!Reached..all
        /\ P!Page = <<>> => P!Reached = all
    BY <2>1, <2>2
  <2>5. v1 # "cursor" /\ v1 # "page"
    BY <1>4
  <2> HIDE DEF all
  <2> QED
    BY <1>2, <2>3, <2>4, <2>5 DEF all
<1>5. CASE v1 = "page"
  <2> DEFINE before == v4.pages * PageSize
             after == (v4.pages + 1) * PageSize
  <2>1. before \in Nat /\ after = before + PageSize
    BY <1>1
  <2>2. P!Page = P!From(before)
    <3>1. P!PageAsked = v4.pages + 1 /\ P!PageAsked # 0 /\ P!PageAsked - 1 = v4.pages
      BY <1>1 DEF P!PageAsked
    <3>2. P!Page = P!From((IF P!PageAsked = 0 THEN 0 ELSE P!PageAsked - 1) * PageSize)
      BY <1>5 DEF P!Page
    <3> HIDE DEF P!Page
    <3> QED
      BY <3>1, <3>2
  <2>3. P!Reached = P!Min({before, all})
    BY <1>5 DEF P!Reached
  <2> HIDE DEF before, after
  <2>4. P!Reached = Cap(before)
    BY <1>1, <2>1, <2>3, LesserOfTwo DEF Cap
  <2>5. /\ P!From(before) \in Seq(Records)
        /\ Cap(before + PageSize) \in Cap(before)..all
        /\ P!From(before) = SubSeq(v2, Cap(before) + 1, Cap(before + PageSize))
        /\ P!From(before) = <<>> => Cap(before) = all
    BY <1>1, <2>1, FromIs
  <2>6. Cap(before + PageSize) = Cap(after)
    BY <2>1
  <2> QED
    BY <1>2, <1>3, <1>5, <2>2, <2>4, <2>5, <2>6 DEF after
<1>6. CASE v1 = "offset"
  <2> DEFINE before == Len(v4.records)
  <2>1. before \in Nat /\ P!Page = P!From(before) /\ P!Reached = before
    BY <1>1, <1>6 DEF P!Page, P!Reached
  <2> HIDE DEF before
  <2>2. /\ P!From(before) \in Seq(Records)
        /\ Cap(before + PageSize) \in Cap(before)..all
        /\ P!From(before) = SubSeq(v2, Cap(before) + 1, Cap(before + PageSize))
        /\ P!From(before) = <<>> => Cap(before) = all
    BY <1>1, <2>1, FromIs
  <2>3. before \in 0..all => Cap(before) = before
    BY <1>1 DEF Cap
  <2> QED
    BY <1>2, <1>3, <1>6, <2>1, <2>2, <2>3
<1>7. CASE v1 = "cursor"
  <2> DEFINE before == v4.cursor
  <2>1. before \in Nat /\ P!Page = P!From(before) /\ P!Reached = before
    BY <1>1, <1>7 DEF P!Page, P!Reached
  <2>2. P!next_cursor = IF before + PageSize < all THEN before + PageSize ELSE 0
    BY DEF P!next_cursor
  <2> HIDE DEF before
  <2>3. /\ P!From(before) \in Seq(Records)
        /\ Cap(before + PageSize) \in Cap(before)..all
        /\ P!From(before) = SubSeq(v2, Cap(before) + 1, Cap(before + PageSize))
        /\ P!From(before) = <<>> => Cap(before) = all
    BY <1>1, <2>1, FromIs
  <2>4. before \in 0..all => Cap(before) = before
    BY <1>1 DEF Cap
  <2>5. IF P!next_cursor = 0 THEN Cap(before + PageSize) = all
        ELSE Cap(before + PageSize) = P!next_cursor
    BY <1>1, <2>1, <2>2 DEF Cap
  <2> QED
    BY <1>2, <1>3, <1>7, <2>1, <2>3, <2>4, <2>5
<1>8. CASE v1 = "link"
  <2>1. P!Page = P!From(0)
    BY <1>8 DEF P!Page
  <2>2. P!From(0) \in Seq(Records)
    BY <1>1, FromIs
  <2> QED
    BY <1>3, <1>8, <2>1, <2>2 DEF Steady
<1> QED
  BY <1>1, <1>4, <1>5, <1>6, <1>7, <1>8 DEF P!Styles

(* A pull goes on or ends as the fetch of a page says.                     *)
LEMMA FetchStep ==
  ASSUME P!PullAssumption, P!PullInv, P!Fetch
  PROVE  P!PullInv'
<1> DEFINE taken == P!Taken(P!Page)
           all == Len(v2)
<1>1. /\ P!PullTypes /\ v4.pc = "fetch" /\ v4.pages < MaxPages /\ ~v4.truncated
      /\ v4 \in P!Pull /\ v4.pages \in Nat /\ MaxPages \in Nat /\ MaxRecords \in Nat
      /\ v4.records \in Seq(Records) /\ Len(v4.records) < MaxRecords
      /\ UNCHANGED <<v1, v2, v3, v5>>
  BY DEF P!PullInv, P!PullTypes, P!Fetch, P!PullAssumption, P!Pull, P!Full
<1>2. P!Page \in Seq(Records) /\ P!next_cursor \in Nat
  BY <1>1, PageIs
<1>3. taken \in Seq(Records) /\ Len(taken) \in Nat /\ Len(taken) <= MaxRecords
  BY <1>1, <1>2, TakenIsBounded
<1> DEFINE next == IF v1 = "cursor" THEN P!next_cursor ELSE 0
           Becomes(pc, records, cursor, truncated) ==
             v4' = [pc |-> pc, records |-> records, pages |-> v4.pages + 1,
                    cursor |-> cursor, truncated |-> truncated]
<1> HIDE DEF taken
<1>4. \/ P!Page = <<>> /\ Becomes("done", v4.records, v4.cursor, FALSE)
      \/ P!Page # <<>> /\ P!Full(taken) /\ Becomes("done", taken, v4.cursor, TRUE)
      \/ /\ P!Page # <<>> /\ ~P!Full(taken)
         /\ v1 = "none" \/ (v1 = "cursor" /\ next = 0)
         /\ Becomes("done", taken, v4.cursor, FALSE)
      \/ /\ P!Page # <<>> /\ ~P!Full(taken)
         /\ ~(v1 = "none" \/ (v1 = "cursor" /\ next = 0))
         /\ Becomes("fetch", taken, next, FALSE)
  <2>1. v4' = IF P!Page = <<>> THEN P!Ended
              ELSE IF P!Full(taken)
              THEN [P!Ended EXCEPT !.records = taken, !.truncated = TRUE]
              ELSE IF v1 = "none" \/ (v1 = "cursor" /\ next = 0)
              THEN [P!Ended EXCEPT !.records = taken]
              ELSE [P!Ended EXCEPT !.pc = "fetch", !.records = taken, !.cursor = next]
    BY DEF P!Fetch, taken
  <2>2. v4.truncated = FALSE
    <3>1. v4.truncated \in BOOLEAN
      BY <1>1 DEF P!Pull
    <3> QED
      BY <1>1, <3>1
  <2>3. P!Ended = [pc |-> "done", records |-> v4.records, pages |-> v4.pages + 1,
                   cursor |-> v4.cursor, truncated |-> FALSE]
    <3> DEFINE r == v4.records
               n == v4.pages
               c == v4.cursor
               t == v4.truncated
    <3>1. v4 = [pc |-> "fetch", records |-> r, pages |-> n, cursor |-> c, truncated |-> t]
      BY <1>1 DEF P!Pull
    <3>2. P!Ended = [v4 EXCEPT !.pc = "done", !.pages = n + 1]
      BY DEF P!Ended
    <3>3. t = FALSE
      BY <2>2
    <3> HIDE DEF r, n, c, t
    <3>4. P!Ended = [pc |-> "done", records |-> r, pages |-> n + 1, cursor |-> c,
                     truncated |-> t]
      BY <3>1, <3>2
    <3> QED
      BY <3>3, <3>4 DEF r, n, c
  <2> HIDE DEF next
  <2> QED
    BY <2>1, <2>3
<1>5. next \in Nat /\ v4.cursor \in Nat /\ v4.pages + 1 \in 0..MaxPages
  BY <1>1, <1>2 DEF P!Pull
<1>6. /\ P!PullTypes'
      /\ Len(v4'.records) <= MaxRecords
      /\ v4'.pc = "fetch" => ~P!Full(v4'.records) /\ ~v4'.truncated
  <2> HIDE DEF next
  <2>1. v4' \in P!Pull
    <3>1. ASSUME NEW pc \in {"done", "fetch"}, NEW records \in Seq(Records),
                 NEW cursor \in Nat, NEW truncated \in BOOLEAN,
                 Becomes(pc, records, cursor, truncated)
          PROVE  v4' \in P!Pull
      BY <1>5, <3>1 DEF P!Pull
    <3> HIDE DEF Becomes
    <3> QED
      BY <1>1, <1>3, <1>4, <1>5, <3>1
  <2>2. Len(v4'.records) <= MaxRecords
    BY <1>1, <1>3, <1>4
  <2>3. v4'.pc = "fetch" => ~P!Full(v4'.records) /\ ~v4'.truncated
    BY <1>4
  <2> QED
    BY <1>1, <2>1, <2>2, <2>3 DEF P!PullTypes
<1>7. P!Indexed' = P!Indexed
  BY <1>1 DEF P!Indexed
<1>8. ASSUME Steady PROVE P!Walks'
  <2>1. PICK e \in P!Reached..all :
          /\ P!Page = SubSeq(v2, P!Reached + 1, e)
          /\ P!Page = <<>> => P!Reached = all
          /\ v1 = "none" => e = all
          /\ v1 = "cursor" => IF P!next_cursor = 0 THEN e = all ELSE e = P!next_cursor
          /\ v1 = "page" => e = Cap((v4.pages + 1) * PageSize)
    BY <1>1, <1>8, PageIs
  <2>2. /\ P!Reached \in 0..all /\ v4.records = P!Indexed[P!Reached]
        /\ v2 \in Seq(Records) /\ all \in Nat
    BY <1>1, <1>8 DEF P!PullInv, Steady, P!Walks, P!PullTypes
  <2>3. e \in 0..all
    BY <2>1, <2>2
  <2>4. PICK i \in 0..all : taken = P!Indexed[i] /\ (~P!Full(taken) => i = e)
    BY <1>1, <2>1, <2>2, PageIsTaken DEF taken
  <2>5. CASE v4'.pc = "done"
    <3>1. IF v4'.truncated THEN v4'.records = P!Indexed[i] ELSE v4'.records = P!Indexed[all]
      <4>1. CASE P!Page = <<>> /\ Becomes("done", v4.records, v4.cursor, FALSE)
        BY <2>1, <2>2, <4>1
      <4>2. CASE P!Full(taken) /\ Becomes("done", taken, v4.cursor, TRUE)
        BY <2>4, <4>2
      <4>3. CASE /\ ~P!Full(taken)
                 /\ v1 = "none" \/ (v1 = "cursor" /\ next = 0)
                 /\ Becomes("done", taken, v4.cursor, FALSE)
        BY <2>1, <2>4, <4>3
      <4> QED
        BY <1>4, <2>5, <4>1, <4>2, <4>3
    <3> QED
      BY <1>1, <1>7, <2>4, <2>5, <3>1 DEF P!Walks
  <2>6. CASE v4'.pc = "fetch"
    <3>1. /\ ~P!Full(taken) /\ v1 # "none" /\ (v1 = "cursor" => next # 0)
          /\ v4'.records = taken /\ v4'.pages = v4.pages + 1 /\ v4'.cursor = next
      <4> HIDE DEF next
      <4> QED
        BY <1>4, <2>6
    <3>2. v4'.records = P!Indexed[e]
      BY <2>4, <3>1
    <3>3. P!Reached' = e
      <4>1. CASE v1 = "page"
        <5> DEFINE after == (v4.pages + 1) * PageSize
        <5>1. after \in Nat
          BY <1>1 DEF P!PullAssumption
        <5>2. P!Reached' = P!Min({after, all})
          <6>1. P!Reached' = P!Min({v4'.pages * PageSize, Len(v2')})
            BY <1>1, <4>1 DEF P!Reached
          <6> QED
            BY <1>1, <3>1, <6>1
        <5> HIDE DEF after
        <5>3. P!Reached' = Cap(after)
          BY <2>2, <5>1, <5>2, LesserOfTwo DEF Cap
        <5> QED
          BY <2>1, <4>1, <5>3 DEF after
      <4>2. CASE v1 = "offset"
        <5>1. P!Reached' = Len(v4'.records)
          BY <1>1, <4>2 DEF P!Reached
        <5>2. Index(P!Indexed, v2, v3) /\ v3 = {}
          BY <1>1, <1>8, <4>2, IndexedIs DEF Steady
        <5>3. Len(P!Indexed[e]) = e
          BY <2>2, <2>3, <5>2, IndexTypes
        <5> QED
          BY <3>2, <5>1, <5>3
      <4>3. CASE v1 = "cursor"
        <5>1. P!Reached' = v4'.cursor
          BY <1>1, <4>3 DEF P!Reached
        <5> QED
          BY <2>1, <3>1, <4>3, <5>1
      <4> QED
        BY <1>1, <1>8, <3>1, <4>1, <4>2, <4>3 DEF Steady, P!PullTypes, P!Styles
    <3> QED
      BY <1>1, <1>7, <2>3, <2>6, <3>2, <3>3 DEF P!Walks
  <2> QED
    BY <1>4, <2>5, <2>6
<1>9. Steady' <=> Steady
  BY <1>1 DEF Steady
<1>10. P!Full(v4'.records) <=> P!Full(v4.records)'
  BY DEF P!Full
<1> QED
  BY <1>1, <1>6, <1>8, <1>9, <1>10 DEF P!PullInv, Steady

(* Every step keeps the invariant.                                         *)
LEMMA PullStep ==
  ASSUME P!PullAssumption, P!PullInv, [P!Next]_(P!vars)
  PROVE  P!PullInv'
<1>1. /\ P!PullTypes /\ v4 \in P!Pull /\ v5 \in Nat
      /\ MaxPages \in Nat /\ MaxRecords \in Nat /\ MaxRecords > 0
  BY DEF P!PullInv, P!PullTypes, P!PullAssumption
<1>2. CASE UNCHANGED P!vars \/ P!Finished
  <2>1. UNCHANGED <<v1, v2, v3, v4, v5>>
    BY <1>2 DEF P!vars, P!Finished
  <2>2. P!Indexed' = P!Indexed /\ P!Reached' = P!Reached
    BY <2>1 DEF P!Indexed, P!Reached
  <2>3. P!Walks => P!Walks'
    BY <2>1, <2>2 DEF P!Walks
  <2>4. P!PullTypes'
    BY <1>1, <2>1 DEF P!PullTypes
  <2> QED
    BY <2>1, <2>3, <2>4 DEF P!PullInv, P!Full
<1>3. CASE P!Truncate
  <2>1. /\ v4' = [v4 EXCEPT !.pc = "done", !.truncated = TRUE]
        /\ v4.pc = "fetch" /\ UNCHANGED <<v1, v2, v3, v5>>
    BY <1>3 DEF P!Truncate
  <2>2. /\ v4' \in P!Pull /\ v4'.pc = "done" /\ v4'.truncated /\ v4'.records = v4.records
    BY <1>1, <2>1 DEF P!Pull
  <2>3. P!PullTypes'
    BY <1>1, <2>1, <2>2 DEF P!PullTypes
  <2>4. ASSUME Steady PROVE P!Walks'
    <3>1. P!Reached \in 0..Len(v2) /\ v4.records = P!Indexed[P!Reached]
      BY <2>1, <2>4 DEF P!PullInv, Steady, P!Walks
    <3>2. P!Indexed' = P!Indexed
      BY <2>1 DEF P!Indexed
    <3> QED
      BY <2>1, <2>2, <3>1, <3>2 DEF P!Walks
  <2> QED
    BY <2>1, <2>2, <2>3, <2>4 DEF P!PullInv, Steady
<1>4. CASE P!Raise
  <2>1. /\ v4' = [v4 EXCEPT !.pc = "failed", !.records = <<>>]
        /\ UNCHANGED <<v1, v2, v3, v5>>
    BY <1>4 DEF P!Raise
  <2>2. <<>> \in Seq(Records) /\ Len(<<>>) = 0
    OBVIOUS
  <2>3. v4' \in P!Pull /\ v4'.pc = "failed" /\ v4'.records = <<>>
    BY <1>1, <2>1, <2>2 DEF P!Pull
  <2>4. P!PullTypes'
    BY <1>1, <2>1, <2>3 DEF P!PullTypes
  <2>5. Len(v4'.records) <= MaxRecords
    BY <1>1, <2>2, <2>3
  <2>6. P!Walks'
    BY <2>3 DEF P!Walks
  <2> QED
    BY <2>3, <2>4, <2>5, <2>6 DEF P!PullInv
<1>5. CASE P!Change
  <2>1. /\ v5' = v5 + 1 /\ UNCHANGED <<v1, v3, v4>>
        /\ \/ \E r \in Records : v2' = <<r>> \o v2
           \/ \E i \in DOMAIN v2 : v2' = P!RemoveAt(v2, i)
    BY <1>5 DEF P!Change
  <2>2. v5' \in Nat /\ v5' # 0
    BY <1>1, <2>1
  <2>3. v2 \in Seq(Records)
    BY <1>1 DEF P!PullTypes
  <2>4. v2' \in Seq(Records)
    <3>1. ASSUME NEW r \in Records PROVE <<r>> \o v2 \in Seq(Records)
      BY <2>3
    <3>2. ASSUME NEW i \in DOMAIN v2 PROVE P!RemoveAt(v2, i) \in Seq(Records)
      <4>1. /\ SubSeq(v2, 1, i - 1) \in Seq(Records)
            /\ SubSeq(v2, i + 1, Len(v2)) \in Seq(Records)
        BY <2>3
      <4> QED
        BY <4>1 DEF P!RemoveAt
    <3> QED
      BY <2>1, <3>1, <3>2
  <2>5. P!PullTypes'
    BY <1>1, <2>1, <2>2, <2>4 DEF P!PullTypes
  <2> QED
    BY <2>1, <2>2, <2>5 DEF P!PullInv, P!Full
<1> QED
  BY <1>2, <1>3, <1>4, <1>5, FetchStep DEF P!Next, P!Step

(* A pull begins with nothing taken.                                       *)
LEMMA PullStart ==
  ASSUME P!PullAssumption, P!Init PROVE P!PullInv
<1>1. /\ v1 \in P!Styles /\ v3 \subseteq Records /\ v5 = 0
      /\ v4 = [pc |-> "fetch", records |-> <<>>, pages |-> 0, cursor |-> 0,
               truncated |-> FALSE]
      /\ PageSize \in Nat /\ MaxPages \in Nat /\ MaxRecords \in Nat /\ MaxRecords > 0
  BY DEF P!Init, P!PullAssumption
<1>2. PICK n \in 0..MaxLength : v2 = [i \in 1..n |-> i]
  BY DEF P!Init
<1>3. v2 \in Seq(Records)
  <2>1. n \in Nat /\ \A i \in 1..n : i \in Records
    BY DEF P!PullAssumption
  <2> QED
    BY <1>2, <2>1
<1>4. <<>> \in Seq(Records) /\ Len(<<>>) = 0
  OBVIOUS
<1>5. v4 \in P!Pull
  BY <1>1, <1>4 DEF P!Pull
<1>6. P!PullTypes
  BY <1>1, <1>3, <1>5 DEF P!PullTypes
<1>7. Len(v2) \in Nat
  BY <1>3
<1>8. Steady => P!Reached = 0
  <2>1. 0 * PageSize = 0
    BY <1>1
  <2>2. v1 = "page" => P!Reached = P!Min({0, Len(v2)})
    BY <1>1, <2>1 DEF P!Reached
  <2>3. P!Min({0, Len(v2)}) = 0
    BY <1>7, LesserOfTwo
  <2>4. v1 \in {"none", "offset", "cursor"} => P!Reached = 0
    BY <1>1, <1>4 DEF P!Reached
  <2> QED
    BY <1>1, <2>2, <2>3, <2>4 DEF Steady, P!Styles
<1>9. P!Indexed[0] = <<>>
  <2>1. Index(P!Indexed, v2, v3)
    BY <1>6, IndexedIs
  <2> QED
    BY <1>7, <2>1 DEF Index, IndexStep
<1>10. Steady => P!Walks
  BY <1>1, <1>7, <1>8, <1>9 DEF P!Walks
<1> QED
  BY <1>1, <1>4, <1>6, <1>10 DEF P!PullInv, P!Full, Steady

(* The invariant says what the property says.                              *)
LEMMA PullEnd ==
  ASSUME P!PullAssumption, P!PullInv
  PROVE  P!PullIsBounded /\ P!UntruncatedIsWhole
<1>1. /\ P!PullTypes /\ v4 \in P!Pull /\ v2 \in Seq(Records)
      /\ MaxPages \in Nat /\ Len(v4.records) <= MaxRecords
  BY DEF P!PullInv, P!PullTypes, P!PullAssumption
<1>2. P!PullIsBounded
  BY <1>1 DEF P!PullIsBounded, P!Pull
<1>3. ASSUME P!Undisturbed, v1 # "link", v1 = "offset" => v3 = {}
      PROVE  IF v4.truncated THEN P!IsPrefix(v4.records, P!Indexable)
             ELSE v4.records = P!Indexable
  <2>1. IF v4.truncated THEN \E n \in 0..Len(v2) : v4.records = P!Indexed[n]
        ELSE v4.records = P!Indexed[Len(v2)]
    BY <1>3 DEF P!PullInv, P!Walks, P!Undisturbed
  <2>2. \A n \in 0..Len(v2) : P!IsPrefix(P!Indexed[n], P!Indexed[Len(v2)])
    BY <1>1, IndexedIs, IndexGrows
  <2> QED
    BY <2>1, <2>2 DEF P!Indexable
<1>4. P!UntruncatedIsWhole
  BY <1>3 DEF P!UntruncatedIsWhole
<1> QED
  BY <1>2, <1>4

-----------------------------------------------------------------------------
(* What the invariants above do not say of the kinds of things.            *)

(* Channel events: who opens and who locks is a message, and what a        *)
(* message locks or tells of is a conversation it has joined.              *)
EventTypes ==
  /\ v2 \in Messages \cup {E!NoOne}
  /\ v3 \in [Conversations -> Messages \cup {E!NoOne}]
  /\ \A m \in Messages : v4[m].pc \in {"lock", "turn", "emit", "commit"} =>
       v4[m].joined \in Conversations
  /\ v5 \subseteq E!Event
  /\ v6 \in 0..MaxEnds

(* A step of m that rewrites its record, and keeps the rest of the kinds.  *)
LEMMA RecordTypes ==
  ASSUME E!Types, EventTypes, NEW m \in Messages, NEW w,
         v4' = [v4 EXCEPT ![m] = w],
         w.pc \in {"lock", "turn", "emit", "commit"} => w.joined \in Conversations
  PROVE  \A n \in Messages : v4'[n].pc \in {"lock", "turn", "emit", "commit"} =>
           v4'[n].joined \in Conversations
BY DEF E!Types, EventTypes

(* Looking for the session, and joining it.                                *)
LEMMA JoinTypes ==
  ASSUME E!Types, EventTypes, NEW m \in Messages,
         E!Look(m) \/ E!Open(m) \/ E!Insert(m) \/ E!Find(m)
  PROVE  EventTypes'
<1>1. /\ UNCHANGED <<v3, v5, v6>> /\ v2' \in Messages \cup {E!NoOne}
      /\ v4 \in [Messages -> E!Known] /\ v4[m].pc \in {"look", "open", "insert", "find"}
  BY DEF E!Look, E!Open, E!Insert, E!Find, E!At, E!Types, EventTypes
<1>2. ASSUME NEW c \in Conversations, NEW made, E!Join(m, c, made) PROVE EventTypes'
  <2> DEFINE w == [v4[m] EXCEPT !.joined = c, !.made = made, !.pc = "lock"]
  <2>1. v4' = [v4 EXCEPT ![m] = w] /\ w.joined = c
    BY <1>1, <1>2 DEF E!Join, E!Known
  <2> HIDE DEF w
  <2> QED
    BY <1>1, <2>1, RecordTypes DEF EventTypes
<1>3. ASSUME NEW pc \in {"insert", "find", "failed"}, v4' = [v4 EXCEPT ![m].pc = pc]
      PROVE  EventTypes'
  <2> DEFINE w == [v4[m] EXCEPT !.pc = pc]
  <2>1. v4' = [v4 EXCEPT ![m] = w] /\ w.pc = pc
    BY <1>1, <1>3 DEF E!Known
  <2> HIDE DEF w
  <2> QED
    BY <1>1, <2>1, RecordTypes DEF EventTypes
<1>4. CASE E!Look(m)
  <2> DEFINE w == [v4[m] EXCEPT !.existing = E!open_session, !.pc = "open"]
  <2>1. v4' = [v4 EXCEPT ![m] = w] /\ w.pc = "open"
    BY <1>1, <1>4 DEF E!Look, E!Known
  <2> HIDE DEF w
  <2> QED
    BY <1>1, <2>1, RecordTypes DEF EventTypes
<1>5. CASE E!Open(m) \/ E!Find(m)
  BY <1>2, <1>3, <1>5, SessionIsActive DEF E!Open, E!Find
<1>6. CASE E!Insert(m)
  BY <1>2, <1>3, <1>6 DEF E!Insert, E!Unused
<1> QED
  BY <1>4, <1>5, <1>6

(* The turn, what it tells and its end.                                    *)
LEMMA TurnTypes ==
  ASSUME E!Types, EventTypes, NEW m \in Messages,
         E!Lock(m) \/ E!Turn(m) \/ E!Emit(m) \/ E!Commit(m) \/ E!Rollback(m)
  PROVE  EventTypes'
<1>1. /\ UNCHANGED v6 /\ v4 \in [Messages -> E!Known]
      /\ v4[m].joined \in Conversations
  BY DEF E!Lock, E!Turn, E!Emit, E!Commit, E!Rollback, E!At, E!Types, EventTypes
<1>2. v2' \in Messages \cup {E!NoOne} /\ v3' \in [Conversations -> Messages \cup {E!NoOne}]
  BY DEF E!Lock, E!Turn, E!Emit, E!Commit, E!Rollback, E!Release, EventTypes
<1>3. v5' \subseteq E!Event
  <2>1. E!Emitted(m) \subseteq E!Event
    BY <1>1 DEF E!Emitted, E!Event, E!EventNames
  <2> QED
    BY <2>1 DEF E!Lock, E!Turn, E!Emit, E!Commit, E!Rollback, EventTypes
<1>4. \A n \in Messages \ {m} : v4'[n] = v4[n]
  BY <1>1 DEF E!Lock, E!Turn, E!Emit, E!Commit, E!Rollback
<1>5. v4'[m].joined = v4[m].joined
  BY <1>1 DEF E!Lock, E!Turn, E!Emit, E!Commit, E!Rollback, E!Known
<1> QED
  BY <1>1, <1>2, <1>3, <1>4, <1>5 DEF EventTypes

(* Every step of a message or an operator.                                 *)
LEMMA EventTypesStep ==
  ASSUME E!EventAssumption, E!EventInv, EventTypes, [E!Next]_(E!vars)
  PROVE  EventTypes'
<1>1. E!Types
  BY DEF E!EventInv
<1>2. ASSUME NEW m \in Messages, E!Step(m) PROVE EventTypes'
  BY <1>1, <1>2, JoinTypes, TurnTypes DEF E!Step
<1>3. ASSUME NEW c \in Conversations, E!End(c) PROVE EventTypes'
  BY <1>3 DEF E!End, EventTypes, E!EventAssumption
<1>4. CASE E!Finished \/ UNCHANGED E!vars
  BY <1>4 DEF E!Finished, E!vars, EventTypes
<1> QED
  BY <1>2, <1>3, <1>4 DEF E!Next

(* Nobody has joined, opened or locked anything at first.                  *)
LEMMA EventTypesStart == ASSUME E!EventAssumption, E!Init PROVE EventTypes
BY DEF E!Init, EventTypes, E!EventAssumption

(* What a message knows is part of EventInv.                               *)
LEMMA EventTypesEnd == ASSUME E!EventInv, EventTypes PROVE E!TypeOK
BY DEF E!EventInv, E!Types, E!Known, EventTypes, E!TypeOK

(* Deliveries: what is to be claimed and what has been claimed are         *)
(* messages of a payload, and the contacts held are contacts.              *)
Understood ==
  {m \in {V!Message(r) : r \in UNION {V!Raws(body) : body \in Bodies}} :
     m.id \in Wamids /\ m.from \in Contacts}

HookTypes(w) ==
  w.claims \in Seq(Understood) /\ w.mine \in Seq(Understood) /\ w.locks \subseteq Contacts
DeliveryTypes == \A h \in Requests : HookTypes(v6[h])

(* A payload is parsed into messages, by induction over what it says.      *)
LEMMA ParsedTypes ==
  ASSUME V!DeliveryAssumption, NEW body \in Bodies
  PROVE  V!Parsed(body.messages) \in Seq(Understood)
<1> DEFINE raws == body.messages
           len == Len(raws)
           all == {V!Message(r) : r \in V!Raws(body)}
           items == [n \in 1..len |-> V!Message(raws[n])]
           void == {m \in all : ~(m.id \in Wamids /\ m.from \in Contacts)}
           Step(g, n) == IF n = 0 THEN <<>>
                         ELSE IF V!IsMessage(raws[n]) THEN Append(g[n - 1], V!Message(raws[n]))
                         ELSE g[n - 1]
<1>1. raws \in Seq(V!Raws(body))
  BY DEF V!DeliveryAssumption
<1>2. len \in Nat /\ \A n \in 1..len : raws[n] \in V!Raws(body)
  BY <1>1
<1> HIDE DEF raws, len
<1>3. items \in Seq(all) /\ Len(items) = len /\ \A n \in 1..len : items[n] = V!Message(raws[n])
  BY <1>2
<1>4. \A n \in 1..len : V!IsMessage(raws[n]) <=> items[n] \notin void
  <2> TAKE n \in 1..len
  <2>1. items[n] = V!Message(raws[n]) /\ items[n] \in all
    BY <1>2
  <2>2. V!Message(raws[n]).id = raws[n].id /\ V!Message(raws[n]).from = raws[n].from
    BY DEF V!Message
  <2> HIDE DEF items, all
  <2> QED
    BY <2>1, <2>2 DEF V!IsMessage
<1> HIDE DEF items, all, void
<1>5. PICK g : Index(g, items, void)
  BY <1>3, IndexExists
<1>6. g = [n \in 0..len |-> Step(g, n)]
  <2>1. \A n \in 0..len : IndexStep(g, items, void, n) = Step(g, n)
    <3> TAKE n \in 0..len
    <3>1. n = 0 \/ n \in 1..len
      BY <1>2
    <3> QED
      BY <1>3, <1>4, <3>1 DEF IndexStep
  <2>2. g = [n \in 0..len |-> IndexStep(g, items, void, n)]
    BY <1>3, <1>5 DEF Index
  <2> QED
    BY <2>1, <2>2
<1> DEFINE f == CHOOSE k : k = [n \in 0..len |-> Step(k, n)]
<1>7. f = [n \in 0..len |-> Step(f, n)]
  <2> HIDE DEF Step
  <2>1. \E k : k = [n \in 0..len |-> Step(k, n)]
    BY <1>6
  <2> QED
    BY <2>1
<1>8. V!Parsed(raws) = f[len]
  BY DEF V!Parsed, len
<1> HIDE DEF f
<1> DEFINE S == {n \in 0..len : f[n] \in Seq(Understood)}
<1>9. ASSUME NEW n \in 0..len, 0..(n - 1) \subseteq S PROVE n \in S
  <2>1. f[n] = Step(f, n)
    BY <1>7
  <2>2. CASE n = 0
    <3>1. f[n] = <<>> /\ <<>> \in Seq(Understood)
      BY <2>1, <2>2
    <3> QED
      BY <3>1
  <2>3. CASE n # 0
    <3>1. n - 1 \in 0..(n - 1) /\ n \in 1..len
      BY <1>2, <2>3
    <3>2. f[n - 1] \in Seq(Understood)
      BY <1>9, <3>1
    <3>3. V!IsMessage(raws[n]) => V!Message(raws[n]) \in Understood
      BY <1>2, <3>1 DEF V!IsMessage, V!Message, Understood
    <3> HIDE DEF raws
    <3>4. f[n] \in Seq(Understood)
      BY <2>1, <2>3, <3>2, <3>3
    <3> QED
      BY <3>4
  <2> QED
    BY <2>2, <2>3
<1>10. 0..len \subseteq S
  <2> HIDE DEF S
  <2> QED
    BY <1>2, <1>9, Induction
<1>11. len \in 0..len
  BY <1>2
<1> QED
  BY <1>8, <1>10, <1>11 DEF raws

(* What is not to be claimed is an empty list.                             *)
LEMMA OverTypes == ASSUME NEW how PROVE HookTypes(V!Over(how))
<1>1. /\ V!Over(how).claims = <<>> /\ V!Over(how).mine = <<>>
      /\ V!Over(how).locks = {}
  BY DEF V!Over
<1>2. <<>> \in Seq(Understood)
  OBVIOUS
<1> QED
  BY <1>1, <1>2 DEF HookTypes

(* A request that goes on.                                                 *)
LEMMA HookTypesStep ==
  ASSUME V!DeliveryInv, DeliveryTypes, NEW h \in Requests, NEW w, HookTypes(w),
         v6' = [v6 EXCEPT ![h] = w]
  PROVE  DeliveryTypes'
<1>1. v6'[h] = w /\ \A g \in Requests \ {h} : v6'[g] = v6[g]
  BY DEF V!DeliveryInv
<1> QED
  BY <1>1 DEF DeliveryTypes, HookTypes

(* A delivery that comes in is parsed.                                     *)
LEMMA PostTypes ==
  ASSUME V!DeliveryAssumption, V!DeliveryInv, DeliveryTypes, NEW h \in Requests, V!Post(h)
  PROVE  DeliveryTypes'
<1>1. PICK body \in Bodies :
        v6' = [v6 EXCEPT ![h] =
          IF ~V!Connected \/ V!Refused(body) THEN V!Over("refused")
          ELSE IF ~body.readable THEN V!Over("answered")
          ELSE [V!Over("receive") EXCEPT !.claims = V!Parsed(body.messages),
                                         !.receipts = body.statuses]]
  BY DEF V!Post
<1> DEFINE o == V!Over("receive")
           w == [o EXCEPT !.claims = V!Parsed(body.messages), !.receipts = body.statuses]
<1>2. w.claims = V!Parsed(body.messages) /\ w.mine = o.mine /\ w.locks = o.locks
  BY DEF V!Over
<1>3. HookTypes(o)
  BY OverTypes
<1> HIDE DEF w, o
<1>4. HookTypes(w)
  BY <1>2, <1>3, ParsedTypes DEF HookTypes
<1>5. \/ v6' = [v6 EXCEPT ![h] = V!Over("refused")]
      \/ v6' = [v6 EXCEPT ![h] = V!Over("answered")]
      \/ v6' = [v6 EXCEPT ![h] = w]
  BY <1>1 DEF w, o
<1> QED
  BY <1>4, <1>5, OverTypes, HookTypesStep

(* A message is taken from what is to be claimed.                          *)
LEMMA RecordTypesStep ==
  ASSUME V!DeliveryInv, DeliveryTypes, NEW h \in Requests, V!RecordInbound(h)
  PROVE  DeliveryTypes'
<1> DEFINE m == Head(v6[h].claims)
           mine == v6[h].mine
           more == IF V!Claimed(h, m.id) THEN mine ELSE Append(mine, m)
           w == [v6[h] EXCEPT !.claims = Tail(@), !.mine = more]
<1>1. /\ v6[h].claims # <<>> /\ DOMAIN v6 = Requests
      /\ v6[h].claims \in Seq(Understood) /\ mine \in Seq(Understood)
      /\ v6[h].locks \subseteq Contacts
  BY DEF V!RecordInbound, V!DeliveryInv, DeliveryTypes, HookTypes
<1>2. m \in Understood /\ Tail(v6[h].claims) \in Seq(Understood)
  BY <1>1
<1>3. more \in Seq(Understood)
  BY <1>1, <1>2
<1>4. {"claims", "mine", "locks"} \subseteq DOMAIN v6[h]
  BY DEF V!DeliveryInv, V!Orderly
<1>5. v6' = [v6 EXCEPT ![h] = w]
  BY <1>1 DEF V!RecordInbound
<1> HIDE DEF more
<1>6. w.claims = Tail(v6[h].claims) /\ w.mine = more /\ w.locks = v6[h].locks
  BY <1>4
<1> HIDE DEF w, mine
<1>7. HookTypes(w)
  BY <1>1, <1>2, <1>3, <1>6 DEF HookTypes
<1> QED
  BY <1>5, <1>7, HookTypesStep

(* A statement that claims nothing more.                                   *)
LEMMA GoesOnTypes ==
  ASSUME V!DeliveryInv, DeliveryTypes, NEW h \in Requests, NEW w,
         w.claims = v6[h].claims, w.mine = v6[h].mine, w.locks \subseteq Contacts,
         v6' = [v6 EXCEPT ![h] = w]
  PROVE  DeliveryTypes'
<1>1. HookTypes(w)
  BY DEF DeliveryTypes, HookTypes
<1> QED
  BY <1>1, HookTypesStep

(* The message whose turn it is comes from a contact.                      *)
LEMMA CurrentContact ==
  ASSUME V!DeliveryInv, DeliveryTypes, NEW h \in Requests, V!At(h, "lock")
  PROVE  V!Current(h).from \in Contacts
<1> DEFINE n == V!DoneBy(v6[h])
<1>1. /\ V!Orderly(v6[h]) /\ v6[h].pc = "lock" /\ v6[h].mine \in Seq(Understood)
      /\ Len(v6[h].mine) \in Nat
  BY DEF V!DeliveryInv, V!At, DeliveryTypes, HookTypes
<1>5. n \in 0..Len(v6[h].mine) /\ n < Len(v6[h].mine)
  BY <1>1 DEF V!Orderly
<1>2. V!Current(h) = v6[h].mine[n + 1]
  BY DEF V!Current, V!DoneBy
<1> HIDE DEF n
<1>3. n + 1 \in 1..Len(v6[h].mine)
  BY <1>1, <1>5
<1>4. v6[h].mine[n + 1] \in Understood
  BY <1>1, <1>3
<1> QED
  BY <1>2, <1>4 DEF Understood

(* Settling a message changes neither.                                     *)
LEMMA SettledKeeps ==
  ASSUME NEW h \in Requests, NEW status, NEW replying \in BOOLEAN,
         {"pc", "claims", "receipts", "mine", "wrote", "turned", "rows", "locks"} = DOMAIN v6[h]
  PROVE  LET s == V!Settle(h, status, replying)
         IN s.claims = v6[h].claims /\ s.mine = v6[h].mine /\ s.locks = v6[h].locks
<1> DEFINE w == [v6[h] EXCEPT !.wrote = V!Marked(v6[h], V!Current(h), status)]
           s == [w EXCEPT !.pc = IF replying THEN "reply" ELSE V!After(h, w)]
<1>1. V!Settle(h, status, replying) = s
  BY DEF V!Settle
<1>2. w.claims = v6[h].claims /\ w.mine = v6[h].mine /\ w.locks = v6[h].locks
  OBVIOUS
<1> HIDE DEF w
<1>3. s.claims = w.claims /\ s.mine = w.mine /\ s.locks = w.locks
  OBVIOUS
<1> QED
  BY <1>1, <1>2, <1>3

(* The statements between the claims and the commit.                       *)
LEMMA StatementTypes ==
  ASSUME V!DeliveryInv, DeliveryTypes, NEW h \in Requests,
         \/ V!ApplyStatus(h) \/ V!Dispatch(h) \/ V!Lock(h) \/ V!Turn(h) \/ V!Reply(h)
  PROVE  DeliveryTypes'
<1>1. /\ {"pc", "claims", "receipts", "mine", "wrote", "turned", "rows", "locks"} = DOMAIN v6[h]
      /\ DOMAIN v6 = Requests /\ v6[h].locks \subseteq Contacts
  BY DEF V!DeliveryInv, V!Orderly, DeliveryTypes, HookTypes
<1>2. CASE V!ApplyStatus(h)
  <2> DEFINE w == [v6[h] EXCEPT !.receipts = Tail(@), !.rows = @ \cup {Head(v6[h].receipts)}]
  <2>1. v6' = [v6 EXCEPT ![h] = w]
    BY <1>1, <1>2 DEF V!ApplyStatus
  <2>2. w.claims = v6[h].claims /\ w.mine = v6[h].mine /\ w.locks = v6[h].locks
    BY <1>1
  <2> HIDE DEF w
  <2> QED
    BY <1>1, <2>1, <2>2, GoesOnTypes
<1>3. CASE V!Dispatch(h) \/ V!Reply(h)
  <2>1. PICK pc : v6' = [v6 EXCEPT ![h].pc = pc]
    BY <1>3 DEF V!Dispatch, V!Reply
  <2> DEFINE w == [v6[h] EXCEPT !.pc = pc]
  <2>2. v6' = [v6 EXCEPT ![h] = w]
    BY <1>1, <2>1
  <2>3. w.claims = v6[h].claims /\ w.mine = v6[h].mine /\ w.locks = v6[h].locks
    BY <1>1
  <2> HIDE DEF w
  <2> QED
    BY <1>1, <2>2, <2>3, GoesOnTypes
<1>4. CASE V!Lock(h)
  <2> DEFINE from == V!Current(h).from
             w == [v6[h] EXCEPT !.pc = "turn", !.locks = @ \cup {from}]
  <2>1. from \in Contacts
    BY <1>4, CurrentContact DEF V!Lock
  <2> HIDE DEF from
  <2>2. v6' = [v6 EXCEPT ![h] = w]
    BY <1>1, <1>4 DEF V!Lock, from
  <2>3. w.claims = v6[h].claims /\ w.mine = v6[h].mine /\ w.locks = v6[h].locks \cup {from}
    BY <1>1
  <2> HIDE DEF w
  <2> QED
    BY <1>1, <2>1, <2>2, <2>3, GoesOnTypes
<1>5. CASE V!Turn(h)
  <2>1. PICK status \in V!Settled :
          v6' = [v6 EXCEPT ![h] = [V!Settle(h, status, status = "processed")
                                     EXCEPT !.turned = @ \cup {V!Current(h).id}]]
    BY <1>5 DEF V!Turn
  <2>2. PICK replying \in BOOLEAN : replying = (status = "processed")
    OBVIOUS
  <2> DEFINE s == V!Settle(h, status, replying)
             w == [s EXCEPT !.turned = @ \cup {V!Current(h).id}]
  <2>3. s.claims = v6[h].claims /\ s.mine = v6[h].mine /\ s.locks = v6[h].locks
    BY <1>1, SettledKeeps
  <2>4. v6' = [v6 EXCEPT ![h] = w]
    BY <2>1, <2>2
  <2> HIDE DEF s
  <2>5. w.claims = s.claims /\ w.mine = s.mine /\ w.locks = s.locks
    OBVIOUS
  <2> HIDE DEF w
  <2> QED
    BY <1>1, <2>3, <2>4, <2>5, GoesOnTypes
<1> QED
  BY <1>2, <1>3, <1>4, <1>5

(* A message is read, and settled or put to a turn.                        *)
LEMMA HandleTypes ==
  ASSUME V!DeliveryInv, DeliveryTypes, NEW h \in Requests, V!HandleInbound(h)
  PROVE  DeliveryTypes'
<1>1. /\ {"pc", "claims", "receipts", "mine", "wrote", "turned", "rows", "locks"} = DOMAIN v6[h]
      /\ DOMAIN v6 = Requests /\ v6[h].locks \subseteq Contacts
  BY DEF V!DeliveryInv, V!Orderly, DeliveryTypes, HookTypes
<1>2. \/ \E status \in V!Settled, replying \in BOOLEAN :
           v6' = [v6 EXCEPT ![h] = V!Settle(h, status, replying)]
      \/ v6' = [v6 EXCEPT ![h].pc = "lock"]
      \/ v6' = [v6 EXCEPT ![h] = V!Over("error")]
  <2>1. "processed" \in V!Settled /\ "failed" \in V!Settled
    BY DEF V!Settled
  <2> QED
    BY <2>1 DEF V!HandleInbound, V!Rollback
<1>3. ASSUME NEW status \in V!Settled, NEW replying \in BOOLEAN,
             v6' = [v6 EXCEPT ![h] = V!Settle(h, status, replying)]
      PROVE  DeliveryTypes'
  <2> DEFINE w == V!Settle(h, status, replying)
  <2>1. w.claims = v6[h].claims /\ w.mine = v6[h].mine /\ w.locks = v6[h].locks
    BY <1>1, SettledKeeps
  <2> HIDE DEF w
  <2>2. v6' = [v6 EXCEPT ![h] = w]
    BY <1>3 DEF w
  <2> QED
    BY <1>1, <2>1, <2>2, GoesOnTypes
<1>4. CASE v6' = [v6 EXCEPT ![h].pc = "lock"]
  <2> DEFINE w == [v6[h] EXCEPT !.pc = "lock"]
  <2>1. v6' = [v6 EXCEPT ![h] = w]
    BY <1>1, <1>4
  <2>2. w.claims = v6[h].claims /\ w.mine = v6[h].mine /\ w.locks = v6[h].locks
    BY <1>1
  <2> HIDE DEF w
  <2> QED
    BY <1>1, <2>1, <2>2, GoesOnTypes
<1>5. CASE v6' = [v6 EXCEPT ![h] = V!Over("error")]
  BY <1>5, OverTypes, HookTypesStep
<1> QED
  BY <1>2, <1>3, <1>4, <1>5

(* Every step of a delivery.                                               *)
LEMMA DeliveryTypesStep ==
  ASSUME V!DeliveryAssumption, V!DeliveryInv, DeliveryTypes, [V!Next]_(V!vars)
  PROVE  DeliveryTypes'
<1>1. ASSUME NEW h \in Requests, V!Commit(h) \/ V!Rollback(h) PROVE DeliveryTypes'
  <2>1. PICK how : v6' = [v6 EXCEPT ![h] = V!Over(how)]
    BY <1>1 DEF V!Commit, V!Rollback
  <2> QED
    BY <2>1, OverTypes, HookTypesStep
<1>2. CASE V!Finished \/ UNCHANGED V!vars
  BY <1>2 DEF V!Finished, V!vars, DeliveryTypes, HookTypes
<1>3. ASSUME NEW h \in Requests, V!Statement(h) PROVE DeliveryTypes'
  BY <1>1, <1>3, RecordTypesStep, StatementTypes, HandleTypes DEF V!Statement, V!BreakDeadlock
<1>4. ASSUME NEW h \in Requests, V!Post(h) \/ V!Crash(h) PROVE DeliveryTypes'
  BY <1>1, <1>4, PostTypes DEF V!Crash
<1> QED
  BY <1>2, <1>3, <1>4 DEF V!Next

(* No request holds anything at first.                                     *)
LEMMA DeliveryTypesStart == ASSUME V!Init PROVE DeliveryTypes
<1>1. \A h \in Requests : v6[h] = V!Over("idle")
  BY DEF V!Init
<1> QED
  BY <1>1, OverTypes DEF DeliveryTypes

(* The rows are part of DeliveryInv.                                       *)
LEMMA DeliveryTypesEnd == ASSUME V!DeliveryInv, DeliveryTypes PROVE V!TypeOK
<1>1. ASSUME NEW h \in Requests PROVE V!Claims(h) \subseteq Wamids /\ v6[h].locks \subseteq Contacts
  <2>1. v6[h].mine \in Seq(Understood) /\ v6[h].locks \subseteq Contacts
    BY DEF DeliveryTypes, HookTypes
  <2>2. \A i \in DOMAIN v6[h].mine : v6[h].mine[i] \in Understood
    BY <2>1
  <2> QED
    BY <2>1, <2>2 DEF V!Claims, Understood
<1> QED
  BY <1>1 DEF V!DeliveryInv, V!Ledgers, V!TypeOK

(* Those of the outbound log, of a pull and of a report are part of their  *)
(* invariants.                                                             *)
LEMMA LogTypes == ASSUME W!LogInv PROVE W!TypeOK
BY DEF W!LogInv, W!Types, W!Reported, W!TypeOK

(* A pull's are.                                                           *)
LEMMA PullsTypes == ASSUME P!PullInv PROVE P!TypeOK
BY DEF P!PullInv, P!PullTypes, P!Pull, P!TypeOK

(* A report's are.                                                         *)
LEMMA ReportRowTypes == ASSUME D!ReportInv PROVE D!TypeOK
<1>1. /\ v1 \in D!Days /\ v2 \in [Convs -> D!ConvRow] /\ v3 \in Seq(D!MessageRow)
      /\ v4 \subseteq D!FailureRow
  BY DEF D!ReportInv, D!RowTypes
<1>2. \A n \in DOMAIN v3 : v3[n] \in D!MessageRow
  BY <1>1
<1>3. \A n \in DOMAIN v3 : v3[n].day \in D!Days /\ v3[n].conv \in Convs
  BY <1>2 DEF D!MessageRow
<1>4. \A c \in Convs : /\ v2[c].started \in D!Days \cup {D!None}
                      /\ v2[c].escalated \in D!Days \cup {D!None}
  BY <1>1 DEF D!ConvRow
<1> QED
  BY <1>1, <1>3, <1>4 DEF D!FailureRow, D!TypeOK

-----------------------------------------------------------------------------
(* The run starts in one part, and that part starts as it does by itself.  *)
LEMMA ChannelsBegin ==
  Init => /\ events => E!Init
          /\ outbound => W!Init
          /\ deliveries => V!Init
          /\ analytics => D!Init
          /\ connector => P!Init
BY DEF Init, agents, sync, retrieval, connector, access, events, outbound, tools, llm,
       analytics, management, deliveries, users

(* A step is one of the part that runs, or leaves its variables alone.     *)
LEMMA ChannelsMove ==
  [Next]_vars =>
    /\ events' <=> events
    /\ events => [E!Next]_(E!vars)
    /\ outbound' <=> outbound
    /\ outbound => [W!Next]_(W!vars)
    /\ deliveries' <=> deliveries
    /\ deliveries => [V!Next]_(V!vars)
    /\ analytics' <=> analytics
    /\ analytics => [D!Next]_(D!vars)
    /\ connector' <=> connector
    /\ connector => [P!Next]_(P!vars)
BY DEF Next, vars, Only_agents, Only_sync, Only_retrieval, Only_connector, Only_access,
       Only_events, Only_outbound, Only_tools, Only_llm, Only_analytics,
       Only_management, Only_deliveries, Only_users, agents, sync, retrieval, connector,
       access, events, outbound, tools, llm, analytics, management, deliveries, users,
       E!vars, W!vars, V!vars, D!vars, P!vars

(* A conversation that a message opened is announced, unless the one it    *)
(* had found open ended before its turn; and one that a committed turn     *)
(* handed over is reported.                                                *)
THEOREM EventsAreAlwaysTold == Spec => []EventsAreTold
<1>1. Init => (events => E!EventInv)
  BY ChannelsBegin, EventsStart
<1>2. (events => E!EventInv) /\ [Next]_vars => (events => E!EventInv)'
  BY ChannelsMove, EventsStep
<1>3. (events => E!EventInv) => EventsAreTold
  BY EventsEnd DEF EventsAreTold
<1> QED
  BY <1>1, <1>2, <1>3, PTL DEF Spec

(* Status, stamps and error of an outbound row agree, and a committed row  *)
(* was sent or has failed, in whichever order receipts come and whatever   *)
(* fails.                                                                  *)
THEOREM LogStaysConsistent == Spec => []LogIsConsistent
<1>1. Init => (outbound => W!LogInv)
  BY ChannelsBegin, LogStart
<1>2. (outbound => W!LogInv) /\ [Next]_vars => (outbound => W!LogInv)'
  BY ChannelsMove, LogStep
<1>3. (outbound => W!LogInv) => LogIsConsistent
  BY LogEnd DEF LogIsConsistent
<1> QED
  BY <1>1, <1>2, <1>3, PTL DEF Spec

(* No receipt takes back a stamp another one set, though both loaded the   *)
(* row before either wrote it.                                             *)
THEOREM StampsAreKept == Spec => StampsStay
<1>1. Init => (outbound => W!LogInv)
  BY ChannelsBegin, LogStart
<1>2. (outbound => W!LogInv) /\ [Next]_vars =>
        (outbound => W!LogInv)' /\ (outbound => W!StampsStayStep)
  BY ChannelsMove, LogStep
<1> QED
  BY <1>1, <1>2, PTL DEF Spec, StampsStay

(* However messages share and repeat in payloads, a message is committed   *)
(* with one turn at most, is answered again only after a roll-back of a    *)
(* transaction that had claimed it, and a reply that has left is on record *)
(* unless that happened, for any number of deliveries.                     *)
THEOREM DeliveriesStaySafe == Spec => []DeliveriesAreSafe
<1>1. Init => (deliveries => V!DeliveryInv)
  BY ChannelsBegin, DeliveryStart
<1>2. (deliveries => V!DeliveryInv) /\ [Next]_vars => (deliveries => V!DeliveryInv)'
  BY ChannelsMove, DeliveryStep
<1>3. (deliveries => V!DeliveryInv) => DeliveriesAreSafe
  BY DeliveryEnd DEF DeliveriesAreSafe
<1> QED
  BY <1>1, <1>2, <1>3, PTL DEF Spec

(* A pull stays within its bounds whatever the endpoint answers and        *)
(* however it changes; and if it stood still, a pull that is not said to   *)
(* be truncated has all of its indexable records, once and in order, and   *)
(* one that is begins like that.  For any page size and bounds.            *)
THEOREM PullsStaySound == Spec => []PullIsSound
<1>1. Init => (connector => P!PullInv)
  BY ConnectorAssumed, ChannelsBegin, PullStart
<1>2. (connector => P!PullInv) /\ [Next]_vars => (connector => P!PullInv)'
  BY ConnectorAssumed, ChannelsMove, PullStep
<1>3. (connector => P!PullInv) => PullIsSound
  BY ConnectorAssumed, PullEnd DEF PullIsSound
<1> QED
  BY <1>1, <1>2, <1>3, PTL DEF Spec

(* Unless something is committed while a report runs, the charts add up to *)
(* the totals and the samples are the newest of what is counted; and two   *)
(* adjacent windows share no message and lose none, for any history of     *)
(* turns and failures.                                                     *)
THEOREM ReportsStayTrue == Spec => []ReportsAddUp
<1>1. Init => (analytics => D!ReportInv)
  BY AnalyticsAssumed, ChannelsBegin, ReportStart
<1>2. (analytics => D!ReportInv) /\ [Next]_vars => (analytics => D!ReportInv)'
  BY AnalyticsAssumed, ChannelsMove, ReportStep
<1>3. (analytics => D!ReportInv) => ReportsAddUp
  BY AnalyticsAssumed, TotalsEnd, WindowsEnd, SamplesEnd DEF ReportsAddUp, D!ReportsAddUp
<1> QED
  BY <1>1, <1>2, <1>3, PTL DEF Spec

(* Everything these components keep is of its kind.                        *)
ChannelKinds ==
  /\ events => E!TypeOK
  /\ outbound => W!TypeOK
  /\ deliveries => V!TypeOK
  /\ connector => P!TypeOK
  /\ analytics => D!TypeOK

(* By the invariants, a component at a time.                              *)
LEMMA ChannelKindsAreKept == Spec => []ChannelKinds
<1>1. Spec => [](events => E!TypeOK)
  <2>1. Init => (events => E!EventInv /\ EventTypes)
    BY EventsAssumed, ChannelsBegin, EventsStart, EventTypesStart
  <2>2. (events => E!EventInv /\ EventTypes) /\ [Next]_vars =>
          (events => E!EventInv /\ EventTypes)'
    BY EventsAssumed, ChannelsMove, EventsStep, EventTypesStep
  <2>3. (events => E!EventInv /\ EventTypes) => (events => E!TypeOK)
    BY EventsAssumed, EventTypesEnd
  <2> QED
    BY <2>1, <2>2, <2>3, PTL DEF Spec
<1>2. Spec => [](outbound => W!TypeOK)
  <2>1. Init => (outbound => W!LogInv)
    BY ChannelsBegin, LogStart
  <2>2. (outbound => W!LogInv) /\ [Next]_vars =>
          (outbound => W!LogInv)'
    BY ChannelsMove, LogStep
  <2>3. (outbound => W!LogInv) => (outbound => W!TypeOK)
    BY LogTypes
  <2> QED
    BY <2>1, <2>2, <2>3, PTL DEF Spec
<1>3. Spec => [](deliveries => V!TypeOK)
  <2>1. Init => (deliveries => V!DeliveryInv /\ DeliveryTypes)
    BY DeliveriesAssumed, ChannelsBegin, DeliveryStart, DeliveryTypesStart
  <2>2. (deliveries => V!DeliveryInv /\ DeliveryTypes) /\ [Next]_vars =>
          (deliveries => V!DeliveryInv /\ DeliveryTypes)'
    BY DeliveriesAssumed, ChannelsMove, DeliveryStep, DeliveryTypesStep
  <2>3. (deliveries => V!DeliveryInv /\ DeliveryTypes) => (deliveries => V!TypeOK)
    BY DeliveriesAssumed, DeliveryTypesEnd
  <2> QED
    BY <2>1, <2>2, <2>3, PTL DEF Spec
<1>4. Spec => [](connector => P!TypeOK)
  <2>1. Init => (connector => P!PullInv)
    BY ConnectorAssumed, ChannelsBegin, PullStart
  <2>2. (connector => P!PullInv) /\ [Next]_vars =>
          (connector => P!PullInv)'
    BY ConnectorAssumed, ChannelsMove, PullStep
  <2>3. (connector => P!PullInv) => (connector => P!TypeOK)
    BY ConnectorAssumed, PullsTypes
  <2> QED
    BY <2>1, <2>2, <2>3, PTL DEF Spec
<1>5. Spec => [](analytics => D!TypeOK)
  <2>1. Init => (analytics => D!ReportInv)
    BY AnalyticsAssumed, ChannelsBegin, ReportStart
  <2>2. (analytics => D!ReportInv) /\ [Next]_vars =>
          (analytics => D!ReportInv)'
    BY AnalyticsAssumed, ChannelsMove, ReportStep
  <2>3. (analytics => D!ReportInv) => (analytics => D!TypeOK)
    BY AnalyticsAssumed, ReportRowTypes
  <2> QED
    BY <2>1, <2>2, <2>3, PTL DEF Spec
<1> QED
  BY <1>1, <1>2, <1>3, <1>4, <1>5, PTL DEF ChannelKinds
=============================================================================
