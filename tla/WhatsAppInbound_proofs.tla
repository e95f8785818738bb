---------------------- MODULE WhatsAppInbound_proofs -----------------------
(***************************************************************************)
(* Proofs about inbound WhatsApp messages: for any number of messages,     *)
(* deliveries, workers, retries and faults, a message is put to the agent  *)
(* at most once, what the ledger has settled stays settled, and a second   *)
(* reply to a message needs a run of it that was lost.                     *)
(*                                                                         *)
(* The argument: a message is in one place at a time, a process or a task, *)
(* and whoever answers it does so while the ledger says it is unanswered.  *)
(***************************************************************************)
EXTENDS WhatsAppInbound, TLAPS

Answering == {"route", "lock", "turn", "send", "commit"}

(* What a process holds where it is: a webhook its uncommitted claim or    *)
(* the task it is to queue, a worker the message of a committed row, which *)
(* is unanswered while the worker answers it.                              *)
Held(p) ==
  /\ pc[p] \in {"idle", "over"} => run[p].msg = NoMessage
  /\ pc[p] \notin {"idle", "over"} => run[p].msg \in Wamids
  /\ pc[p] \in {"send", "commit"} => run[p].wrote \in Settled
  /\ p \in Handlers =>
       /\ pc[p] \in {"idle", "over", "commitClaim", "enqueue"} \cup Answering
       /\ run[p].claimed <=> pc[p] \in {"commitClaim"} \cup Answering
       /\ run[p].claimed => row[run[p].msg] = "none"
       /\ pc[p] = "enqueue" => row[run[p].msg] # "none"
  /\ p \in Workers =>
       /\ pc[p] \in {"idle", "check", "ack", "recordFailure"} \cup Answering
       /\ pc[p] # "idle" => row[run[p].msg] # "none"
       /\ pc[p] \in Answering => row[run[p].msg] = "received"

(* A message is with one process or in one task.                           *)
OnePlace ==
  /\ \A p, q \in Procs :
       run[p].msg = run[q].msg /\ run[p].msg # NoMessage => p = q
  /\ \A task \in queue :
       /\ row[task.msg] # "none"
       /\ \A p \in Procs : run[p].msg # task.msg
       /\ \A other \in queue : other.msg = task.msg => other = task

TurnsAreSettled ==
  \A m \in Wamids : /\ turns[m] \in {0, 1}
                    /\ turns[m] = 1 => row[m] \in Settled

ClaimInv ==
  /\ TypeOK
  /\ \A p \in Procs : Held(p)
  /\ OnePlace
  /\ TurnsAreSettled

-----------------------------------------------------------------------------
(* The initial states satisfy the invariant.                               *)
LEMMA ClaimInit == Init => ClaimInv
<1> SUFFICES ASSUME Init PROVE ClaimInv
  OBVIOUS
<1>1. TypeOK
  BY InboundAssumption DEF Init, TypeOK, Run, NoRun, Labels, Procs
<1>2. ASSUME NEW p \in Procs PROVE Held(p)
  BY InboundAssumption DEF Init, Held, NoRun, Procs, Answering
<1>3. OnePlace
  BY DEF Init, OnePlace, NoRun
<1>4. TurnsAreSettled
  BY DEF Init, TurnsAreSettled
<1> QED
  BY <1>1, <1>2, <1>3, <1>4 DEF ClaimInv

-----------------------------------------------------------------------------
(* What a step of process p may change.                                    *)

(* Nothing of the other processes, and of the ledger only the row and the  *)
(* turns of its own message, which stay in order.                          *)
Own(p) ==
  /\ \A q \in Procs \ {p} : pc'[q] = pc[q] /\ run'[q] = run[q]
  /\ \A m \in Wamids :
       IF m = run[p].msg
       THEN /\ row[m] # "none" => row'[m] # "none"
            /\ turns'[m] \in {0, 1}
            /\ turns'[m] = 1 => row'[m] \in Settled
       ELSE row'[m] = row[m] /\ turns'[m] = turns[m]

(* It keeps its message, lets it go, or hands it over to a new task.       *)
Passes(p) ==
  /\ run'[p].msg \in {run[p].msg, NoMessage}
  /\ \/ queue' \subseteq queue
     \/ /\ run'[p].msg = NoMessage /\ run[p].msg \in Wamids
        /\ row'[run[p].msg] # "none"
        /\ \E task : task.msg = run[p].msg /\ queue' = queue \cup {task}

(* A process is not concerned by another's step.                           *)
LEMMA OthersHeld ==
  ASSUME ClaimInv, NEW p \in Procs, Own(p)
  PROVE  \A q \in Procs \ {p} : Held(q)'
<1> SUFFICES ASSUME NEW q \in Procs \ {p} PROVE Held(q)'
  OBVIOUS
<1>1. Held(q) /\ pc'[q] = pc[q] /\ run'[q] = run[q]
  BY DEF ClaimInv, Own
<1>2. CASE run[q].msg = NoMessage
  <2>1. pc[q] \in {"idle", "over"}
    BY <1>1, <1>2, InboundAssumption DEF Held
  <2> QED
    BY <1>1, <2>1 DEF Held, Answering
<1>3. CASE run[q].msg # NoMessage
  <2>1. run[q].msg \in Wamids
    BY <1>1, <1>3 DEF Held
  <2>2. run[q].msg # run[p].msg
    BY <1>3 DEF ClaimInv, OnePlace
  <2>3. row'[run[q].msg] = row[run[q].msg]
    BY <2>1, <2>2 DEF Own
  <2> QED
    BY <1>1, <2>3 DEF Held
<1> QED
  BY <1>2, <1>3

(* A step that keeps, drops or hands over the process's own message keeps  *)
(* the invariant if it keeps the types and what the process holds.         *)
LEMMA LocalStep ==
  ASSUME ClaimInv, NEW p \in Procs, TypeOK', Held(p)', Own(p), Passes(p)
  PROVE  ClaimInv'
<1>1. \A q \in Procs : Held(q)'
  BY OthersHeld
<1>2. \A m \in Wamids : /\ turns'[m] \in {0, 1}
                        /\ turns'[m] = 1 => row'[m] \in Settled
  BY DEF ClaimInv, TurnsAreSettled, Own
<1>3. \A m \in Wamids : row[m] # "none" => row'[m] # "none"
  BY DEF Own
<1>4. \A q, r \in Procs :
        run'[q].msg = run'[r].msg /\ run'[q].msg # NoMessage => q = r
  BY DEF ClaimInv, OnePlace, Own, Passes
<1>5. \A task \in queue : task.msg \in Wamids
  BY DEF ClaimInv, TypeOK
<1>6. ASSUME NEW task \in queue
      PROVE  row'[task.msg] # "none" /\ \A q \in Procs : run'[q].msg # task.msg
  BY <1>3, <1>5, InboundAssumption DEF ClaimInv, OnePlace, Own, Passes
<1>7. ASSUME NEW task \in queue'
      PROVE  /\ row'[task.msg] # "none"
             /\ \A q \in Procs : run'[q].msg # task.msg
             /\ \A other \in queue' : other.msg = task.msg => other = task
  <2>1. CASE queue' \subseteq queue
    BY <1>6, <2>1 DEF ClaimInv, OnePlace
  <2>2. CASE ~(queue' \subseteq queue)
    <3>1. /\ run'[p].msg = NoMessage /\ run[p].msg \in Wamids
          /\ row'[run[p].msg] # "none"
      BY <2>2 DEF Passes
    <3>2. PICK new : new.msg = run[p].msg /\ queue' = queue \cup {new}
      BY <2>2 DEF Passes
    <3>3. \A old \in queue : old.msg # run[p].msg
      BY DEF ClaimInv, OnePlace
    <3>4. \A q \in Procs : run'[q].msg # run[p].msg
      BY <3>1, InboundAssumption DEF ClaimInv, OnePlace, Own
    <3> QED
      BY <1>6, <3>1, <3>2, <3>3, <3>4 DEF ClaimInv, OnePlace
  <2> QED
    BY <2>1, <2>2
<1> QED
  BY <1>1, <1>2, <1>4, <1>7 DEF ClaimInv, OnePlace, TurnsAreSettled

-----------------------------------------------------------------------------
(* The types.                                                              *)

(* A step of process p to a label, with a new private state and typed      *)
(* values of the rest, keeps the types.                                    *)
LEMMA TypedStep ==
  ASSUME TypeOK, NEW p \in Procs, NEW l \in Labels, NEW r \in Run, Goto(p, l),
         run' = [run EXCEPT ![p] = r], mode' = mode,
         row' \in [Wamids -> Settled \cup {"none", "received"}],
         turns' \in [Wamids -> Nat], replies' \in [Wamids -> Nat],
         abandoned' \in [Wamids -> Nat], dropped' \subseteq Wamids,
         queue' \subseteq [msg : Wamids, retries : 0..MaxRetries],
         lock' \in Procs \cup {NoOne}, faults' \in 0..MaxFaults
  PROVE  TypeOK'
BY DEF TypeOK, Goto

(* The message of a process that is not idle is one of the messages.       *)
LEMMA HasMessage ==
  ASSUME ClaimInv, NEW p \in Procs, pc[p] \notin {"idle", "over"}
  PROVE  /\ run[p] \in Run /\ run[p].msg \in Wamids
         /\ run[p].retries \in 0..MaxRetries
         /\ row[run[p].msg] \in Settled \cup {"none", "received"}
         /\ turns[run[p].msg] \in Nat /\ replies[run[p].msg] \in Nat
         /\ abandoned[run[p].msg] \in Nat
         /\ Unlocked(p) \in Procs \cup {NoOne}
BY DEF ClaimInv, Held, TypeOK, Run, Unlocked

(* A process without a message is of the declared kind.                    *)
LEMMA NoRunIsARun == NoRun \in Run /\ NoRun.msg = NoMessage /\ ~NoRun.claimed
BY InboundAssumption DEF NoRun, Run

-----------------------------------------------------------------------------
(* Handling a message.                                                     *)

(* Routing, locking, running the turn and sending keep the invariant.      *)
LEMMA HandleStep ==
  ASSUME ClaimInv, NEW p \in Procs, Route(p) \/ Lock(p) \/ Turn(p) \/ Send(p)
  PROVE  ClaimInv'
<1>1. pc[p] \in {"route", "lock", "turn", "send"}
  BY DEF Route, Lock, Turn, Send
<1>2. PICK r \in Run, l \in {"lock", "turn", "send", "commit"} :
        /\ run' = [run EXCEPT ![p] = r] /\ Goto(p, l)
        /\ r.msg = run[p].msg /\ r.claimed = run[p].claimed
        /\ l \in {"send", "commit"} => r.wrote \in Settled
  <2>1. TypeOK /\ run[p] \in Run /\ Held(p)
    BY DEF ClaimInv, TypeOK
  <2>2. CASE Route(p)
    <3>1. CASE \E status \in Settled, l \in {"send", "commit"} :
                 run' = [run EXCEPT ![p].wrote = status] /\ Goto(p, l)
      BY <2>1, <3>1 DEF Run, TypeOK
    <3>2. CASE Goto(p, "lock") /\ UNCHANGED run
      BY <2>1, <3>2 DEF TypeOK
    <3> QED
      BY <2>2, <3>1, <3>2 DEF Route, Settled
  <2>3. CASE Turn(p)
    <3>1. PICK status \in Settled :
            /\ run' = [run EXCEPT ![p].wrote = status, ![p].turned = TRUE]
            /\ Goto(p, IF status = "processed" THEN "send" ELSE "commit")
      BY <2>3 DEF Turn
    <3> DEFINE r == [run[p] EXCEPT !.wrote = status, !.turned = TRUE]
    <3>2. run' = [run EXCEPT ![p] = r]
      BY <3>1
    <3>3. /\ r \in Run /\ r.msg = run[p].msg /\ r.claimed = run[p].claimed
          /\ r.wrote \in Settled
      BY <2>1 DEF Run
    <3> HIDE DEF r
    <3> QED
      BY <3>1, <3>2, <3>3
  <2>4. CASE Lock(p)
    BY <2>1, <2>4 DEF Lock, TypeOK
  <2>5. CASE Send(p)
    BY <2>1, <2>5 DEF Send, TypeOK, Held
  <2> QED
    BY <2>2, <2>3, <2>4, <2>5
<1>3. /\ UNCHANGED <<mode, row, turns, abandoned, dropped, queue, faults>>
      /\ lock' \in Procs \cup {NoOne}
      /\ replies' \in [Wamids -> Nat]
  BY <1>1, HasMessage DEF Route, Lock, Turn, Send, ledger, ClaimInv, TypeOK
<1>4. TypeOK'
  BY <1>2, <1>3, TypedStep DEF ClaimInv, TypeOK, Labels
<1>5. Held(p)'
  BY <1>1, <1>2, <1>3, InboundAssumption
     DEF ClaimInv, TypeOK, Held, Goto, Answering, Procs
<1>6. Own(p)
  BY <1>2, <1>3 DEF ClaimInv, TypeOK, TurnsAreSettled, Own, Goto
<1>7. Passes(p)
  BY <1>2, <1>3 DEF ClaimInv, TypeOK, Passes
<1> QED
  BY <1>4, <1>5, <1>6, <1>7, LocalStep

(* Committing a turn keeps the invariant: the message was unanswered.      *)
LEMMA CommitStep ==
  ASSUME ClaimInv, NEW p \in Procs, Commit(p)
  PROVE  ClaimInv'
<1> DEFINE m == run[p].msg
<1>1. /\ pc[p] = "commit" /\ Held(p) /\ TypeOK
      /\ run[p].wrote \in Settled /\ m \in Wamids /\ run[p] \in Run
  BY DEF Commit, ClaimInv, Held, TypeOK
<1>2. /\ row' = [row EXCEPT ![m] = run[p].wrote]
      /\ \/ turns' = [turns EXCEPT ![m] = @ + 1] \/ turns' = turns
      /\ UNCHANGED <<mode, replies, abandoned, dropped, queue, faults>>
  BY DEF Commit
<1>3. row[m] \in {"none", "received"}
  BY <1>1 DEF Held, Procs, Answering
<1>4. turns[m] = 0
  BY <1>1, <1>3 DEF ClaimInv, TurnsAreSettled, Settled
<1>5. PICK r \in {run[p], NoRun}, l \in {"ack", "over"} :
        /\ run' = [run EXCEPT ![p] = r] /\ Goto(p, l)
        /\ p \in Workers => r = run[p] /\ l = "ack"
        /\ p \notin Workers => r = NoRun /\ l = "over"
  <2>1. CASE p \in Workers
    BY <1>1, <2>1 DEF Commit, TypeOK
  <2>2. CASE p \notin Workers
    BY <2>2 DEF Commit
  <2> QED
    BY <2>1, <2>2
<1>6. lock' \in Procs \cup {NoOne}
  BY <1>1 DEF Commit, Unlocked, TypeOK
<1>7. TypeOK'
  <2>1. r \in Run
    BY <1>1, NoRunIsARun
  <2>2. row' \in [Wamids -> Settled \cup {"none", "received"}]
    BY <1>1, <1>2 DEF TypeOK
  <2>3. turns' \in [Wamids -> Nat]
    BY <1>1, <1>2 DEF TypeOK
  <2> QED
    BY <1>1, <1>2, <1>5, <1>6, <2>1, <2>2, <2>3, TypedStep DEF TypeOK, Labels
<1>8. Held(p)'
  <2>1. pc'[p] = l /\ run'[p] = r
    BY <1>1, <1>5 DEF TypeOK, Goto
  <2>2. row'[m] # "none"
    BY <1>1, <1>2 DEF TypeOK, Settled
  <2>3. CASE p \in Workers
    BY <1>1, <1>5, <2>1, <2>2, <2>3, InboundAssumption DEF Held, Answering
  <2>4. CASE p \notin Workers
    BY <1>5, <2>1, <2>4, NoRunIsARun DEF Held, Answering
  <2> QED
    BY <2>3, <2>4
<1>9. Own(p)
  BY <1>1, <1>2, <1>4, <1>5
     DEF ClaimInv, TypeOK, TurnsAreSettled, Own, Goto, Settled
<1>10. Passes(p)
  BY <1>1, <1>2, <1>5, NoRunIsARun DEF TypeOK, Passes
<1> QED
  BY <1>7, <1>8, <1>9, <1>10, LocalStep

-----------------------------------------------------------------------------
(* The webhook.                                                            *)

(* A claim that nobody else has keeps the invariant.                       *)
LEMMA RecordStep ==
  ASSUME ClaimInv, NEW h \in Handlers, RecordInbound(h)
  PROVE  ClaimInv'
<1>1. h \in Procs /\ TypeOK /\ Held(h) /\ pc[h] = "idle" /\ run[h] \in Run
  BY DEF RecordInbound, ClaimInv, Procs, TypeOK
<1>2. UNCHANGED <<mode, row, turns, replies, abandoned, dropped, queue, lock,
                  faults>>
  BY DEF RecordInbound, ledger
<1>3. PICK m \in Wamids :
        /\ ~Contended(h, m)
        /\ IF Seen(m)
           THEN Goto(h, "over") /\ UNCHANGED run
           ELSE /\ Goto(h, IF mode = "inline" THEN "route" ELSE "commitClaim")
                /\ run' = [run EXCEPT ![h].msg = m, ![h].claimed = TRUE]
  BY DEF RecordInbound
<1>4. CASE Seen(m)
  <2>1. TypeOK'
    BY <1>1, <1>2, <1>3, <1>4 DEF TypeOK, Goto, Labels
  <2>2. Held(h)'
    BY <1>1, <1>2, <1>3, <1>4, InboundAssumption
       DEF Held, TypeOK, Goto, Answering, Procs
  <2>3. Own(h) /\ Passes(h)
    BY <1>1, <1>2, <1>3, <1>4
       DEF ClaimInv, TypeOK, TurnsAreSettled, Own, Passes, Goto
  <2> QED
    BY <1>1, <2>1, <2>2, <2>3, LocalStep
<1>5. CASE ~Seen(m)
  <2> DEFINE r == [run[h] EXCEPT !.msg = m, !.claimed = TRUE]
  <2>1. /\ r \in Run /\ r.msg = m /\ r.claimed
        /\ run' = [run EXCEPT ![h] = r]
    BY <1>1, <1>3, <1>5 DEF Run
  <2> HIDE DEF r
  <2>2. PICK l \in {"route", "commitClaim"} : Goto(h, l)
    BY <1>3, <1>5
  <2>3. TypeOK'
    BY <1>1, <1>2, <2>1, <2>2, TypedStep DEF TypeOK, Labels
  <2>4. row[m] = "none"
    BY <1>5 DEF Seen
  <2>5. Held(h)'
    BY <1>1, <1>2, <2>1, <2>2, <2>4, InboundAssumption
       DEF Held, TypeOK, Goto, Answering, Procs
  <2>6. \A q \in Procs : run[q].msg # m
    <3> SUFFICES ASSUME NEW q \in Procs, run[q].msg = m PROVE FALSE
      OBVIOUS
    <3>1. Held(q) /\ pc[q] \notin {"idle", "over"}
      BY InboundAssumption DEF ClaimInv, Held
    <3>2. q \notin Workers
      BY <2>4, <3>1 DEF Held
    <3>3. q \in Handlers /\ q # h
      BY <1>1, <3>1, <3>2 DEF Procs
    <3>4. run[q].claimed
      BY <2>4, <3>1, <3>3 DEF Held
    <3> QED
      BY <1>3, <3>3, <3>4 DEF Contended
  <2>7. \A q \in Procs \ {h} : pc'[q] = pc[q] /\ run'[q] = run[q]
    BY <1>1, <2>1, <2>2 DEF TypeOK, Goto
  <2>8. \A q \in Procs : Held(q)'
    BY <1>2, <2>5, <2>7 DEF ClaimInv, Held
  <2>9. run'[h].msg = m
    BY <1>1, <2>1 DEF TypeOK
  <2>10. \A task \in queue : task.msg # m
    BY <2>4 DEF ClaimInv, OnePlace
  <2>11. OnePlace'
    BY <1>2, <2>6, <2>7, <2>9, <2>10 DEF ClaimInv, OnePlace
  <2> QED
    BY <1>2, <2>3, <2>8, <2>11 DEF ClaimInv, TurnsAreSettled
<1> QED
  BY <1>4, <1>5

(* Committing the claim and queueing the task keep the invariant.          *)
LEMMA DispatchStep ==
  ASSUME ClaimInv, NEW h \in Handlers, CommitClaim(h) \/ Enqueue(h)
  PROVE  ClaimInv'
<1> DEFINE m == run[h].msg
<1>1. h \in Procs /\ TypeOK /\ Held(h) /\ run[h] \in Run /\ m \in Wamids
  BY DEF CommitClaim, Enqueue, ClaimInv, Procs, TypeOK, Held
<1>2. CASE CommitClaim(h)
  <2> DEFINE r == [run[h] EXCEPT !.claimed = FALSE]
  <2>1. r \in Run /\ r.msg = m /\ ~r.claimed /\ run' = [run EXCEPT ![h] = r]
    BY <1>1, <1>2 DEF CommitClaim, Run
  <2> HIDE DEF r
  <2>2. /\ pc[h] = "commitClaim" /\ Goto(h, "enqueue")
        /\ row' = [row EXCEPT ![m] = "received"]
        /\ UNCHANGED <<mode, turns, replies, abandoned, dropped, queue, lock,
                       faults>>
    BY <1>2 DEF CommitClaim
  <2>3. row[m] = "none"
    BY <1>1, <2>2 DEF Held
  <2>4. turns[m] = 0
    BY <1>1, <2>3 DEF ClaimInv, TurnsAreSettled, Settled
  <2>5. TypeOK'
    BY <1>1, <2>1, <2>2, TypedStep DEF TypeOK, Labels
  <2>6. Held(h)'
    BY <1>1, <2>1, <2>2, InboundAssumption
       DEF Held, TypeOK, Goto, Answering, Procs
  <2>7. Own(h) /\ Passes(h)
    BY <1>1, <2>1, <2>2, <2>4
       DEF ClaimInv, TypeOK, TurnsAreSettled, Own, Passes, Goto
  <2> QED
    BY <1>1, <2>5, <2>6, <2>7, LocalStep
<1>3. CASE Enqueue(h)
  <2>1. /\ pc[h] = "enqueue" /\ Goto(h, "over")
        /\ run' = [run EXCEPT ![h] = NoRun]
        /\ queue' = queue \/ queue' = queue \cup {Task(h)}
        /\ UNCHANGED <<mode, row, turns, replies, abandoned, dropped, lock,
                       faults>>
    BY <1>3 DEF Enqueue, ledger
  <2>2. Task(h) \in [msg : Wamids, retries : 0..MaxRetries] /\ Task(h).msg = m
    BY <1>1 DEF Task, Run
  <2>3. row[m] # "none"
    BY <1>1, <2>1 DEF Held
  <2>4. TypeOK'
    BY <1>1, <2>1, <2>2, NoRunIsARun, TypedStep DEF TypeOK, Labels
  <2>5. pc'[h] = "over" /\ run'[h] = NoRun
    BY <1>1, <2>1 DEF TypeOK, Goto
  <2>6. Held(h)'
    BY <2>5, NoRunIsARun, InboundAssumption DEF Held, Answering
  <2>7. Own(h)
    BY <1>1, <2>1 DEF ClaimInv, TypeOK, TurnsAreSettled, Own, Goto
  <2>8. Passes(h)
    BY <1>1, <2>1, <2>2, <2>3, <2>5, NoRunIsARun DEF Passes
  <2> QED
    BY <1>1, <2>4, <2>6, <2>7, <2>8, LocalStep
<1> QED
  BY <1>2, <1>3

-----------------------------------------------------------------------------
(* Letting a message go.                                                   *)

(* A process that drops its message without touching the ledger's rows,    *)
(* or leaves a task for it, keeps the invariant.                           *)
LEMMA ReleaseStep ==
  ASSUME ClaimInv, NEW p \in Procs, TypeOK',
         run' = [run EXCEPT ![p] = NoRun],
         \/ p \in Handlers /\ Goto(p, "over")
         \/ p \in Workers /\ Goto(p, "idle"),
         row' = row, turns' = turns,
         \/ queue' \subseteq queue
         \/ \E task : /\ task.msg = run[p].msg /\ queue' = queue \cup {task}
                      /\ run[p].msg \in Wamids /\ row[run[p].msg] # "none"
  PROVE  ClaimInv'
<1>1. TypeOK
  BY DEF ClaimInv
<1>2. /\ run'[p] = NoRun
      /\ p \in Handlers => pc'[p] = "over"
      /\ p \in Workers => pc'[p] = "idle"
  BY <1>1, InboundAssumption DEF TypeOK, Goto
<1>3. Held(p)'
  BY <1>2, NoRunIsARun, InboundAssumption DEF Held, Answering, Procs
<1>4. Own(p)
  BY <1>1 DEF ClaimInv, TypeOK, TurnsAreSettled, Own, Goto
<1>5. Passes(p)
  BY <1>2, NoRunIsARun DEF Passes
<1> QED
  BY <1>3, <1>4, <1>5, LocalStep

(* A request that dies or raises keeps the invariant.                      *)
LEMMA InterruptStep ==
  ASSUME ClaimInv, NEW h \in Handlers, Interrupt(h)
  PROVE  ClaimInv'
<1>1. /\ h \in Procs /\ TypeOK /\ run[h] \in Run /\ run[h].msg \in Wamids
      /\ Unlocked(h) \in Procs \cup {NoOne}
  BY HasMessage DEF Interrupt, ClaimInv, Procs
<1>2. abandoned' \in [Wamids -> Nat]
  BY <1>1 DEF Interrupt, TypeOK
<1>3. TypeOK'
  BY <1>1, <1>2, NoRunIsARun, TypedStep DEF Interrupt, TypeOK, Labels
<1>4. /\ run' = [run EXCEPT ![h] = NoRun] /\ Goto(h, "over")
      /\ row' = row /\ turns' = turns
  BY DEF Interrupt
<1>5. queue' \subseteq queue
  BY DEF Interrupt
<1> QED
  BY <1>1, <1>3, <1>4, <1>5, ReleaseStep

(* What Abandon changes keeps its kind.                                    *)
LEMMA AbandonTyped ==
  ASSUME ClaimInv, NEW w \in Workers, pc[w] # "idle", Abandon(w)
  PROVE  /\ faults' \in 0..MaxFaults
         /\ abandoned' \in [Wamids -> Nat]
         /\ lock' \in Procs \cup {NoOne}
<1>1. w \in Procs /\ Held(w) /\ TypeOK
  BY DEF ClaimInv, Procs
<1>2. pc[w] \notin {"idle", "over"}
  BY <1>1 DEF Held, Answering
<1>3. run[w].msg \in Wamids /\ Unlocked(w) \in Procs \cup {NoOne}
  BY <1>1, <1>2, HasMessage
<1> QED
  BY <1>1, <1>3, InboundAssumption DEF Abandon, TypeOK

(* A worker's task is a task for its message, whose row is committed.      *)
LEMMA TaskOfWorker ==
  ASSUME ClaimInv, NEW w \in Workers, pc[w] # "idle"
  PROVE  /\ w \in Procs /\ TypeOK /\ Held(w) /\ run[w] \in Run
         /\ pc[w] \in Labels \ {"idle", "over"}
         /\ run[w].msg \in Wamids /\ row[run[w].msg] # "none"
         /\ run[w].retries \in 0..MaxRetries
         /\ Task(w) \in [msg : Wamids, retries : 0..MaxRetries]
         /\ Task(w).msg = run[w].msg
<1>1. w \in Procs /\ TypeOK /\ Held(w)
  BY DEF ClaimInv, Procs
<1>2. pc[w] \in Labels \ {"idle", "over"} /\ row[run[w].msg] # "none"
  BY <1>1 DEF Held, Answering, TypeOK
<1>3. run[w] \in Run /\ run[w].msg \in Wamids /\ run[w].retries \in 0..MaxRetries
  BY <1>1, <1>2, HasMessage
<1> QED
  BY <1>1, <1>2, <1>3 DEF Task

(* A worker that acknowledges, dies or is killed keeps the invariant.      *)
LEMMA WorkerEndsStep ==
  ASSUME ClaimInv, NEW w \in Workers, Ack(w) \/ Crash(w) \/ Kill(w)
  PROVE  ClaimInv'
<1>1. pc[w] # "idle"
  BY DEF Ack, Crash, Kill, InTransaction
<1>2. /\ run' = [run EXCEPT ![w] = NoRun] /\ Goto(w, "idle")
      /\ row' = row /\ turns' = turns /\ mode' = mode /\ replies' = replies
      /\ dropped' \in {dropped, dropped \cup {run[w].msg}}
      /\ queue' \in {queue, queue \cup {Task(w)}}
  BY DEF Ack, Crash, Kill, ledger, Redelivered
<1>3. /\ faults' \in 0..MaxFaults /\ abandoned' \in [Wamids -> Nat]
      /\ lock' \in Procs \cup {NoOne}
  <2>1. CASE Ack(w)
    BY <2>1 DEF Ack, ledger, ClaimInv, TypeOK
  <2>2. CASE Crash(w) \/ Kill(w)
    BY <1>1, <2>2, AbandonTyped DEF Crash, Kill
  <2> QED
    BY <2>1, <2>2
<1>4. TypeOK'
  BY <1>1, <1>2, <1>3, TaskOfWorker, NoRunIsARun, TypedStep DEF TypeOK, Labels
<1> QED
  BY <1>1, <1>2, <1>4, TaskOfWorker, ReleaseStep

-----------------------------------------------------------------------------
(* The worker.                                                             *)

(* Taking a task from the queue keeps the invariant.                       *)
LEMMA TakeStep ==
  ASSUME ClaimInv, NEW w \in Workers, Take(w)
  PROVE  ClaimInv'
<1>1. w \in Procs /\ TypeOK /\ Held(w) /\ pc[w] = "idle" /\ run[w] \in Run
  BY DEF Take, ClaimInv, Procs, TypeOK
<1>2. UNCHANGED <<mode, row, turns, replies, abandoned, dropped, lock, faults>>
  BY DEF Take, ledger
<1>3. PICK task \in queue :
        /\ queue' = queue \ {task}
        /\ run' = [run EXCEPT ![w].msg = task.msg, ![w].retries = task.retries]
  BY DEF Take
<1>4. task.msg \in Wamids /\ task.retries \in 0..MaxRetries
  BY <1>1 DEF TypeOK
<1> DEFINE r == [run[w] EXCEPT !.msg = task.msg, !.retries = task.retries]
<1>5. r \in Run /\ r.msg = task.msg /\ run' = [run EXCEPT ![w] = r]
  BY <1>1, <1>3, <1>4 DEF Run
<1> HIDE DEF r
<1>6. Goto(w, "check")
  BY DEF Take
<1>7. TypeOK'
  BY <1>1, <1>2, <1>3, <1>5, <1>6, TypedStep DEF TypeOK, Labels
<1>8. row[task.msg] # "none" /\ \A q \in Procs : run[q].msg # task.msg
  BY DEF ClaimInv, OnePlace
<1>9. pc'[w] = "check" /\ run'[w] = r
  BY <1>1, <1>5, <1>6 DEF TypeOK, Goto
<1>10. \A q \in Procs \ {w} : pc'[q] = pc[q] /\ run'[q] = run[q]
  BY <1>1, <1>5, <1>6 DEF TypeOK, Goto
<1>11. Held(w)'
  BY <1>2, <1>4, <1>5, <1>8, <1>9, InboundAssumption DEF Held, Answering
<1>12. \A q \in Procs : Held(q)'
  BY <1>2, <1>10, <1>11 DEF ClaimInv, Held
<1>13. OnePlace'
  <2>1. OnePlace
    BY DEF ClaimInv
  <2>2. run'[w].msg = task.msg /\ \A q \in Procs \ {w} : run'[q].msg = run[q].msg
    BY <1>5, <1>9, <1>10
  <2>3. \A p, q \in Procs :
          run'[p].msg = run'[q].msg /\ run'[p].msg # NoMessage => p = q
    BY <1>8, <2>1, <2>2 DEF OnePlace
  <2>4. \A other \in queue' : other \in queue /\ other.msg # task.msg
    BY <1>3, <2>1 DEF OnePlace
  <2>5. \A other \in queue' : \A q \in Procs : run'[q].msg # other.msg
    BY <2>1, <2>2, <2>4 DEF OnePlace
  <2> QED
    BY <1>2, <2>1, <2>3, <2>4, <2>5 DEF OnePlace
<1> QED
  BY <1>2, <1>7, <1>12, <1>13 DEF ClaimInv, TurnsAreSettled

(* Checking the row, dropping the message, failing to record a failure,    *)
(* and the soft time limit keep the invariant.                             *)
LEMMA WorkerGoesOnStep ==
  ASSUME ClaimInv, NEW w \in Workers,
         Check(w) \/ Drop(w) \/ Unrecorded(w) \/ SoftLimit(w)
  PROVE  ClaimInv'
<1>1. pc[w] \in {"check", "recordFailure", "route", "lock", "send"}
  BY DEF Check, Drop, Unrecorded, SoftLimit
<1>2. /\ w \in Procs /\ TypeOK /\ Held(w) /\ run[w] \in Run
      /\ run[w].msg \in Wamids /\ row[run[w].msg] # "none"
  BY <1>1, TaskOfWorker
<1>3. /\ UNCHANGED <<mode, row, turns, abandoned, queue, lock, faults>>
      /\ dropped' \in {dropped, dropped \cup {run[w].msg}}
      /\ replies' \in [Wamids -> Nat]
  BY <1>2 DEF Check, Drop, Unrecorded, SoftLimit, ledger, TypeOK
<1>4. PICK r \in Run, l \in {"route", "ack", "commit"} :
        /\ run' = [run EXCEPT ![w] = r] /\ Goto(w, l) /\ r.msg = run[w].msg
        /\ l = "route" => row[run[w].msg] = "received"
        /\ l = "commit" => /\ row[run[w].msg] = "received"
                          /\ r.wrote \in Settled
  <2>2. CASE Check(w)
    BY <1>2, <2>2 DEF Check, Unanswered, TypeOK
  <2>3. CASE Drop(w) \/ Unrecorded(w)
    BY <1>2, <2>3 DEF Drop, Unrecorded, TypeOK
  <2>4. CASE SoftLimit(w)
    <3> DEFINE r == [run[w] EXCEPT !.wrote = "failed"]
    <3>1. /\ r \in Run /\ r.msg = run[w].msg
          /\ r.wrote \in Settled /\ run' = [run EXCEPT ![w] = r]
      BY <1>2, <2>4 DEF SoftLimit, Run, Settled
    <3> HIDE DEF r
    <3>2. Goto(w, "commit") /\ row[run[w].msg] = "received"
      BY <1>2, <2>4 DEF SoftLimit, Held, Answering
    <3> QED
      BY <3>1, <3>2
  <2> QED
    BY <2>2, <2>3, <2>4
<1>5. TypeOK'
  BY <1>2, <1>3, <1>4, TypedStep DEF TypeOK, Labels
<1>6. Held(w)'
  BY <1>2, <1>3, <1>4, InboundAssumption
     DEF Held, TypeOK, Goto, Answering, Procs
<1>7. Own(w) /\ Passes(w)
  BY <1>2, <1>3, <1>4 DEF ClaimInv, TypeOK, TurnsAreSettled, Own, Passes, Goto
<1> QED
  BY <1>2, <1>5, <1>6, <1>7, LocalStep

(* A run that raises is retried with a new task, or its failure is to be   *)
(* recorded.                                                               *)
LEMMA RaiseStep ==
  ASSUME ClaimInv, NEW w \in Workers, Raise(w)
  PROVE  ClaimInv'
<1> DEFINE again == [Task(w) EXCEPT !.retries = @ + 1]
<1>1. pc[w] # "idle" /\ Abandon(w)
  BY DEF Raise, InTransaction
<1>2. /\ w \in Procs /\ TypeOK /\ Held(w) /\ run[w] \in Run
      /\ run[w].msg \in Wamids /\ row[run[w].msg] # "none"
      /\ run[w].retries \in 0..MaxRetries
      /\ Task(w) \in [msg : Wamids, retries : 0..MaxRetries]
      /\ Task(w).msg = run[w].msg /\ Task(w).retries = run[w].retries
  BY <1>1, TaskOfWorker DEF Task
<1>3. /\ faults' \in 0..MaxFaults /\ abandoned' \in [Wamids -> Nat]
      /\ lock' \in Procs \cup {NoOne}
  BY <1>1, AbandonTyped
<1>4. UNCHANGED <<mode, row, turns, replies, dropped>>
  BY DEF Raise
<1>5. CASE Retryable(w)
  <2>1. /\ queue' = queue \cup {again} /\ run' = [run EXCEPT ![w] = NoRun]
        /\ Goto(w, "idle")
    BY <1>5 DEF Raise
  <2>2. again \in [msg : Wamids, retries : 0..MaxRetries]
    BY <1>2, <1>5, InboundAssumption DEF Retryable
  <2>3. again.msg = run[w].msg
    BY <1>2
  <2> HIDE DEF again
  <2>4. TypeOK'
    BY <1>2, <1>3, <1>4, <2>1, <2>2, NoRunIsARun, TypedStep DEF TypeOK, Labels
  <2> QED
    BY <1>2, <1>4, <2>1, <2>3, <2>4, ReleaseStep
<1>6. CASE ~Retryable(w)
  <2> DEFINE r == [NoRun EXCEPT !.msg = run[w].msg, !.retries = run[w].retries]
  <2>1. /\ run' = [run EXCEPT ![w] = r] /\ Goto(w, "recordFailure")
        /\ queue' = queue
    BY <1>6 DEF Raise
  <2>2. r \in Run /\ r.msg = run[w].msg
    BY <1>2 DEF NoRun, Run
  <2> HIDE DEF r
  <2>3. TypeOK'
    BY <1>2, <1>3, <1>4, <2>1, <2>2, TypedStep DEF TypeOK, Labels
  <2>4. Held(w)'
    BY <1>2, <1>4, <2>1, <2>2, InboundAssumption
       DEF Held, TypeOK, Goto, Answering, Procs
  <2>5. Own(w) /\ Passes(w)
    BY <1>2, <1>4, <2>1, <2>2
       DEF ClaimInv, TypeOK, TurnsAreSettled, Own, Passes, Goto
  <2> QED
    BY <1>2, <2>3, <2>4, <2>5, LocalStep
<1> QED
  BY <1>5, <1>6

(* Recording the failure of the last retry keeps the invariant.            *)
LEMMA RecordFailureStep ==
  ASSUME ClaimInv, NEW w \in Workers, RecordFailure(w)
  PROVE  ClaimInv'
<1>1. pc[w] # "idle"
  BY DEF RecordFailure
<1>2. /\ w \in Procs /\ TypeOK /\ Held(w) /\ run[w] \in Run
      /\ run[w].msg \in Wamids /\ row[run[w].msg] # "none"
  BY <1>1, TaskOfWorker
<1>3. /\ UNCHANGED <<mode, turns, replies, abandoned, dropped, queue, lock,
                     run, faults>>
      /\ Goto(w, "ack")
      /\ row' \in {row, [row EXCEPT ![run[w].msg] = "failed"]}
  BY DEF RecordFailure
<1>4. row' \in [Wamids -> Settled \cup {"none", "received"}]
  BY <1>2, <1>3 DEF TypeOK, Settled
<1>5. TypeOK'
  BY <1>2, <1>3, <1>4 DEF TypeOK, Goto, Labels
<1>6. Held(w)'
  BY <1>2, <1>3, InboundAssumption DEF Held, TypeOK, Goto, Answering, Procs
<1>7. Own(w) /\ Passes(w)
  BY <1>2, <1>3
     DEF ClaimInv, TypeOK, TurnsAreSettled, Own, Passes, Goto, Settled
<1> QED
  BY <1>2, <1>5, <1>6, <1>7, LocalStep

-----------------------------------------------------------------------------
(* The theorems.                                                           *)

(* Every step keeps the invariant.                                         *)
LEMMA ClaimStep == ClaimInv /\ [Next]_vars => ClaimInv'
<1> SUFFICES ASSUME ClaimInv, [Next]_vars PROVE ClaimInv'
  OBVIOUS
<1>1. ASSUME NEW h \in Handlers, RecordInbound(h) \/ Webhook(h) \/ Interrupt(h)
      PROVE  ClaimInv'
  BY <1>1, RecordStep, DispatchStep, HandleStep, CommitStep, InterruptStep
     DEF Webhook, HandleInbound, Procs
<1>2. ASSUME NEW w \in Workers, Work(w)
      PROVE  ClaimInv'
  BY <1>2, TakeStep, WorkerGoesOnStep, WorkerEndsStep, HandleStep, CommitStep,
     RecordFailureStep DEF Work, HandleInbound, Procs
<1>3. ASSUME NEW w \in Workers,
             SoftLimit(w) \/ Raise(w) \/ Crash(w) \/ Kill(w)
      PROVE  ClaimInv'
  BY <1>3, WorkerGoesOnStep, RaiseStep, WorkerEndsStep
<1>4. CASE UNCHANGED vars
  <2>1. \A p \in Procs : Held(p)'
    BY <1>4 DEF vars, ClaimInv, Held
  <2> QED
    BY <1>4, <2>1 DEF vars, ClaimInv, TypeOK, OnePlace, TurnsAreSettled
<1> QED
  BY <1>1, <1>2, <1>3, <1>4 DEF Next, Finished

(* Types: a message is only ever with a process, in the queue or in the    *)
(* ledger in a form the code gives it.                                     *)
THEOREM TypeCorrect == Spec => []TypeOK
<1>1. ClaimInv => TypeOK
  BY DEF ClaimInv
<1> QED
  BY ClaimInit, ClaimStep, <1>1, PTL DEF Spec

(* However often a message is delivered, retried or handed out again, it   *)
(* is put to the agent in at most one committed turn.                      *)
THEOREM AtMostOneTurn == Spec => []QuestionIsStoredOnce
<1>1. ClaimInv => QuestionIsStoredOnce
  BY DEF ClaimInv, TurnsAreSettled, QuestionIsStoredOnce
<1> QED
  BY ClaimInit, ClaimStep, <1>1, PTL DEF Spec

(* Once the ledger says that a message is dealt with, no step changes its  *)
(* status or sends a reply to it.                                          *)
THEOREM SettledStaysSettled == Spec => SettledIsFinal
<1> DEFINE Final == \A m \in Wamids : row[m] \in Settled =>
                      /\ row'[m] = row[m]
                      /\ replies'[m] = replies[m]
<1>1. ClaimInv /\ [Next]_vars => [Final]_vars
  <2> SUFFICES ASSUME ClaimInv, Next PROVE Final
    OBVIOUS
  <2>1. /\ row \in [Wamids -> Settled \cup {"none", "received"}]
        /\ replies \in [Wamids -> Nat]
    BY DEF ClaimInv, TypeOK
  <2>2. ASSUME NEW p \in Procs,
               \/ HandleInbound(p)
               \/ p \in Handlers /\ CommitClaim(p)
               \/ p \in Workers /\ SoftLimit(p)
        PROVE  Final
    <3>1. Held(p)
      BY DEF ClaimInv
    <3>2. /\ run[p].msg \in Wamids
          /\ row[run[p].msg] \in {"none", "received"}
      BY <2>2, <3>1 DEF HandleInbound, Route, Lock, Turn, Send, Commit,
                        CommitClaim, SoftLimit, Held, Answering, Procs
    <3>3. \A m \in Wamids \ {run[p].msg} :
            row'[m] = row[m] /\ replies'[m] = replies[m]
      BY <2>1, <2>2, <3>2 DEF HandleInbound, Route, Lock, Turn, Send, Commit,
                        CommitClaim, SoftLimit, ledger
    <3> QED
      BY <3>2, <3>3 DEF Settled
  <2>3. ASSUME NEW w \in Workers, RecordFailure(w)
        PROVE  Final
    BY <2>1, <2>3 DEF RecordFailure, Settled
  <2>4. ASSUME NEW h \in Handlers,
               RecordInbound(h) \/ Enqueue(h) \/ Interrupt(h)
        PROVE  Final
    BY <2>4 DEF RecordInbound, Enqueue, Interrupt, ledger
  <2>5. ASSUME NEW w \in Workers,
               \/ Take(w) \/ Check(w) \/ Drop(w) \/ Ack(w) \/ Unrecorded(w)
               \/ Raise(w) \/ Crash(w) \/ Kill(w)
        PROVE  Final
    BY <2>5 DEF Take, Check, Drop, Ack, Unrecorded, Raise, Crash, Kill, ledger
  <2>6. CASE UNCHANGED vars
    BY <2>6 DEF vars
  <2>7. ASSUME NEW h \in Handlers,
               RecordInbound(h) \/ Webhook(h) \/ Interrupt(h)
        PROVE  Final
    <3>1. h \in Procs
      BY DEF Procs
    <3>2. CASE HandleInbound(h) \/ CommitClaim(h)
      BY <2>2, <3>1, <3>2
    <3>3. CASE RecordInbound(h) \/ Enqueue(h) \/ Interrupt(h)
      BY <2>4, <3>3
    <3> QED
      BY <2>7, <3>2, <3>3 DEF Webhook
  <2>8. ASSUME NEW w \in Workers,
               \/ Work(w) \/ SoftLimit(w) \/ Raise(w)
               \/ Crash(w) \/ Kill(w)
        PROVE  Final
    <3>1. w \in Procs
      BY DEF Procs
    <3>2. CASE HandleInbound(w) \/ SoftLimit(w)
      BY <2>2, <3>1, <3>2
    <3>3. CASE RecordFailure(w)
      BY <2>3, <3>3
    <3>4. CASE \/ Take(w) \/ Check(w) \/ Drop(w) \/ Ack(w)
               \/ Unrecorded(w) \/ Raise(w) \/ Crash(w) \/ Kill(w)
      BY <2>5, <3>4
    <3> QED
      BY <2>8, <3>2, <3>3, <3>4 DEF Work
  <2> HIDE DEF Final
  <2> QED
    BY <2>6, <2>7, <2>8 DEF Next, Finished
<1> QED
  BY ClaimInit, ClaimStep, <1>1, PTL DEF Spec, SettledIsFinal

-----------------------------------------------------------------------------
(* Replies.                                                                *)

(* The reply of m, if one was sent by a run that is not lost, is on record *)
(* or about to be.                                                         *)
Concluded(m) ==
  row[m] \in Settled \/ \E p \in Procs : run[p].msg = m /\ pc[p] = "commit"

ReplyInv ==
  \A m \in Wamids : /\ replies[m] <= abandoned[m] + 1
                    /\ ~Concluded(m) => replies[m] <= abandoned[m]

(* What a step may do to message m: nothing but lose runs of it.           *)
Quiet(m) ==
  /\ replies'[m] = replies[m] /\ abandoned'[m] >= abandoned[m]
  /\ Concluded(m) /\ abandoned'[m] = abandoned[m] => Concluded(m)'

(* Such a step keeps what the invariant says of m.                         *)
LEMMA QuietKeeps ==
  ASSUME ClaimInv, ClaimInv', ReplyInv, NEW m \in Wamids, Quiet(m)
  PROVE  /\ replies'[m] <= abandoned'[m] + 1
         /\ ~Concluded(m)' => replies'[m] <= abandoned'[m]
<1>1. /\ replies[m] \in Nat /\ abandoned[m] \in Nat
      /\ replies'[m] \in Nat /\ abandoned'[m] \in Nat
  BY DEF ClaimInv, TypeOK
<1>2. /\ replies[m] <= abandoned[m] + 1
      /\ ~Concluded(m) => replies[m] <= abandoned[m]
  BY DEF ReplyInv
<1> QED
  BY <1>1, <1>2 DEF Quiet

(* A step that gives one message a reply, or none, and has it committed    *)
(* next, keeps the invariant: no other run of the message is under way.    *)
LEMMA ReplyStep ==
  ASSUME ClaimInv, ReplyInv, NEW p \in Procs, Send(p) \/ (p \in Workers /\ SoftLimit(p))
  PROVE  ReplyInv'
<1> DEFINE m == run[p].msg
<1>1. /\ TypeOK /\ Held(p) /\ pc[p] \in {"route", "lock", "send"}
  BY DEF ClaimInv, Send, SoftLimit
<1>2. m \in Wamids /\ row[m] \notin Settled
  BY <1>1 DEF Held, Answering, Settled, Procs
<1>3. \A q \in Procs : run[q].msg = m => q = p
  BY <1>2, InboundAssumption DEF ClaimInv, OnePlace
<1>4. ~Concluded(m)
  BY <1>1, <1>2, <1>3 DEF Concluded
<1>5. /\ replies' \in {replies, [replies EXCEPT ![m] = @ + 1]}
      /\ UNCHANGED <<row, abandoned>> /\ Goto(p, "commit")
      /\ \A q \in Procs : run'[q].msg = run[q].msg
  <2>1. CASE Send(p)
    BY <2>1 DEF Send
  <2>2. CASE SoftLimit(p)
    <3>1. /\ replies' = [replies EXCEPT ![m] = @ + 1] \/ UNCHANGED replies
          /\ UNCHANGED <<row, abandoned>> /\ Goto(p, "commit")
          /\ run' = [run EXCEPT ![p].wrote = "failed"]
      BY <2>2 DEF SoftLimit
    <3>2. \A q \in Procs : run'[q].msg = run[q].msg
      BY <1>1, <3>1 DEF TypeOK, Run
    <3> QED
      BY <3>1, <3>2
  <2> QED
    BY <2>1, <2>2
<1>6. pc'[p] = "commit" /\ \A q \in Procs \ {p} : pc'[q] = pc[q]
  BY <1>1, <1>5 DEF Goto, TypeOK
<1>7. ASSUME NEW n \in Wamids
      PROVE  /\ replies'[n] <= abandoned'[n] + 1
             /\ ~Concluded(n)' => replies'[n] <= abandoned'[n]
  <2>1. /\ replies[n] \in Nat /\ abandoned[n] \in Nat
        /\ replies[n] <= abandoned[n] + 1
        /\ ~Concluded(n) => replies[n] <= abandoned[n]
    BY <1>1 DEF ReplyInv, TypeOK
  <2>2. CASE n = m
    <3>1. Concluded(n)'
      BY <1>5, <1>6, <2>2 DEF Concluded
    <3>2. replies'[n] \in {replies[n], replies[n] + 1}
      BY <1>1, <1>2, <1>5, <2>2 DEF TypeOK
    <3> QED
      BY <1>4, <1>5, <2>1, <2>2, <3>1, <3>2
  <2>3. CASE n # m
    <3>1. replies'[n] = replies[n]
      BY <1>1, <1>5, <2>3 DEF TypeOK
    <3>2. Concluded(n) => Concluded(n)'
      BY <1>1, <1>5, <1>6, <2>3 DEF Concluded
    <3> QED
      BY <1>5, <2>1, <3>1, <3>2
  <2> QED
    BY <2>2, <2>3
<1> QED
  BY <1>7 DEF ReplyInv

(* Every other step of process p leaves the replies alone.                 *)
LEMMA QuietStep ==
  ASSUME ClaimInv, NEW p \in Procs, NEW m \in Wamids, replies' = replies,
         \A q \in Procs \ {p} : pc'[q] = pc[q] /\ run'[q] = run[q],
         row[m] \in Settled => row'[m] \in Settled,
         abandoned'[m] >= abandoned[m],
         \/ pc[p] # "commit" \/ run[p].msg # m
         \/ row'[m] \in Settled \/ abandoned'[m] # abandoned[m]
  PROVE  Quiet(m)
BY DEF Quiet, Concluded

(* Every step keeps the invariant.                                         *)
LEMMA RepliesStep == ClaimInv /\ ReplyInv /\ [Next]_vars => ReplyInv'
<1> SUFFICES ASSUME ClaimInv, ReplyInv, [Next]_vars PROVE ReplyInv'
  OBVIOUS
<1> USE DEF ledger
<1>1. ClaimInv'
  BY ClaimStep
<1>2. /\ TypeOK /\ TypeOK' /\ \A p \in Procs : Held(p)
  BY <1>1 DEF ClaimInv
<1>3. /\ row \in [Wamids -> Settled \cup {"none", "received"}]
      /\ abandoned \in [Wamids -> Nat]
      /\ pc \in [Procs -> Labels] /\ run \in [Procs -> Run]
  BY <1>2 DEF TypeOK
<1>4. ASSUME NEW m \in Wamids, UNCHANGED vars
      PROVE  Quiet(m)
  BY <1>3, <1>4 DEF vars, Quiet, Concluded
<1>5. ASSUME NEW p \in Procs, NEW m \in Wamids,
             \/ Route(p) \/ Lock(p) \/ Turn(p)
             \/ p \in Handlers /\ (RecordInbound(p) \/ Enqueue(p))
             \/ p \in Workers /\ \/ Take(p) \/ Check(p) \/ Drop(p) \/ Ack(p)
                                 \/ Unrecorded(p)
      PROVE  Quiet(m)
  <2>1. UNCHANGED <<row, replies, abandoned>> /\ pc[p] # "commit"
    BY <1>5 DEF Route, Lock, Turn, RecordInbound, Enqueue, Take, Check, Drop,
                Ack, Unrecorded
  <2>2. \A q \in Procs \ {p} : pc'[q] = pc[q]
    BY <1>3, <1>5 DEF Route, Lock, Turn, RecordInbound, Enqueue, Take, Check,
                      Drop, Ack, Unrecorded, Goto
  <2>3. \A q \in Procs \ {p} : run'[q] = run[q]
    <3>1. CASE Route(p)
      BY <1>3, <3>1 DEF Route
    <3>2. CASE Turn(p)
      BY <1>3, <3>2 DEF Turn
    <3>3. CASE RecordInbound(p)
      BY <1>3, <3>3 DEF RecordInbound
    <3>4. CASE Lock(p) \/ Enqueue(p) \/ Check(p) \/ Drop(p) \/ Ack(p)
               \/ Unrecorded(p)
      BY <1>3, <3>4 DEF Lock, Enqueue, Check, Drop, Ack, Unrecorded
    <3>5. CASE Take(p)
      BY <1>3, <3>5 DEF Take
    <3> QED
      BY <1>5, <3>1, <3>2, <3>3, <3>4, <3>5
  <2>4. abandoned'[m] >= abandoned[m]
    BY <1>3, <2>1
  <2> QED
    BY <2>1, <2>2, <2>3, <2>4, QuietStep
<1>6. ASSUME NEW p \in Procs, NEW m \in Wamids, p \in Handlers, CommitClaim(p)
      PROVE  Quiet(m)
  <2>1. /\ UNCHANGED <<replies, abandoned>> /\ pc[p] = "commitClaim"
        /\ row' = [row EXCEPT ![run[p].msg] = "received"]
        /\ Goto(p, "enqueue")
        /\ run' = [run EXCEPT ![p].claimed = FALSE]
    BY <1>6 DEF CommitClaim
  <2>2. row[run[p].msg] \notin Settled
    BY <1>2, <1>6, <2>1 DEF Held, Settled
  <2> QED
    BY <1>3, <2>1, <2>2, QuietStep DEF Goto
<1>7. ASSUME NEW p \in Procs, NEW m \in Wamids, Commit(p)
      PROVE  Quiet(m)
  <2>1. /\ UNCHANGED <<replies, abandoned>> /\ pc[p] = "commit"
        /\ row' = [row EXCEPT ![run[p].msg] = run[p].wrote]
        /\ \E l : Goto(p, l)
        /\ \A q \in Procs \ {p} : run'[q] = run[q]
    BY <1>3, <1>7 DEF Commit
  <2>2. run[p].wrote \in Settled
    BY <1>2, <2>1 DEF Held
  <2> QED
    BY <1>3, <2>1, <2>2, QuietStep DEF Goto
<1>8. ASSUME NEW p \in Procs, NEW m \in Wamids, p \in Handlers, Interrupt(p)
      PROVE  Quiet(m)
  <2>1. /\ UNCHANGED <<row, replies>> /\ Goto(p, "over")
        /\ run' = [run EXCEPT ![p] = NoRun]
        /\ abandoned' = IF run[p].claimed
                        THEN [abandoned EXCEPT ![run[p].msg] = @ + 1] ELSE abandoned
    BY <1>8 DEF Interrupt
  <2>2. pc[p] = "commit" => run[p].claimed
    BY <1>2, <1>8 DEF Held, Answering
  <2>3. abandoned'[m] >= abandoned[m]
    BY <1>3, <2>1
  <2>4. pc[p] = "commit" /\ run[p].msg = m => abandoned'[m] # abandoned[m]
    BY <1>3, <2>1, <2>2
  <2> QED
    BY <1>3, <2>1, <2>3, <2>4, QuietStep DEF Goto
<1>9. ASSUME NEW p \in Procs, NEW m \in Wamids, p \in Workers,
             Raise(p) \/ Crash(p) \/ Kill(p)
      PROVE  Quiet(m)
  <2>1. /\ UNCHANGED <<row, replies>> /\ Abandon(p)
        /\ \E l : Goto(p, l)
        /\ \E r : run' = [run EXCEPT ![p] = r]
    <3>1. CASE Raise(p)
      BY <3>1 DEF Raise
    <3>2. CASE Crash(p) \/ Kill(p)
      BY <3>2 DEF Crash, Kill
    <3> QED
      BY <1>9, <3>1, <3>2
  <2>2. abandoned'[m] >= abandoned[m]
    BY <1>3, <2>1 DEF Abandon
  <2>3. pc[p] = "commit" /\ run[p].msg = m => abandoned'[m] # abandoned[m]
    BY <1>3, <2>1 DEF Abandon, InTransaction
  <2> QED
    BY <1>3, <2>1, <2>2, <2>3, QuietStep DEF Goto
<1>10. ASSUME NEW p \in Procs, NEW m \in Wamids, p \in Workers, RecordFailure(p)
       PROVE  Quiet(m)
  <2>1. /\ UNCHANGED <<replies, abandoned, run>> /\ pc[p] = "recordFailure"
        /\ Goto(p, "ack")
        /\ row' \in {row, [row EXCEPT ![run[p].msg] = "failed"]}
    BY <1>10 DEF RecordFailure
  <2>2. row[m] \in Settled => row'[m] \in Settled
    BY <1>3, <2>1 DEF Settled
  <2> QED
    BY <1>3, <2>1, <2>2, QuietStep DEF Goto
<1>11. ASSUME \A m \in Wamids : Quiet(m) PROVE ReplyInv'
  BY <1>1, <1>11, QuietKeeps DEF ReplyInv
<1>12. ASSUME NEW h \in Handlers, RecordInbound(h) \/ Webhook(h) \/ Interrupt(h)
       PROVE  ReplyInv'
  <2>1. h \in Procs
    BY DEF Procs
  <2> QED
    BY <1>5, <1>6, <1>7, <1>8, <1>11, <1>12, <2>1, ReplyStep DEF Webhook, HandleInbound
<1>13. ASSUME NEW w \in Workers,
              Work(w) \/ SoftLimit(w) \/ Raise(w) \/ Crash(w) \/ Kill(w)
       PROVE  ReplyInv'
  <2>1. w \in Procs
    BY DEF Procs
  <2> QED
    BY <1>5, <1>7, <1>9, <1>10, <1>11, <1>13, <2>1, ReplyStep DEF Work, HandleInbound
<1> QED
  BY <1>4, <1>11, <1>12, <1>13 DEF Next, Finished

(* A contact hears a second answer to one message only after a run of it   *)
(* was lost before its commit, for any number of deliveries, workers,      *)
(* retries and faults.                                                     *)
THEOREM RepeatsNeedAFault == Spec => []RepliesRepeatOnlyAfterAFault
<1>1. Init => ReplyInv
  BY DEF Init, ReplyInv, Settled
<1>2. ReplyInv /\ ClaimInv => RepliesRepeatOnlyAfterAFault
  BY DEF ReplyInv, ClaimInv, TypeOK, RepliesRepeatOnlyAfterAFault
<1> QED
  BY ClaimInit, ClaimStep, RepliesStep, <1>1, <1>2, PTL DEF Spec
=============================================================================
