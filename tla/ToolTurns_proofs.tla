-------------------------- MODULE ToolTurns_proofs --------------------------
(***************************************************************************)
(* Proofs about ToolTurns, for any number of turns and tools and any       *)
(* budget.                                                                 *)
(***************************************************************************)
EXTENDS ToolTurns, TLAPS, FiniteSetTheorems

Asked   == Seq(Tools)
Answers == Seq({"result", "notice"})
Calls   == Seq(Call)
Values  == [Tools -> Int]

Record_ == [asked : Asked, answers : Answers, executed : Nat, calls : Calls,
            usage : Nat, completions : Nat, loaded : Int, wrote : Values]

Shape ==
  /\ failures \in Values
  /\ pc \in [Turns -> Labels]
  /\ turn \in [Turns -> Record_]

(* Where a turn's counters stand.  A completion that goes on is followed   *)
(* by at least one executed call before the next completion, since it only *)
(* goes on while the budget lasts.                                         *)
Spending(t) ==
  /\ turn[t].usage = turn[t].completions
  /\ turn[t].executed <= MaxCalls
  /\ turn[t].completions <= MaxCalls + 1
  /\ pc[t] \in {"idle", "complete", "call", "record"}
       => turn[t].completions <= turn[t].executed
  /\ pc[t] \in {"call", "record"} => Unanswered(t)
  /\ pc[t] = "loop" /\ Len(turn[t].answers) > 0
       => turn[t].completions <= turn[t].executed
  /\ pc[t] = "loop" /\ Len(turn[t].answers) = 0 =>
       /\ Len(turn[t].asked) > 0
       /\ turn[t].executed < MaxCalls
       /\ turn[t].completions <= turn[t].executed + 1

BudgetInv == Shape /\ \A t \in Turns : Spending(t)

(* The call the loop is at is a call of a tool.                          *)
LEMMA CurrentIsATool ==
  ASSUME Shape, NEW t \in Turns, Unanswered(t)
  PROVE  Current(t) \in Tools
BY DEF Shape, Record_, Asked, Answers, Unanswered, Current

(* A step that leaves the other turns alone keeps what is said of them.    *)
LEMMA OthersKept ==
  ASSUME NEW t \in Turns, Shape, \A u \in Turns : Spending(u),
         Shape', Spending(t)',
         \A u \in Turns \ {t} : pc'[u] = pc[u] /\ turn'[u] = turn[u]
  PROVE  BudgetInv'
<1>1. \A u \in Turns \ {t} : Spending(u)'
  BY DEF Spending, Unanswered
<1> QED
  BY <1>1 DEF BudgetInv

(* A completion keeps the budget invariant.                              *)
LEMMA CompleteStep ==
  ASSUME BudgetInv, NEW t \in Turns, Complete(t)
  PROVE  BudgetInv'
<1> USE ToolsAssumption
<1>1. PICK asked \in Requests :
        LET go == GoesOn(t, asked) IN
        /\ turn' = [turn EXCEPT
             ![t].completions = @ + 1,
             ![t].usage = Usage(t),
             ![t].asked = IF go THEN asked ELSE <<>>,
             ![t].answers = <<>>]
        /\ pc' = [pc EXCEPT ![t] = IF go THEN "loop" ELSE "commit"]
  BY DEF Complete, Goto
<1>2. asked \in Seq(Tools)
  BY DEF ToolsAssumption
<1>3. turn \in [Turns -> Record_] /\ pc \in [Turns -> Labels] /\ Spending(t)
  BY DEF BudgetInv, Shape
<1>4. turn[t] \in Record_ /\ pc[t] = "complete"
  BY <1>3 DEF Complete
<1> DEFINE go == GoesOn(t, asked)
           new == [turn[t] EXCEPT !.completions = @ + 1,
                     !.usage = Usage(t),
                     !.asked = IF go THEN asked ELSE <<>>,
                     !.answers = <<>>]
<1>5. turn' = [turn EXCEPT ![t] = new]
  BY <1>1, <1>3, <1>4
<1>6. go \in BOOLEAN
  BY DEF GoesOn
<1>7. new \in Record_
  <2>1. /\ (IF go THEN asked ELSE <<>>) \in Asked
        /\ <<>> \in Answers
    BY <1>2, <1>6 DEF Asked, Answers
  <2>2. Usage(t) \in Nat /\ turn[t].completions + 1 \in Nat
    BY <1>4 DEF Record_, Usage
  <2> HIDE DEF go
  <2> QED
    BY <1>4, <2>1, <2>2 DEF Record_
<1>8. Shape'
  <2>1. turn' \in [Turns -> Record_]
    BY <1>3, <1>5, <1>7
  <2>2. (IF go THEN "loop" ELSE "commit") \in Labels
    BY <1>6 DEF Labels
  <2>3. pc' \in [Turns -> Labels]
    BY <1>1, <1>3, <2>2
  <2> QED
    BY <2>1, <2>3 DEF Shape, Complete, BudgetInv
<1>9. /\ turn'[t] = new
      /\ pc'[t] = IF go THEN "loop" ELSE "commit"
  BY <1>1, <1>3, <1>5
<1>10. /\ new.usage = turn[t].usage + 1
       /\ new.completions = turn[t].completions + 1
       /\ new.executed = turn[t].executed
       /\ new.answers = <<>>
       /\ new.asked = IF go THEN asked ELSE <<>>
  BY <1>4 DEF Record_, Usage
<1>11. go => Len(asked) > 0 /\ turn[t].executed < MaxCalls
  BY <1>2 DEF GoesOn
<1> HIDE DEF new, go
<1>12. turn[t].executed \in Nat /\ turn[t].completions \in Nat
       /\ turn[t].completions <= turn[t].executed
       /\ turn[t].executed <= MaxCalls
       /\ turn[t].usage = turn[t].completions
  BY <1>3, <1>4 DEF Spending, Record_
<1>13. Spending(t)'
  BY <1>6, <1>9, <1>10, <1>11, <1>12 DEF Spending, Unanswered
<1> QED
  BY <1>1, <1>3, <1>5, <1>8, <1>13, OthersKept DEF BudgetInv

(* The steps that move a turn on without touching its state.               *)
LEMMA GotoStep ==
  ASSUME BudgetInv, NEW t \in Turns,
         Begin(t) \/ CompletionFails(t) \/ FollowUp(t) \/ Deadlock(t)
  PROVE  BudgetInv'
<1>1. PICK label \in Labels : pc' = [pc EXCEPT ![t] = label]
  <2>1. CASE Begin(t)
    BY <2>1 DEF Begin, Goto, Labels
  <2>2. CASE CompletionFails(t)
    BY <2>2 DEF CompletionFails, Goto, Labels
  <2>3. CASE FollowUp(t)
    BY <2>3 DEF FollowUp, Goto, Labels
  <2>4. CASE Deadlock(t)
    BY <2>4 DEF Deadlock, Goto, Labels
  <2> QED
    BY <2>1, <2>2, <2>3, <2>4
<1>2. turn' = turn /\ failures' = failures
  BY DEF Begin, CompletionFails, FollowUp, Deadlock
<1>3. Shape'
  BY <1>1, <1>2 DEF BudgetInv, Shape
<1>4. Spending(t)'
  <2>1. Spending(t) /\ pc'[t] = label
    BY <1>1 DEF BudgetInv, Shape
  <2>2. CASE Begin(t)
    BY <1>1, <1>2, <2>1, <2>2 DEF Begin, Spending, Goto, Unanswered
  <2>3. CASE CompletionFails(t)
    <3>1. pc'[t] \in {"commit", "rollback"}
      BY <1>1, <2>3 DEF CompletionFails, Goto, BudgetInv, Shape
    <3> QED
      BY <1>2, <2>1, <3>1 DEF Spending
  <2>4. CASE FollowUp(t)
    <3>1. pc[t] = "loop" /\ pc'[t] = "complete" /\ ~Unanswered(t)
      BY <2>4 DEF FollowUp, Goto, BudgetInv, Shape
    <3>2. Len(turn[t].answers) \in Nat /\ Len(turn[t].asked) \in Nat
      BY DEF BudgetInv, Shape, Record_, Asked, Answers
    <3>3. turn[t].completions <= turn[t].executed
      BY <2>1, <3>1, <3>2 DEF Spending, Unanswered
    <3> QED
      BY <1>2, <2>1, <3>1, <3>3 DEF Spending
  <2>5. CASE Deadlock(t)
    <3>1. pc'[t] = "aborted"
      BY <2>5 DEF Deadlock, Goto, BudgetInv, Shape
    <3> QED
      BY <1>2, <2>1, <3>1 DEF Spending
  <2> QED
    BY <2>2, <2>3, <2>4, <2>5
<1> QED
  BY <1>1, <1>2, <1>3, <1>4, OthersKept DEF BudgetInv, Shape

(* A budget notice keeps the budget invariant.                           *)
LEMMA NoticeStep ==
  ASSUME BudgetInv, NEW t \in Turns, Notice(t)
  PROVE  BudgetInv'
<1> DEFINE answers == Append(turn[t].answers, "notice")
           new == [turn[t] EXCEPT !.answers = answers]
<1>1. turn[t] \in Record_ /\ Spending(t) /\ turn \in [Turns -> Record_]
      /\ pc[t] = "loop"
  BY DEF BudgetInv, Shape, Notice
<1>2. turn' = [turn EXCEPT ![t] = new] /\ pc' = pc /\ failures' = failures
  BY <1>1 DEF Notice, Answered
<1>3. /\ turn[t].answers \in Seq({"result", "notice"})
      /\ turn[t].executed \in Nat /\ turn[t].completions \in Nat
  BY <1>1 DEF Record_, Answers
<1>4. answers \in Answers /\ Len(answers) > 0
  BY <1>3 DEF Answers
<1> HIDE DEF answers
<1>5. new \in Record_
  BY <1>1, <1>4 DEF Record_
<1>6. Shape'
  BY <1>2, <1>5 DEF BudgetInv, Shape
<1>7. /\ turn'[t].answers = answers
      /\ turn'[t].usage = turn[t].usage
      /\ turn'[t].executed = turn[t].executed
      /\ turn'[t].completions = turn[t].completions
  BY <1>1, <1>2 DEF Record_
<1>8. turn[t].completions <= turn[t].executed
  (* The budget is spent, so this is not the round's first answer. *)
  <2>1. turn[t].executed >= MaxCalls /\ MaxCalls \in Nat
    BY ToolsAssumption DEF Notice, Spent
  <2>2. Len(turn[t].answers) > 0 \/ Len(turn[t].answers) = 0
    BY <1>3
  <2> QED
    BY <1>1, <1>3, <2>1, <2>2 DEF Spending
<1>9. Spending(t)'
  BY <1>1, <1>2, <1>4, <1>7, <1>8 DEF Spending
<1> QED
  BY <1>2, <1>6, <1>9, OthersKept DEF BudgetInv, Shape

(* What holds of the counters where a call may be made.                    *)
LEMMA CallAllowed ==
  ASSUME BudgetInv, NEW t \in Turns, pc[t] = "loop", ~Spent(t)
  PROVE  /\ turn[t].executed + 1 \in Nat
         /\ turn[t].executed + 1 <= MaxCalls
         /\ turn[t].completions \in Nat
         /\ turn[t].completions <= turn[t].executed + 1
<1>1. turn[t] \in Record_ /\ Spending(t) /\ MaxCalls \in Nat
  BY ToolsAssumption DEF BudgetInv, Shape
<1>2. /\ turn[t].executed \in Nat /\ turn[t].completions \in Nat
      /\ Len(turn[t].answers) \in Nat
  BY <1>1 DEF Record_, Answers
<1> QED
  BY <1>1, <1>2 DEF Spending, Spent

(* A call that is refused or cached keeps the budget invariant.          *)
LEMMA InvokeUnsentStep ==
  ASSUME BudgetInv, NEW t \in Turns, InvokeUnsent(t)
  PROVE  BudgetInv'
<1>1. PICK outcome \in {"unavailable", "unsent"} :
        turn' = [turn EXCEPT
          ![t].executed = @ + 1,
          ![t].calls = Append(@, [tool |-> Current(t), outcome |-> outcome]),
          ![t].answers = Answered(t, "result")]
  BY DEF InvokeUnsent
<1> DEFINE answers == Append(turn[t].answers, "result")
           calls == Append(turn[t].calls,
                           [tool |-> Current(t), outcome |-> outcome])
           new == [turn[t] EXCEPT !.executed = @ + 1, !.calls = calls,
                                  !.answers = answers]
<1>2. turn[t] \in Record_ /\ Spending(t) /\ turn \in [Turns -> Record_]
      /\ pc[t] = "loop" /\ Shape
  BY DEF BudgetInv, Shape, InvokeUnsent
<1>3. turn' = [turn EXCEPT ![t] = new] /\ pc' = pc /\ failures' = failures
  BY <1>1, <1>2 DEF InvokeUnsent, Answered
<1>4. answers \in Answers /\ Len(answers) > 0
  BY <1>2 DEF Answers, Record_
<1>5. calls \in Calls
  <2>1. Current(t) \in Tools
    BY <1>2, CurrentIsATool DEF InvokeUnsent
  <2> QED
    BY <1>2, <2>1 DEF Calls, Call, Outcomes, Record_
<1> HIDE DEF answers, calls
<1>6. new \in Record_
  BY <1>2, <1>4, <1>5, CallAllowed DEF Record_, InvokeUnsent
<1>7. Shape'
  BY <1>3, <1>6 DEF BudgetInv, Shape
<1>8. /\ turn'[t].answers = answers
      /\ turn'[t].usage = turn[t].usage
      /\ turn'[t].executed = turn[t].executed + 1
      /\ turn'[t].completions = turn[t].completions
  BY <1>2, <1>3 DEF Record_
<1>9. Spending(t)'
  BY <1>2, <1>3, <1>4, <1>8, CallAllowed DEF Spending, InvokeUnsent
<1> QED
  BY <1>3, <1>7, <1>9, OthersKept DEF BudgetInv, Shape

(* A failure count that a turn reads is an integer.                      *)
LEMMA SeenIsAnInteger ==
  ASSUME Shape, NEW t \in Turns, NEW x \in Tools
  PROVE  Seen(t, x) \in Int
BY DEF Shape, Record_, Values, Seen

(* The start of a call keeps the budget invariant.                       *)
LEMMA InvokeStep ==
  ASSUME BudgetInv, NEW t \in Turns, Invoke(t)
  PROVE  BudgetInv'
<1> DEFINE seen == Seen(t, Current(t))
           new == [turn[t] EXCEPT !.executed = @ + 1, !.loaded = seen]
<1>1. turn[t] \in Record_ /\ Spending(t) /\ turn \in [Turns -> Record_]
      /\ pc \in [Turns -> Labels] /\ pc[t] = "loop" /\ Shape
  BY DEF BudgetInv, Shape, Invoke
<1>2. /\ turn' = [turn EXCEPT ![t] = new]
      /\ pc' = [pc EXCEPT ![t] = "call"] /\ failures' = failures
  BY <1>1 DEF Invoke, Goto
<1>3. seen \in Int
  BY <1>1, CurrentIsATool, SeenIsAnInteger DEF Invoke
<1> HIDE DEF seen
<1>4. new \in Record_
  BY <1>1, <1>3, CallAllowed DEF Record_, Invoke
<1>5. Shape'
  BY <1>1, <1>2, <1>4 DEF Shape, Labels
<1>6. /\ turn'[t].answers = turn[t].answers
      /\ turn'[t].asked = turn[t].asked
      /\ turn'[t].usage = turn[t].usage
      /\ turn'[t].executed = turn[t].executed + 1
      /\ turn'[t].completions = turn[t].completions
      /\ pc'[t] = "call"
  BY <1>1, <1>2 DEF Record_
<1>7. Spending(t)'
  BY <1>1, <1>6, CallAllowed DEF Spending, Invoke, Unanswered
<1> QED
  BY <1>2, <1>5, <1>7, OthersKept DEF BudgetInv

(* The end of a call keeps the budget invariant.                         *)
LEMMA ExecuteStep ==
  ASSUME BudgetInv, NEW t \in Turns, Execute(t)
  PROVE  BudgetInv'
<1>1. PICK outcome \in {"succeeded", "failed"} :
        turn' = [turn EXCEPT
          ![t].calls = Append(@, [tool |-> Current(t), outcome |-> outcome])]
  BY DEF Execute
<1> DEFINE calls == Append(turn[t].calls,
                           [tool |-> Current(t), outcome |-> outcome])
           new == [turn[t] EXCEPT !.calls = calls]
<1>2. turn[t] \in Record_ /\ Spending(t) /\ turn \in [Turns -> Record_]
      /\ pc \in [Turns -> Labels] /\ pc[t] = "call" /\ Shape
  BY DEF BudgetInv, Shape, Execute
<1>3. /\ turn' = [turn EXCEPT ![t] = new]
      /\ pc' = [pc EXCEPT ![t] = "record"] /\ failures' = failures
  BY <1>1, <1>2 DEF Execute, Goto
<1>4. calls \in Calls
  <2>1. Current(t) \in Tools
    BY <1>2, CurrentIsATool DEF Spending
  <2> QED
    BY <1>2, <2>1 DEF Calls, Call, Outcomes, Record_
<1> HIDE DEF calls
<1>5. new \in Record_
  BY <1>2, <1>4 DEF Record_
<1>6. Shape'
  BY <1>2, <1>3, <1>5 DEF Shape, Labels
<1>7. /\ turn'[t].answers = turn[t].answers
      /\ turn'[t].asked = turn[t].asked
      /\ turn'[t].usage = turn[t].usage
      /\ turn'[t].executed = turn[t].executed
      /\ turn'[t].completions = turn[t].completions
      /\ pc'[t] = "record"
  BY <1>2, <1>3 DEF Record_
<1>8. Spending(t)'
  BY <1>2, <1>7 DEF Spending, Unanswered
<1> QED
  BY <1>3, <1>6, <1>8, OthersKept DEF BudgetInv

(* Recording the result of a call keeps the budget invariant.            *)
LEMMA RecordStep ==
  ASSUME BudgetInv, NEW t \in Turns, Record(t)
  PROVE  BudgetInv'
<1> DEFINE x == Current(t)
           answers == Append(turn[t].answers, "result")
           value == IF Recorded(t) = turn[t].loaded THEN turn[t].wrote[x]
                    ELSE Recorded(t)
           wrote == [turn[t].wrote EXCEPT ![x] = value]
           new == [turn[t] EXCEPT !.wrote = wrote, !.answers = answers]
<1>1. turn[t] \in Record_ /\ Spending(t) /\ turn \in [Turns -> Record_]
      /\ pc \in [Turns -> Labels] /\ pc[t] = "record" /\ Shape
  BY DEF BudgetInv, Shape, Record
<1>2. x \in Tools
  BY <1>1, CurrentIsATool DEF Spending
<1>3. /\ turn' = [turn EXCEPT ![t] = new]
      /\ pc' = [pc EXCEPT ![t] = "loop"] /\ failures' = failures
  BY <1>1 DEF Record, Goto, Answered
<1>4. answers \in Answers /\ Len(answers) > 0
  BY <1>1 DEF Answers, Record_
<1>5. wrote \in Values
  <2>1. Recorded(t) \in Int
    BY <1>1 DEF Recorded, Record_
  <2>2. turn[t].wrote \in [Tools -> Int]
    BY <1>1 DEF Record_, Values
  <2>3. value \in Int
    BY <1>2, <2>1, <2>2
  <2> QED
    BY <1>2, <2>2, <2>3 DEF Values
<1> HIDE DEF answers, wrote
<1>6. new \in Record_
  BY <1>1, <1>4, <1>5 DEF Record_
<1>7. Shape'
  BY <1>1, <1>3, <1>6 DEF Shape, Labels
<1>8. /\ turn'[t].answers = answers
      /\ turn'[t].usage = turn[t].usage
      /\ turn'[t].executed = turn[t].executed
      /\ turn'[t].completions = turn[t].completions
      /\ pc'[t] = "loop"
  BY <1>1, <1>3 DEF Record_
<1>9. Spending(t)'
  BY <1>1, <1>4, <1>8 DEF Spending
<1> QED
  BY <1>3, <1>7, <1>9, OthersKept DEF BudgetInv

(* A turn's initial private state has its fields.                        *)
LEMMA NewTurnIsARecord == NewTurn \in Record_
<1>1. <<>> \in Asked /\ <<>> \in Answers /\ <<>> \in Calls
  BY DEF Asked, Answers, Calls
<1>2. [x \in Tools |-> Unwritten] \in Values
  BY DEF Values, Unwritten
<1> QED
  BY <1>1, <1>2 DEF Record_, NewTurn

(* The end of a turn, however it comes.                                    *)
LEMMA EndStep ==
  ASSUME BudgetInv, NEW t \in Turns, Commit(t) \/ Rollback(t) \/ Crash(t)
  PROVE  BudgetInv'
<1> DEFINE new == [NewTurn EXCEPT !.calls = turn[t].calls]
<1>1. turn[t] \in Record_ /\ turn \in [Turns -> Record_]
      /\ pc \in [Turns -> Labels] /\ Shape
  BY DEF BudgetInv, Shape
<1>2. turn' = [turn EXCEPT ![t] = new]
  BY DEF Commit, Rollback, Crash, Closed
<1>3. PICK label \in Over : pc' = [pc EXCEPT ![t] = label]
  BY DEF Commit, Rollback, Crash, Goto, Over
<1>4. new \in Record_
  BY <1>1, NewTurnIsARecord DEF Record_
<1>5. failures' \in Values
  <2>1. CASE Commit(t)
    <3>1. \A x \in Tools : Seen(t, x) \in Int
      BY <1>1, SeenIsAnInteger
    <3> QED
      BY <2>1, <3>1 DEF Commit, Values
  <2>2. CASE Rollback(t) \/ Crash(t)
    BY <1>1, <2>2 DEF Rollback, Crash, Shape
  <2> QED
    BY <2>1, <2>2
<1>6. Shape'
  BY <1>1, <1>2, <1>3, <1>4, <1>5 DEF Shape, Labels
<1>7. /\ turn'[t].usage = 0 /\ turn'[t].executed = 0
      /\ turn'[t].completions = 0 /\ pc'[t] \in Over
  BY <1>1, <1>2, <1>3 DEF NewTurn
<1>8. Spending(t)'
  BY <1>7, ToolsAssumption DEF Spending, Over
<1> QED
  BY <1>2, <1>3, <1>6, <1>8, OthersKept DEF BudgetInv

(* Every step keeps the budget invariant.                                *)
LEMMA BudgetStep == BudgetInv /\ [Next]_vars => BudgetInv'
<1> SUFFICES ASSUME BudgetInv, [Next]_vars PROVE BudgetInv'
  OBVIOUS
<1>1. CASE UNCHANGED vars
  BY <1>1 DEF vars, BudgetInv, Shape, Spending, Unanswered
<1>2. ASSUME NEW t \in Turns, Begin(t) \/ Progress(t) \/ Crash(t)
      PROVE  BudgetInv'
  BY <1>2, GotoStep, CompleteStep, NoticeStep, InvokeUnsentStep, InvokeStep,
     ExecuteStep, RecordStep, EndStep DEF Progress
<1>3. CASE Finished
  BY <1>1, <1>3 DEF Finished
<1> QED
  BY <1>1, <1>2, <1>3 DEF Next

(* The initial states satisfy the budget invariant.                      *)
LEMMA BudgetInit == Init => BudgetInv
<1> SUFFICES ASSUME Init PROVE BudgetInv
  OBVIOUS
<1>2. Shape
  BY NewTurnIsARecord DEF Init, Shape, Values, Labels
<1>3. \A t \in Turns : Spending(t)
  BY ToolsAssumption DEF Init, Spending, NewTurn
<1> QED
  BY <1>2, <1>3 DEF BudgetInv

(* tool_loop.run: for any budget, and whatever the models ask for, a turn  *)
(* executes at most max_calls calls and pays for at most one completion    *)
(* more than that.                                                         *)
THEOREM BudgetHolds == Spec => []BudgetBoundsATurn
<1>1. BudgetInv => BudgetBoundsATurn
  BY DEF BudgetInv, Spending, BudgetBoundsATurn
<1> QED
  BY <1>1, BudgetInit, BudgetStep, PTL DEF Spec

(* ToolLoopOutcome.usage: what a turn reports covers every completion of   *)
(* the loop.                                                               *)
THEOREM UsageIsComplete == Spec => []UsageCoversEveryCompletion
<1>1. BudgetInv => UsageCoversEveryCompletion
  BY DEF BudgetInv, Spending, UsageCoversEveryCompletion
<1> QED
  BY <1>1, BudgetInit, BudgetStep, PTL DEF Spec

-----------------------------------------------------------------------------
(* The failed calls of x that a turn has made.                             *)
FailedCalls(t, x) ==
  {i \in DOMAIN turn[t].calls :
     turn[t].calls[i].tool = x /\ turn[t].calls[i].outcome = "failed"}

(* The failures of x that are in the log, or will be when t commits.       *)
Evidence(t, x) == Cardinality(Failed(x)) + Cardinality(FailedCalls(t, x))

(* What a turn has written, has loaded and is about to write, it has       *)
(* evidence for.                                                           *)
Counting(t) ==
  /\ \A x \in Tools : turn[t].wrote[x] <= Evidence(t, x)
  /\ pc[t] = "call" => turn[t].loaded <= Evidence(t, Current(t))
  /\ pc[t] = "record" => Recorded(t) <= Evidence(t, Current(t))

(* Rows come with the commit of their turn.                                *)
LogIsOfTheDone ==
  \A x \in Tools :
    /\ IsFiniteSet(log[x])
    /\ \A r \in log[x] : r.turn \in Turns /\ pc[r.turn] = "done"

CountInv ==
  /\ BudgetInv /\ LogIsOfTheDone /\ CountsOnlyLoggedFailures
  /\ \A t \in Turns : Counting(t)

(* Logs are finite, so failures can be counted.                            *)
LEMMA FailuresAreCounted ==
  ASSUME BudgetInv, LogIsOfTheDone, NEW t \in Turns, NEW x \in Tools
  PROVE  /\ IsFiniteSet(Failed(x)) /\ Cardinality(Failed(x)) \in Nat
         /\ IsFiniteSet(FailedCalls(t, x))
         /\ Cardinality(FailedCalls(t, x)) \in Nat
         /\ Evidence(t, x) \in Nat
<1>1. turn[t].calls \in Seq(Call)
  BY DEF BudgetInv, Shape, Record_, Calls
<1>2. FailedCalls(t, x) \subseteq 1..Len(turn[t].calls)
  BY <1>1 DEF FailedCalls
<1>3. IsFiniteSet(1..Len(turn[t].calls))
  BY <1>1, FS_Interval
<1>4. IsFiniteSet(Failed(x)) /\ IsFiniteSet(FailedCalls(t, x))
  BY <1>2, <1>3, FS_Subset DEF LogIsOfTheDone, Failed
<1> QED
  BY <1>4, FS_CardinalityType DEF Evidence

(* As long as nothing is committed, what a turn leaves alone keeps its     *)
(* evidence.                                                               *)
LEMMA EvidenceStays ==
  ASSUME NEW t \in Turns, NEW x, UNCHANGED log,
         turn'[t].calls = turn[t].calls
  PROVE  Evidence(t, x)' = Evidence(t, x)
BY DEF Evidence, Failed, FailedCalls

(* A step of t before its commit.                                          *)
LEMMA CountedStep ==
  ASSUME CountInv, NEW t \in Turns, BudgetInv', UNCHANGED <<failures, log>>,
         pc[t] # "done", Counting(t)',
         \A u \in Turns \ {t} : pc'[u] = pc[u] /\ turn'[u] = turn[u]
  PROVE  CountInv'
<1>1. ASSUME NEW u \in Turns \ {t}
      PROVE  Counting(u)'
  <2>1. Counting(u) /\ pc'[u] = pc[u] /\ turn'[u] = turn[u]
    BY DEF CountInv
  <2>2. \A x : Evidence(u, x)' = Evidence(u, x)
    BY <2>1, EvidenceStays
  <2>3. Current(u)' = Current(u) /\ Recorded(u)' = Recorded(u)
    BY <2>1 DEF Current, Recorded
  <2> QED
    BY <2>1, <2>2, <2>3 DEF Counting
<1>2. LogIsOfTheDone'
  <2> SUFFICES ASSUME NEW x \in Tools, NEW r \in log[x]
               PROVE  r.turn \in Turns /\ pc'[r.turn] = "done"
    BY DEF CountInv, LogIsOfTheDone
  <2>1. r.turn \in Turns /\ pc[r.turn] = "done"
    BY DEF CountInv, LogIsOfTheDone
  <2> QED
    BY <2>1
<1>3. CountsOnlyLoggedFailures'
  BY DEF CountInv, CountsOnlyLoggedFailures, Failed
<1> QED
  BY <1>1, <1>2, <1>3 DEF CountInv

(* Steps that make no call, load nothing and write nothing.                *)
LEMMA QuietStep ==
  ASSUME CountInv, NEW t \in Turns,
         \/ Begin(t) \/ Complete(t) \/ CompletionFails(t) \/ Notice(t)
         \/ FollowUp(t) \/ Deadlock(t)
  PROVE  CountInv'
<1>1. turn[t] \in Record_ /\ turn \in [Turns -> Record_] /\ pc \in [Turns -> Labels]
  BY DEF CountInv, BudgetInv, Shape
<1>2. /\ turn'[t].calls = turn[t].calls /\ turn'[t].wrote = turn[t].wrote
      /\ \A u \in Turns \ {t} : pc'[u] = pc[u] /\ turn'[u] = turn[u]
      /\ UNCHANGED <<failures, log>>
      /\ pc'[t] \notin {"call", "record"} /\ pc[t] # "done"
  <2>1. CASE Begin(t) \/ FollowUp(t)
    BY <1>1, <2>1 DEF Begin, FollowUp, Goto
  <2>2. CASE CompletionFails(t) \/ Deadlock(t)
    <3>1. PICK label \in {"commit", "rollback", "aborted"} :
            pc' = [pc EXCEPT ![t] = label]
      BY <2>2 DEF CompletionFails, Deadlock, Goto
    <3>2. UNCHANGED <<failures, log, rowlock, turn>> /\ pc[t] # "done"
      BY <2>2 DEF CompletionFails, Deadlock, Waits
    <3> QED
      BY <1>1, <3>1, <3>2
  <2>3. CASE Notice(t)
    <3>1. turn' = [turn EXCEPT ![t].answers = Answered(t, "notice")]
      BY <2>3 DEF Notice
    <3>2. UNCHANGED <<failures, log, rowlock, pc>> /\ pc[t] = "loop"
      BY <2>3 DEF Notice
    <3> QED
      BY <1>1, <3>1, <3>2 DEF Record_
  <2>4. CASE Complete(t)
    <3>1. PICK asked \in Requests :
            LET go == GoesOn(t, asked) IN
            /\ turn' = [turn EXCEPT
                 ![t].completions = @ + 1,
                 ![t].usage = Usage(t),
                 ![t].asked = IF go THEN asked ELSE <<>>,
                 ![t].answers = <<>>]
            /\ pc' = [pc EXCEPT ![t] = IF go THEN "loop" ELSE "commit"]
      BY <2>4 DEF Complete, Goto
    <3>2. UNCHANGED <<failures, log, rowlock>> /\ pc[t] = "complete"
      BY <2>4 DEF Complete
    <3>3. /\ turn'[t].calls = turn[t].calls /\ turn'[t].wrote = turn[t].wrote
          /\ \A u \in Turns \ {t} : turn'[u] = turn[u]
      BY <1>1, <3>1 DEF Record_
    <3> QED
      BY <1>1, <3>1, <3>2, <3>3
  <2> QED
    BY <2>1, <2>2, <2>3, <2>4
<1>3. \A x : Evidence(t, x)' = Evidence(t, x)
  BY <1>2, EvidenceStays
<1>4. Counting(t)'
  BY <1>2, <1>3 DEF CountInv, Counting
<1>5. BudgetInv'
  BY GotoStep, CompleteStep, NoticeStep DEF CountInv
<1> QED
  BY <1>2, <1>4, <1>5, CountedStep

(* What is added to the calls of a turn is a failure of its tool or not.   *)
LEMMA CallAdded ==
  ASSUME CountInv, NEW t \in Turns, NEW c \in Call, UNCHANGED log,
         turn'[t].calls = Append(turn[t].calls, c), NEW x \in Tools
  PROVE  Evidence(t, x)' = Evidence(t, x)
           + IF c.tool = x /\ c.outcome = "failed" THEN 1 ELSE 0
<1> DEFINE calls == turn[t].calls
           n == Len(calls)
           old == FailedCalls(t, x)
<1>1. calls \in Seq(Call)
  BY DEF CountInv, BudgetInv, Shape, Record_, Calls
<1>2. /\ n \in Nat /\ DOMAIN Append(calls, c) = 1..(n + 1) /\ DOMAIN calls = 1..n
      /\ \A i \in 1..n : Append(calls, c)[i] = calls[i]
      /\ Append(calls, c)[n + 1] = c
  BY <1>1
<1> HIDE DEF n
<1>3. FailedCalls(t, x)' = old \cup
        IF c.tool = x /\ c.outcome = "failed" THEN {n + 1} ELSE {}
  BY <1>2 DEF FailedCalls
<1>4. n + 1 \notin old
  BY <1>2 DEF FailedCalls
<1>5. IsFiniteSet(old) /\ Cardinality(old) \in Nat /\ Cardinality(Failed(x)) \in Nat
  BY FailuresAreCounted DEF CountInv
<1> HIDE DEF old
<1>6. Cardinality(old \cup {n + 1}) = Cardinality(old) + 1
  BY <1>4, <1>5, FS_AddElement
<1>7. Failed(x)' = Failed(x)
  BY DEF Failed
<1>8. CASE c.tool = x /\ c.outcome = "failed"
  BY <1>3, <1>5, <1>6, <1>7, <1>8 DEF Evidence, old
<1>9. CASE ~(c.tool = x /\ c.outcome = "failed")
  <2>1. FailedCalls(t, x)' = FailedCalls(t, x)
    BY <1>3, <1>9 DEF old
  <2> QED
    BY <1>5, <1>7, <1>9, <2>1 DEF Evidence, old
<1> QED
  BY <1>8, <1>9

(* A call that is not sent is no failure.                                  *)
LEMMA UnsentCounts ==
  ASSUME CountInv, NEW t \in Turns, InvokeUnsent(t)
  PROVE  CountInv'
<1>1. PICK outcome \in {"unavailable", "unsent"} :
        turn' = [turn EXCEPT
          ![t].executed = @ + 1,
          ![t].calls = Append(@, [tool |-> Current(t), outcome |-> outcome]),
          ![t].answers = Answered(t, "result")]
  BY DEF InvokeUnsent
<1> DEFINE c == [tool |-> Current(t), outcome |-> outcome]
<1>2. /\ turn[t] \in Record_ /\ turn \in [Turns -> Record_]
      /\ Current(t) \in Tools
  BY CurrentIsATool DEF CountInv, BudgetInv, Shape, InvokeUnsent
<1>3. /\ turn'[t].calls = Append(turn[t].calls, c)
      /\ turn'[t].wrote = turn[t].wrote
      /\ \A u \in Turns \ {t} : turn'[u] = turn[u]
  BY <1>1, <1>2 DEF Record_
<1>4. /\ UNCHANGED <<failures, log, rowlock, pc>> /\ pc[t] = "loop"
      /\ c \in Call /\ c.outcome # "failed"
  BY <1>2 DEF InvokeUnsent, Call, Outcomes
<1> HIDE DEF c
<1>5. \A x \in Tools : Evidence(t, x)' = Evidence(t, x)
  <2> SUFFICES ASSUME NEW x \in Tools PROVE Evidence(t, x)' = Evidence(t, x)
    OBVIOUS
  <2>1. Evidence(t, x)' = Evidence(t, x)
           + IF c.tool = x /\ c.outcome = "failed" THEN 1 ELSE 0
    BY <1>3, <1>4, CallAdded
  <2>2. Evidence(t, x) \in Nat
    BY FailuresAreCounted DEF CountInv
  <2> QED
    BY <1>4, <2>1, <2>2
<1>6. Counting(t)'
  BY <1>3, <1>4, <1>5 DEF CountInv, Counting
<1>7. BudgetInv'
  BY InvokeUnsentStep DEF CountInv
<1> QED
  BY <1>3, <1>4, <1>6, <1>7, CountedStep

(* What a turn sees, it has evidence for: its own writes by what it has    *)
(* called, and what is committed by the log.                               *)
LEMMA SeenIsCounted ==
  ASSUME CountInv, NEW t \in Turns, NEW x \in Tools
  PROVE  Seen(t, x) <= Evidence(t, x)
<1>1. /\ turn[t].wrote[x] <= Evidence(t, x)
      /\ failures[x] <= Cardinality(Failed(x))
  BY DEF CountInv, Counting, CountsOnlyLoggedFailures
<1>2. failures[x] \in Int
  BY DEF CountInv, BudgetInv, Shape, Values
<1>3. /\ Cardinality(Failed(x)) \in Nat
      /\ Cardinality(FailedCalls(t, x)) \in Nat
  BY FailuresAreCounted DEF CountInv
<1>4. failures[x] <= Evidence(t, x)
  BY <1>1, <1>2, <1>3 DEF Evidence
<1> QED
  BY <1>1, <1>4 DEF Seen

(* A call begins with what was seen.                                       *)
LEMMA InvokeCounts ==
  ASSUME CountInv, NEW t \in Turns, Invoke(t)
  PROVE  CountInv'
<1>1. /\ turn[t] \in Record_ /\ turn \in [Turns -> Record_] /\ pc \in [Turns -> Labels]
      /\ Current(t) \in Tools
  BY CurrentIsATool DEF CountInv, BudgetInv, Shape, Invoke
<1>2. /\ turn' = [turn EXCEPT ![t].executed = @ + 1,
                              ![t].loaded = Seen(t, Current(t))]
      /\ pc' = [pc EXCEPT ![t] = "call"]
      /\ UNCHANGED <<failures, log, rowlock>> /\ pc[t] = "loop"
  BY DEF Invoke, Goto
<1>3. /\ turn'[t].calls = turn[t].calls /\ turn'[t].wrote = turn[t].wrote
      /\ turn'[t].loaded = Seen(t, Current(t))
      /\ turn'[t].asked = turn[t].asked /\ turn'[t].answers = turn[t].answers
      /\ pc'[t] = "call"
      /\ \A u \in Turns \ {t} : pc'[u] = pc[u] /\ turn'[u] = turn[u]
  BY <1>1, <1>2 DEF Record_
<1>4. \A x : Evidence(t, x)' = Evidence(t, x)
  BY <1>2, <1>3, EvidenceStays
<1>5. Current(t)' = Current(t)
  BY <1>3 DEF Current
<1>6. Counting(t)'
  BY <1>1, <1>3, <1>4, <1>5, SeenIsCounted DEF CountInv, Counting
<1>7. BudgetInv'
  BY InvokeStep DEF CountInv
<1> QED
  BY <1>2, <1>3, <1>6, <1>7, CountedStep

(* A failure that is about to be written has just been added.              *)
LEMMA ExecuteCounts ==
  ASSUME CountInv, NEW t \in Turns, Execute(t)
  PROVE  CountInv'
<1>1. PICK outcome \in {"succeeded", "failed"} :
        turn' = [turn EXCEPT
          ![t].calls = Append(@, [tool |-> Current(t), outcome |-> outcome])]
  BY DEF Execute
<1> DEFINE c == [tool |-> Current(t), outcome |-> outcome]
<1>2. /\ turn[t] \in Record_ /\ turn \in [Turns -> Record_] /\ pc \in [Turns -> Labels]
      /\ Spending(t) /\ Shape
  BY DEF CountInv, BudgetInv, Shape
<1>3. pc[t] = "call" /\ Current(t) \in Tools
  BY <1>2, CurrentIsATool DEF Execute, Spending
<1>4. /\ turn'[t].calls = Append(turn[t].calls, c)
      /\ turn'[t].wrote = turn[t].wrote /\ turn'[t].loaded = turn[t].loaded
      /\ turn'[t].asked = turn[t].asked /\ turn'[t].answers = turn[t].answers
      /\ \A u \in Turns \ {t} : turn'[u] = turn[u]
  BY <1>1, <1>2 DEF Record_
<1>5. /\ UNCHANGED <<failures, log, rowlock>> /\ pc' = [pc EXCEPT ![t] = "record"]
      /\ c \in Call /\ c.tool = Current(t)
  BY <1>3 DEF Execute, Goto, Call, Outcomes
<1>6. Last(turn'[t].calls) = c
  <2>1. turn[t].calls \in Seq(Call)
    BY <1>2 DEF Record_, Calls
  <2> HIDE DEF c
  <2> QED
    BY <1>4, <1>5, <2>1 DEF Last
<1> HIDE DEF c
<1>7. ASSUME NEW x \in Tools
      PROVE  /\ Evidence(t, x) <= Evidence(t, x)' /\ Evidence(t, x) \in Nat
             /\ c.tool = x /\ c.outcome = "failed" => Evidence(t, x)' = Evidence(t, x) + 1
             /\ Evidence(t, x)' \in Nat
  <2>1. Evidence(t, x)' = Evidence(t, x)
           + IF c.tool = x /\ c.outcome = "failed" THEN 1 ELSE 0
    BY <1>4, <1>5, CallAdded
  <2>2. Evidence(t, x) \in Nat
    BY FailuresAreCounted DEF CountInv
  <2> QED
    BY <2>1, <2>2
<1>8. Current(t)' = Current(t)
  BY <1>4 DEF Current
<1>9. Recorded(t)' <= Evidence(t, Current(t))'
  <2>1. /\ turn[t].loaded <= Evidence(t, Current(t))
        /\ turn[t].loaded \in Int
    BY <1>2, <1>3 DEF CountInv, Counting, Record_
  <2>2. Recorded(t)' = IF c.outcome = "failed" THEN turn[t].loaded + 1 ELSE 0
    BY <1>4, <1>6 DEF Recorded
  <2>3. /\ Evidence(t, Current(t)) \in Nat /\ Evidence(t, Current(t))' \in Nat
        /\ c.outcome = "failed" =>
             Evidence(t, Current(t))' = Evidence(t, Current(t)) + 1
    BY <1>3, <1>5, <1>7, <1>8
  <2> QED
    BY <2>1, <2>2, <2>3
<1>10. Counting(t)'
  <2>1. \A x \in Tools : turn'[t].wrote[x] <= Evidence(t, x)'
    <3> SUFFICES ASSUME NEW x \in Tools PROVE turn'[t].wrote[x] <= Evidence(t, x)'
      OBVIOUS
    <3>1. turn[t].wrote[x] <= Evidence(t, x) /\ turn[t].wrote[x] \in Int
      BY <1>2 DEF CountInv, Counting, Record_, Values
    <3> QED
      BY <1>4, <1>7, <3>1
  <2> QED
    BY <1>2, <1>5, <1>9, <2>1 DEF Counting
<1>11. BudgetInv'
  BY ExecuteStep DEF CountInv
<1>12. \A u \in Turns \ {t} : pc'[u] = pc[u]
  BY <1>2, <1>5
<1> QED
  BY <1>3, <1>4, <1>5, <1>10, <1>11, <1>12, CountedStep

(* It is written as counted.                                               *)
LEMMA RecordCounts ==
  ASSUME CountInv, NEW t \in Turns, Record(t)
  PROVE  CountInv'
<1> DEFINE x == Current(t)
           value == IF Recorded(t) = turn[t].loaded THEN turn[t].wrote[x]
                    ELSE Recorded(t)
           wrote == [turn[t].wrote EXCEPT ![x] = value]
<1>1. /\ turn[t] \in Record_ /\ turn \in [Turns -> Record_] /\ pc \in [Turns -> Labels]
      /\ Spending(t) /\ Shape /\ Counting(t)
  BY DEF CountInv, BudgetInv, Shape
<1>2. pc[t] = "record" /\ x \in Tools
  BY <1>1, CurrentIsATool DEF Record, Spending
<1>3. /\ turn' = [turn EXCEPT ![t].wrote[x] = value,
                              ![t].answers = Answered(t, "result")]
      /\ pc' = [pc EXCEPT ![t] = "loop"] /\ UNCHANGED <<failures, log>>
  BY DEF Record, Goto
<1>4. /\ turn'[t].calls = turn[t].calls /\ turn'[t].wrote = wrote
      /\ \A u \in Turns \ {t} : pc'[u] = pc[u] /\ turn'[u] = turn[u]
      /\ pc'[t] = "loop"
  BY <1>1, <1>3 DEF Record_
<1>5. turn[t].wrote[x] <= Evidence(t, x) /\ Recorded(t) <= Evidence(t, x)
  BY <1>1, <1>2 DEF Counting
<1>6. value <= Evidence(t, x)
  BY <1>5
<1> HIDE DEF value
<1>7. \A y \in Tools : wrote[y] <= Evidence(t, y)
  BY <1>1, <1>2, <1>6 DEF Counting, Record_, Values
<1> HIDE DEF wrote
<1>8. \A y : Evidence(t, y)' = Evidence(t, y)
  BY <1>3, <1>4, EvidenceStays
<1>9. Counting(t)'
  BY <1>4, <1>7, <1>8 DEF Counting
<1>10. BudgetInv'
  BY RecordStep DEF CountInv
<1> QED
  BY <1>2, <1>3, <1>4, <1>9, <1>10, CountedStep

(* A turn that is over has written nothing any more.                       *)
LEMMA ClosedCounts ==
  ASSUME CountInv, NEW t \in Turns, turn' = Closed(t), BudgetInv', LogIsOfTheDone',
         pc'[t] \in Over
  PROVE  Counting(t)'
<1>1. turn \in [Turns -> Record_]
  BY DEF CountInv, BudgetInv, Shape
<1>2. turn'[t].wrote = [x \in Tools |-> Unwritten]
  BY <1>1 DEF Closed, NewTurn
<1>3. ASSUME NEW x \in Tools PROVE Evidence(t, x)' \in Nat
  <2>1. FailedCalls(t, x)' = FailedCalls(t, x)
    BY <1>1 DEF Closed, FailedCalls
  <2>2. Cardinality(FailedCalls(t, x)) \in Nat
    BY FailuresAreCounted DEF CountInv
  <2>3. IsFiniteSet(Failed(x)')
    BY FS_Subset DEF LogIsOfTheDone, Failed
  <2> QED
    BY <2>1, <2>2, <2>3, FS_CardinalityType DEF Evidence
<1> QED
  BY <1>2, <1>3 DEF Counting, Unwritten, Over

(* A turn that comes to nothing leaves the log and the counts alone.       *)
LEMMA UndoneCounts ==
  ASSUME CountInv, NEW t \in Turns, Rollback(t) \/ Crash(t)
  PROVE  CountInv'
<1>1. PICK label \in {"failed", "raised", "crashed"} :
        pc' = [pc EXCEPT ![t] = label]
  BY DEF Rollback, Crash, Goto
<1>2. /\ turn' = Closed(t) /\ UNCHANGED <<failures, log>> /\ pc[t] # "done"
  BY DEF Rollback, Crash, Over
<1>3. pc \in [Turns -> Labels] /\ turn \in [Turns -> Record_]
  BY DEF CountInv, BudgetInv, Shape
<1>4. /\ \A u \in Turns \ {t} : pc'[u] = pc[u] /\ turn'[u] = turn[u]
      /\ pc'[t] = label
  BY <1>1, <1>2, <1>3 DEF Closed
<1>5. BudgetInv'
  BY EndStep DEF CountInv
<1>6. LogIsOfTheDone'
  <2> SUFFICES ASSUME NEW x \in Tools, NEW r \in log[x]
               PROVE  r.turn \in Turns /\ pc'[r.turn] = "done"
    BY <1>2 DEF CountInv, LogIsOfTheDone
  <2>1. r.turn \in Turns /\ pc[r.turn] = "done"
    BY DEF CountInv, LogIsOfTheDone
  <2> QED
    BY <1>2, <1>4, <2>1
<1>7. Counting(t)'
  BY <1>2, <1>4, <1>5, <1>6, ClosedCounts DEF Over
<1> QED
  BY <1>2, <1>4, <1>5, <1>7, CountedStep

(* The rows that a turn logs of its failures.                              *)
LEMMA LoggedAreCounted ==
  ASSUME CountInv, NEW t \in Turns, pc[t] = "commit", NEW x \in Tools
  PROVE  LET of == {r \in Logged(t, x) : r.outcome = "failed"}
         IN  /\ IsFiniteSet(of) /\ Cardinality(of) = Cardinality(FailedCalls(t, x))
             /\ Failed(x) \cap of = {} /\ IsFiniteSet(Logged(t, x))
<1> DEFINE calls == turn[t].calls
           fs == FailedCalls(t, x)
           of == {r \in Logged(t, x) : r.outcome = "failed"}
           row == [i \in fs |-> [turn |-> t, call |-> i, outcome |-> calls[i].outcome]]
<1>1. IsFiniteSet(fs)
  BY FailuresAreCounted DEF CountInv
<1>2. of = {[turn |-> t, call |-> i, outcome |-> calls[i].outcome] : i \in fs}
  BY DEF Logged, FailedCalls
<1>3. row \in Bijection(fs, of)
  BY <1>2 DEF Bijection, Injection, Surjection, IsInjective
<1> HIDE DEF row
<1>4. ExistsBijection(fs, of)
  BY <1>3 DEF ExistsBijection
<1>5. IsFiniteSet(of) /\ Cardinality(of) = Cardinality(fs)
  BY <1>1, <1>4, FS_Bijection
<1>6. Failed(x) \cap of = {}
  BY <1>2 DEF CountInv, LogIsOfTheDone, Failed
<1>7. IsFiniteSet(Logged(t, x))
  <2> DEFINE is == {i \in DOMAIN calls : calls[i].tool = x /\ calls[i].outcome # "unavailable"}
             entry == [i \in is |-> [turn |-> t, call |-> i, outcome |-> calls[i].outcome]]
  <2>1. calls \in Seq(Call)
    BY DEF CountInv, BudgetInv, Shape, Record_, Calls
  <2>2. is \subseteq 1..Len(calls) /\ IsFiniteSet(1..Len(calls))
    BY <2>1, FS_Interval
  <2>3. IsFiniteSet(is)
    BY <2>2, FS_Subset
  <2>4. entry \in Surjection(is, Logged(t, x))
    BY DEF Logged, Surjection
  <2> HIDE DEF is, entry
  <2> QED
    BY <2>3, <2>4, FS_Surjection
<1> QED
  BY <1>5, <1>6, <1>7

(* What is committed was counted with the rows that are.                   *)
LEMMA CommitCounts ==
  ASSUME CountInv, NEW t \in Turns, Commit(t)
  PROVE  CountInv'
<1>1. /\ pc[t] = "commit" /\ turn' = Closed(t) /\ pc' = [pc EXCEPT ![t] = "done"]
      /\ failures' = [x \in Tools |-> Seen(t, x)]
      /\ log' = [x \in Tools |-> log[x] \cup Logged(t, x)]
  BY DEF Commit, Goto
<1>2. /\ pc \in [Turns -> Labels] /\ turn \in [Turns -> Record_]
      /\ BudgetInv /\ LogIsOfTheDone
  BY DEF CountInv, BudgetInv, Shape
<1>3. /\ \A u \in Turns \ {t} : pc'[u] = pc[u] /\ turn'[u] = turn[u]
      /\ pc'[t] = "done" /\ turn'[t].calls = turn[t].calls
  BY <1>1, <1>2 DEF Closed, NewTurn
<1>4. BudgetInv'
  BY EndStep DEF CountInv
<1>5. ASSUME NEW x \in Tools
      PROVE  /\ Cardinality(Failed(x)') = Evidence(t, x)
             /\ Cardinality(Failed(x)') \in Nat
             /\ Cardinality(Failed(x)) <= Cardinality(Failed(x)')
             /\ IsFiniteSet(log'[x])
  <2> DEFINE of == {r \in Logged(t, x) : r.outcome = "failed"}
  <2>1. /\ IsFiniteSet(of) /\ Cardinality(of) = Cardinality(FailedCalls(t, x))
        /\ Failed(x) \cap of = {} /\ IsFiniteSet(Logged(t, x))
    BY <1>1, LoggedAreCounted
  <2>2. Failed(x)' = Failed(x) \cup of
    BY <1>1 DEF Failed
  <2> HIDE DEF of
  <2>3. /\ IsFiniteSet(Failed(x)) /\ Cardinality(Failed(x)) \in Nat
        /\ Cardinality(FailedCalls(t, x)) \in Nat
    BY <1>2, FailuresAreCounted
  <2>4. Cardinality(Failed(x) \cup of) =
          Cardinality(Failed(x)) + Cardinality(of) - Cardinality(Failed(x) \cap of)
    BY <2>1, <2>3, FS_Union
  <2>5. Cardinality({}) = 0
    BY FS_EmptySet
  <2>6. IsFiniteSet(log'[x])
    BY <1>1, <1>2, <2>1, FS_Union DEF LogIsOfTheDone
  <2>7. Cardinality(Failed(x)') = Cardinality(Failed(x)) + Cardinality(FailedCalls(t, x))
    <3>1. Cardinality(Failed(x) \cap of) = 0
      BY <2>1, <2>5
    <3> QED
      BY <2>1, <2>2, <2>3, <2>4, <3>1
  <2> QED
    BY <2>3, <2>6, <2>7 DEF Evidence
<1>6. LogIsOfTheDone'
  <2> SUFFICES ASSUME NEW x \in Tools, NEW r \in log'[x]
               PROVE  r.turn \in Turns /\ pc'[r.turn] = "done"
    BY <1>5 DEF LogIsOfTheDone
  <2>1. CASE r \in log[x]
    BY <1>2, <1>3, <2>1 DEF LogIsOfTheDone
  <2>2. CASE r \in Logged(t, x)
    BY <1>3, <2>2 DEF Logged
  <2> QED
    BY <1>1, <2>1, <2>2
<1>7. CountsOnlyLoggedFailures'
  <2> SUFFICES ASSUME NEW x \in Tools PROVE failures'[x] <= Cardinality(Failed(x)')
    BY DEF CountsOnlyLoggedFailures
  <2> QED
    BY <1>1, <1>5, SeenIsCounted
<1>8. ASSUME NEW u \in Turns \ {t} PROVE Counting(u)'
  <2>1. /\ turn'[u] = turn[u] /\ pc'[u] = pc[u] /\ Counting(u) /\ turn[u] \in Record_
        /\ Spending(u) /\ Shape
    BY <1>2, <1>3 DEF CountInv, BudgetInv, Shape
  <2>2. ASSUME NEW x \in Tools PROVE Evidence(u, x) <= Evidence(u, x)' /\ Evidence(u, x) \in Nat
                                    /\ Evidence(u, x)' \in Nat
    <3>1. FailedCalls(u, x)' = FailedCalls(u, x)
      BY <2>1 DEF FailedCalls
    <3>2. /\ Cardinality(Failed(x)) \in Nat
          /\ Cardinality(FailedCalls(u, x)) \in Nat
      BY <1>2, FailuresAreCounted
    <3> QED
      BY <1>5, <3>1, <3>2 DEF Evidence
  <2>3. Current(u)' = Current(u) /\ Recorded(u)' = Recorded(u)
    BY <2>1 DEF Current, Recorded
  <2>4. \A x \in Tools : turn[u].wrote[x] \in Int /\ turn[u].loaded \in Int
    BY <2>1 DEF Record_, Values
  <2>5. Recorded(u) \in Int
    BY <2>1 DEF Recorded, Record_
  <2>6. pc[u] \in {"call", "record"} => Current(u) \in Tools
    BY <2>1, CurrentIsATool DEF Spending
  <2>7. \A x \in Tools : turn[u].wrote[x] <= Evidence(u, x)'
    BY <2>1, <2>2, <2>4 DEF Counting
  <2>8. pc[u] = "call" => turn[u].loaded <= Evidence(u, Current(u))'
    BY <2>1, <2>2, <2>3, <2>4, <2>6 DEF Counting
  <2>9. pc[u] = "record" => Recorded(u) <= Evidence(u, Current(u))'
    BY <2>1, <2>2, <2>3, <2>5, <2>6 DEF Counting
  <2> QED
    BY <2>1, <2>3, <2>7, <2>8, <2>9 DEF Counting
<1>9. Counting(t)'
  BY <1>1, <1>3, <1>4, <1>6, ClosedCounts DEF Over
<1> QED
  BY <1>4, <1>6, <1>7, <1>8, <1>9 DEF CountInv

(* Every step keeps the counts.                                            *)
LEMMA CountStep == CountInv /\ [Next]_vars => CountInv'
<1> SUFFICES ASSUME CountInv, [Next]_vars PROVE CountInv'
  OBVIOUS
<1>1. CASE UNCHANGED vars
  <2>1. UNCHANGED <<failures, log, rowlock, pc, turn>>
    BY <1>1 DEF vars
  <2>2. BudgetInv'
    BY <1>1, BudgetStep DEF CountInv
  <2> QED
    BY <2>1, <2>2 DEF CountInv, LogIsOfTheDone, CountsOnlyLoggedFailures, Counting,
       Evidence, Failed, FailedCalls, Current, Recorded
<1>2. ASSUME NEW t \in Turns, Begin(t) \/ Progress(t) \/ Crash(t)
      PROVE  CountInv'
  BY <1>2, QuietStep, UnsentCounts, InvokeCounts, ExecuteCounts, RecordCounts,
     CommitCounts, UndoneCounts DEF Progress
<1>3. CASE Finished
  BY <1>1, <1>3 DEF Finished
<1> QED
  BY <1>1, <1>2, <1>3 DEF Next

(* Nothing is logged and nothing counted in the beginning.                 *)
LEMMA CountInit == Init => CountInv
<1> SUFFICES ASSUME Init PROVE CountInv
  OBVIOUS
<1>1. BudgetInv
  BY BudgetInit
<1>2. LogIsOfTheDone
  BY FS_EmptySet DEF Init, LogIsOfTheDone
<1>3. \A x \in Tools : Cardinality(Failed(x)) \in Nat
  BY <1>2, FS_Subset, FS_CardinalityType DEF LogIsOfTheDone, Failed
<1>4. CountsOnlyLoggedFailures
  BY <1>3 DEF Init, CountsOnlyLoggedFailures
<1>5. ASSUME NEW t \in Turns PROVE Counting(t)
  <2>1. \A x \in Tools : Evidence(t, x) \in Nat
    BY <1>1, <1>2, FailuresAreCounted
  <2> QED
    BY <2>1 DEF Init, NewTurn, Counting, Unwritten
<1> QED
  BY <1>1, <1>2, <1>4, <1>5 DEF CountInv

(* ToolService._record_failure: however many turns overlap, fail and roll  *)
(* back, consecutive_failures never counts a failure that is not among the *)
(* committed rows of tool_call.                                            *)
THEOREM FailuresAreLogged == Spec => []CountsOnlyLoggedFailures
<1>1. CountInv => CountsOnlyLoggedFailures
  BY DEF CountInv
<1> QED
  BY <1>1, CountInit, CountStep, PTL DEF Spec

=============================================================================
