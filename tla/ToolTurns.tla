----------------------------- MODULE ToolTurns -----------------------------
(***************************************************************************)
(* Turns of agents with tools: the loop that runs what the model asks for  *)
(* within a budget of calls, and the calls themselves, which log to        *)
(* tool_call and keep each tool's consecutive_failures                     *)
(* (src/src/modules/conversations/internal/tool_loop.py and                *)
(* src/src/modules/tools/domain/services.py).                              *)
(*                                                                         *)
(* Every turn is one READ COMMITTED transaction from its first statement   *)
(* to its commit.  The turns here are of different conversations, so no    *)
(* conversation lock orders them; they share the rows of the tools.  The   *)
(* first UPDATE of a tool row locks it until the turn ends.                *)
(***************************************************************************)
EXTENDS Integers, Sequences, FiniteSets, SequencesExt

CONSTANTS
  Turns,     \* turns, each of its own conversation
  Tools,     \* the agent's tools
  MaxCalls,  \* max_calls_per_turn
  Requests,  \* bound: the lists of calls a completion may ask for
  Callers,   \* how turns are run, see AllCallers
  NoOne      \* nobody has locked the row

(* "buffered": rolled back when it fails, and so is a streamed turn with   *)
(* tools.  "whatsapp": a provider failure is recorded and committed.       *)
AllCallers == {"buffered", "whatsapp"}

(* max_calls_per_turn() returns at least one.                              *)
ASSUME ToolsAssumption ==
  /\ MaxCalls \in Nat \ {0}
  /\ Requests \subseteq Seq(Tools)
  /\ Callers \subseteq AllCallers
  /\ NoOne \notin Turns

(* "unavailable": no enabled tool of that name; not logged.  "unsent": the *)
(* arguments were refused or the cache answered; logged.  The others made  *)
(* the HTTP call.                                                          *)
Outcomes == {"unavailable", "unsent", "succeeded", "failed"}

VARIABLES
  failures,  \* [Tools -> committed consecutive_failures]
  log,       \* [Tools -> the committed tool_call rows]
  rowlock,   \* [Tools -> the turn whose uncommitted UPDATE holds the row]
  pc,        \* [Turns -> what the turn does next]
  turn       \* [Turns -> the turn's private state]

vars == <<failures, log, rowlock, pc, turn>>

Unwritten == -1

(* asked: the calls of the current completion; answers: what was given     *)
(* back for them so far; executed, calls, usage: the loop's variables of   *)
(* these names; completions: provider calls that answered;                 *)
(* loaded: consecutive_failures as by_name read it; wrote: the values this *)
(* transaction has written.                                                *)
NewTurn ==
  [asked |-> <<>>, answers |-> <<>>, executed |-> 0, calls |-> <<>>,
   usage |-> 0, completions |-> 0, loaded |-> 0,
   wrote |-> [x \in Tools |-> Unwritten]]

Init ==
  /\ failures = [x \in Tools |-> 0]
  /\ log = [x \in Tools |-> {}]
  /\ rowlock = [x \in Tools |-> NoOne]
  /\ pc = [t \in Turns |-> "idle"]
  /\ turn = [t \in Turns |-> NewTurn]

Goto(t, label) == pc' = [pc EXCEPT ![t] = label]

(* The call the loop is at, and whether there is one.                      *)
Unanswered(t) == Len(turn[t].answers) < Len(turn[t].asked)
Current(t) == turn[t].asked[Len(turn[t].answers) + 1]

Answered(t, answer) == Append(turn[t].answers, answer)

-----------------------------------------------------------------------------
(* The loop.                                                               *)

Begin(t) ==
  /\ pc[t] = "idle"
  /\ Goto(t, "complete")
  /\ UNCHANGED <<failures, log, rowlock, turn>>

(* Mutant: the loop goes on for as long as the model asks.                 *)
GoesOn_NoBreak(t, asked) == asked # <<>>

(* The while condition, and the break once the budget is spent.            *)
GoesOn(t, asked) == asked # <<>> /\ turn[t].executed < MaxCalls

(* Mutant: only the last completion is reported.                           *)
Usage_Last(t) == 1

Usage(t) == turn[t].usage + 1

(* The provider answers, asking for some calls or none; without calls, or  *)
(* with the budget spent, the answer is stored.                            *)
Complete(t) ==
  /\ pc[t] = "complete"
  /\ \E asked \in Requests :
       LET go == GoesOn(t, asked) IN
       /\ turn' = [turn EXCEPT
            ![t].completions = @ + 1,
            ![t].usage = Usage(t),
            ![t].asked = IF go THEN asked ELSE <<>>,
            ![t].answers = <<>>]
       /\ Goto(t, IF go THEN "loop" ELSE "commit")
  /\ UNCHANGED <<failures, log, rowlock>>

(* The provider fails: PROVIDER_UNAVAILABLE.                               *)
CompletionFails(t) ==
  /\ pc[t] = "complete"
  /\ \E caller \in Callers :
       Goto(t, IF caller = "whatsapp" THEN "commit" ELSE "rollback")
  /\ UNCHANGED <<failures, log, rowlock, turn>>

Spent(t) == turn[t].executed >= MaxCalls

(* BUDGET_EXHAUSTED takes the place of a result.                           *)
Notice(t) ==
  /\ pc[t] = "loop" /\ Unanswered(t) /\ Spent(t)
  /\ turn' = [turn EXCEPT ![t].answers = Answered(t, "notice")]
  /\ UNCHANGED <<failures, log, rowlock, pc>>

FollowUp(t) ==
  /\ pc[t] = "loop" /\ ~Unanswered(t)
  /\ Goto(t, "complete")
  /\ UNCHANGED <<failures, log, rowlock, turn>>

-----------------------------------------------------------------------------
(* ToolService.invoke.                                                     *)

(* What a select of tool x sees: this transaction's writes, else what is   *)
(* committed.                                                              *)
Seen(t, x) ==
  IF turn[t].wrote[x] # Unwritten THEN turn[t].wrote[x] ELSE failures[x]

(* The tool is not there, the arguments are refused, or the cache answers: *)
(* the tool row is not touched.                                            *)
InvokeUnsent(t) ==
  /\ pc[t] = "loop" /\ Unanswered(t) /\ ~Spent(t)
  /\ \E outcome \in {"unavailable", "unsent"} :
       turn' = [turn EXCEPT
         ![t].executed = @ + 1,
         ![t].calls = Append(@, [tool |-> Current(t), outcome |-> outcome]),
         ![t].answers = Answered(t, "result")]
  /\ UNCHANGED <<failures, log, rowlock, pc>>

(* by_name reads the row, and the HTTP call starts.                        *)
Invoke(t) ==
  /\ pc[t] = "loop" /\ Unanswered(t) /\ ~Spent(t)
  /\ turn' = [turn EXCEPT ![t].executed = @ + 1,
                          ![t].loaded = Seen(t, Current(t))]
  /\ Goto(t, "call")
  /\ UNCHANGED <<failures, log, rowlock>>

(* The call ends, by an answer or a timeout, and is logged.                *)
Execute(t) ==
  /\ pc[t] = "call"
  /\ \E outcome \in {"succeeded", "failed"} :
       turn' = [turn EXCEPT
         ![t].calls = Append(@, [tool |-> Current(t), outcome |-> outcome])]
  /\ Goto(t, "record")
  /\ UNCHANGED <<failures, log, rowlock>>

(* Mutant: every call counts as a failure until the next success.          *)
Recorded_Always(t) == turn[t].loaded + 1

(* consecutive_failures as _record_success and _record_failure set it.     *)
Recorded(t) ==
  IF Last(turn[t].calls).outcome = "failed" THEN turn[t].loaded + 1 ELSE 0

(* Both update the row, and wait for it; a column that is set to the value *)
(* it was loaded with is not part of the UPDATE.                           *)
Record(t) ==
  LET x == Current(t) IN
  /\ pc[t] = "record"
  /\ rowlock[x] \in {NoOne, t}
  /\ rowlock' = [rowlock EXCEPT ![x] = t]
  /\ turn' = [turn EXCEPT
       ![t].wrote[x] = IF Recorded(t) = turn[t].loaded THEN @ ELSE Recorded(t),
       ![t].answers = Answered(t, "result")]
  /\ Goto(t, "loop")
  /\ UNCHANGED <<failures, log>>

-----------------------------------------------------------------------------
(* The end of a transaction.                                               *)

(* The turn that t waits for.                                              *)
Waits(t) == pc[t] = "record" /\ rowlock[Current(t)] \notin {NoOne, t}
WaitsFor(t) == rowlock[Current(t)]

(* Postgres finds a cycle of waits that t is in and raises in t: invoke    *)
(* does not catch it.                                                      *)
Deadlock(t) ==
  /\ \E cycle \in SUBSET Turns :
       /\ t \in cycle
       /\ \A u \in cycle : Waits(u)
       /\ {WaitsFor(u) : u \in cycle} = cycle
  /\ Goto(t, "aborted")
  /\ UNCHANGED <<failures, log, rowlock, turn>>

(* Mutant: the connection goes back to the pool with its transaction open. *)
Released_Kept(t) == rowlock

Released(t) == [x \in Tools |-> IF rowlock[x] = t THEN NoOne ELSE rowlock[x]]

(* The tool_call rows of turn t for tool x.                                *)
Logged(t, x) ==
  LET calls == turn[t].calls
  IN {[turn |-> t, call |-> i, outcome |-> calls[i].outcome] :
        i \in {i \in DOMAIN calls :
                calls[i].tool = x /\ calls[i].outcome # "unavailable"}}

(* Of a turn that is over, the calls it made are remembered.               *)
Closed(t) == [turn EXCEPT ![t] = [NewTurn EXCEPT !.calls = turn[t].calls]]

Commit(t) ==
  /\ pc[t] = "commit"
  /\ failures' = [x \in Tools |-> Seen(t, x)]
  /\ log' = [x \in Tools |-> log[x] \cup Logged(t, x)]
  /\ rowlock' = Released(t)
  /\ turn' = Closed(t)
  /\ Goto(t, "done")

Rollback(t) ==
  /\ pc[t] \in {"rollback", "aborted"}
  /\ rowlock' = Released(t)
  /\ turn' = Closed(t)
  /\ Goto(t, IF pc[t] = "rollback" THEN "failed" ELSE "raised")
  /\ UNCHANGED <<failures, log>>

Over == {"done", "failed", "raised", "crashed"}

Crash(t) ==
  /\ pc[t] \notin Over \cup {"idle"}
  /\ rowlock' = Released(t)
  /\ turn' = Closed(t)
  /\ Goto(t, "crashed")
  /\ UNCHANGED <<failures, log>>

-----------------------------------------------------------------------------
Progress(t) ==
  \/ Complete(t) \/ CompletionFails(t) \/ Notice(t) \/ FollowUp(t)
  \/ InvokeUnsent(t) \/ Invoke(t) \/ Execute(t) \/ Record(t)
  \/ Deadlock(t) \/ Commit(t) \/ Rollback(t)

Finished ==
  /\ \A t \in Turns : pc[t] \in Over
  /\ UNCHANGED vars

Next ==
  \/ \E t \in Turns : Begin(t) \/ Progress(t) \/ Crash(t)
  \/ Finished

(* A turn that has begun goes on: provider and tool calls have timeouts,   *)
(* statements return, a free row is granted, and Postgres breaks cycles.   *)
Spec == Init /\ [][Next]_vars /\ \A t \in Turns : WF_vars(Progress(t))

-----------------------------------------------------------------------------
(* Properties.                                                             *)

Call == [tool : Tools, outcome : Outcomes]
Labels == {"idle", "complete", "loop", "call", "record", "commit",
           "rollback", "aborted"} \cup Over

TypeOK ==
  /\ failures \in [Tools -> Nat]
  /\ rowlock \in [Tools -> Turns \cup {NoOne}]
  /\ pc \in [Turns -> Labels]
  /\ \A x \in Tools : log[x] \subseteq [turn : Turns, call : Nat, outcome : Outcomes]
  /\ \A t \in Turns :
       /\ turn[t].asked \in Seq(Tools) /\ turn[t].calls \in Seq(Call)
       /\ turn[t].answers \in Seq({"result", "notice"})
       /\ turn[t].wrote \in [Tools -> Nat \cup {Unwritten}]

(* The budget bounds what one message can cost, whatever the model asks:   *)
(* the calls executed, the rounds, and the completions that are paid for.  *)
BudgetBoundsATurn ==
  \A t \in Turns :
    /\ turn[t].executed <= MaxCalls
    /\ turn[t].completions <= MaxCalls + 1

(* The usage that is reported is that of every completion of the loop.     *)
UsageCoversEveryCompletion ==
  \A t \in Turns : turn[t].usage = turn[t].completions

Failed(x) == {r \in log[x] : r.outcome = "failed"}

(* A failure count may be out of date, but it never counts a failure that  *)
(* is not in the call log, however turns overlap, fail and roll back.      *)
CountsOnlyLoggedFailures ==
  \A x \in Tools : failures[x] <= Cardinality(Failed(x))

(* No turn waits for ever: not for a tool's row, not in the loop.          *)
EveryTurnEnds == \A t \in Turns : pc[t] = "complete" ~> pc[t] \in Over

(* invoke: never raises - a failure is a result.                           *)
InvokeNeverRaises == \A t \in Turns : pc[t] # "aborted"
=============================================================================
