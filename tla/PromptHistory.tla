--------------------------- MODULE PromptHistory ---------------------------
(***************************************************************************)
(* What the model is shown of one conversation: the history is trimmed to  *)
(* a budget from its oldest end, in whole exchanges, and what falls out is *)
(* folded into a running summary that the system prompt carries            *)
(* (src/src/modules/conversations: _prepare, _history_for_prompt,          *)
(* _fold_into_summary, internal/history).                                  *)
(*                                                                         *)
(* The turns of one conversation run one after another, which              *)
(* ConversationTurns shows, so this module has one turn at a time.  A turn *)
(* is told apart by its role and its length; a summary by the turns that   *)
(* were folded into it, in order.  A turn that is rolled back leaves       *)
(* nothing and is left out.                                                *)
(***************************************************************************)
EXTENDS Integers, Sequences

CONSTANTS
  MaxHistory,  \* bound: spoken rows in the conversation
  MaxSize,     \* bound: characters of one row
  MaxBudget    \* bound: characters left for history

ASSUME PromptAssumption ==
  MaxHistory \in Nat /\ MaxSize \in Nat /\ MaxBudget \in Nat

Roles == {"user", "assistant"}
HistoryTurn == [role : Roles, characters : 0..MaxSize]

VARIABLES
  history,  \* the spoken rows, oldest first
  summary,  \* the positions whose text was folded into conversation.summary
  through,  \* conversation.summarised_through
  prompt,   \* what the last prompt was built from
  pc        \* what the running turn does next

vars == <<history, summary, through, prompt, pc>>

(* carried: the summary in the system prompt; dropped, length: how many of *)
(* the oldest rows were left out of a history of how many; times: the      *)
(* prompts the running turn has built.                                     *)
NoPrompt == [carried |-> <<>>, dropped |-> 0, length |-> 0, times |-> 0]

Init ==
  /\ history = <<>>
  /\ summary = <<>>
  /\ through = 0
  /\ prompt = NoPrompt
  /\ pc = "idle"

(* What is left for history after the system prompt and the output have    *)
(* their share: anything from nothing, as the model, the passages found    *)
(* and the summary change from turn to turn.                               *)
history_budget == 0..MaxBudget

(* How many rows are taken with row i: an answer is taken together with    *)
(* the question right before it.                                           *)
(* Mutant: rows are taken one by one.                                      *)
Exchange_Split(turns, i) == 1

Exchange(turns, i) ==
  IF /\ turns[i].role = "assistant" /\ i > 1 /\ turns[i - 1].role = "user"
  THEN 2 ELSE 1

(* trim: the number of oldest rows dropped.  Walks backwards over whole    *)
(* exchanges while they fit.                                               *)
trim(turns, budget) ==
  LET size(i) == IF Exchange(turns, i) = 2
                 THEN turns[i - 1].characters + turns[i].characters
                 ELSE turns[i].characters
      walk[i \in 0..Len(turns)] ==
        [room \in 0..budget |->
           IF i = 0 THEN 0
           ELSE IF size(i) > room THEN i
           ELSE walk[i - Exchange(turns, i)][room - size(i)]]
  IN walk[Len(turns)][budget]

(* Mutant: everything dropped is folded again.                             *)
Fresh_All(already, dropped) == [i \in 1..dropped |-> i]

(* dropped[already:], by position.                                         *)
Fresh(already, dropped) ==
  IF dropped > already THEN [i \in 1..(dropped - already) |-> already + i]
  ELSE <<>>

SummarisedThrough(already, dropped) == dropped

(* Mutant: the new summary is made of the fresh rows alone.                *)
Updated_Forgets(previous, fresh) == fresh

(* summarise: the previous summary is updated with the fresh rows.         *)
Updated(previous, fresh) == previous \o fresh

-----------------------------------------------------------------------------
(* A guardrail answers: both rows are stored and no prompt is built.       *)
Guarded ==
  /\ pc = "idle"
  /\ Len(history) + 2 <= MaxHistory
  /\ \E q, a \in 1..MaxSize :
       history' = history \o <<[role |-> "user", characters |-> q],
                               [role |-> "assistant", characters |-> a]>>
  /\ UNCHANGED <<summary, through, prompt, pc>>

(* The user's message is stored; it is sent as the live message.           *)
Ask ==
  /\ pc = "idle"
  /\ Len(history) + 2 <= MaxHistory
  /\ \E q \in 1..MaxSize :
       history' = Append(history, [role |-> "user", characters |-> q])
  /\ prompt' = [prompt EXCEPT !.times = 0]
  /\ pc' = "prepare"
  /\ UNCHANGED <<summary, through>>

(* _prepare: the system prompt is built with the summary as it is, then    *)
(* the history without the live message is trimmed.                        *)
Prepare ==
  /\ pc = "prepare"
  /\ \E budget \in history_budget, dropped \in 0..Len(history) - 1 :
       LET turns == SubSeq(history, 1, Len(history) - 1)
       IN /\ dropped = trim(turns, budget)
          /\ prompt' = [carried |-> summary, dropped |-> dropped,
                        length |-> Len(turns), times |-> prompt.times + 1]
          /\ pc' = IF Fresh(through, dropped) # <<>> THEN "fold" ELSE "answer"
  /\ UNCHANGED <<history, summary, through>>

(* _fold_into_summary; a summariser that fails or says nothing changes     *)
(* nothing.                                                                *)
Fold ==
  /\ pc = "fold"
  /\ \/ /\ summary' = Updated(summary, Fresh(through, prompt.dropped))
        /\ through' = SummarisedThrough(through, prompt.dropped)
     \/ UNCHANGED <<summary, through>>
  /\ pc' = "answer"
  /\ UNCHANGED <<history, prompt>>

(* A streamed turn of an agent with tools is prepared again by _answer.    *)
PrepareAgain ==
  /\ pc = "answer" /\ prompt.times = 1
  /\ pc' = "prepare"
  /\ UNCHANGED <<history, summary, through, prompt>>

(* The reply is stored.                                                    *)
Reply ==
  /\ pc = "answer"
  /\ \E a \in 0..MaxSize :
       history' = Append(history, [role |-> "assistant", characters |-> a])
  /\ pc' = "idle"
  /\ UNCHANGED <<summary, through, prompt>>

(* A stream that ended before any text, or a WhatsApp turn whose provider  *)
(* failed: the question stays without an answer.                           *)
NoReply ==
  /\ pc = "answer" /\ prompt.times = 1
  /\ pc' = "idle"
  /\ UNCHANGED <<history, summary, through, prompt>>

Full ==
  /\ pc = "idle" /\ Len(history) + 2 > MaxHistory
  /\ UNCHANGED vars

Next ==
  \/ Guarded \/ Ask \/ Prepare \/ Fold \/ PrepareAgain \/ Reply \/ NoReply
  \/ Full

Spec == Init /\ [][Next]_vars

-----------------------------------------------------------------------------
(* Properties.                                                             *)

Total(turns) ==
  LET sum[i \in 0..Len(turns)] ==
        IF i = 0 THEN 0 ELSE sum[i - 1] + turns[i].characters
  IN sum[Len(turns)]

(* Dropping n rows would leave an answer without its question.             *)
Splits(turns, n) ==
  /\ 0 < n /\ n < Len(turns)
  /\ turns[n].role = "user" /\ turns[n + 1].role = "assistant"

(* trim's two rules, stated without the walk: what is kept is the longest  *)
(* end of the history that fits the budget and does not begin with the     *)
(* answer to a dropped question.                                           *)
TrimKeepsTheMostThatFits ==
  \A budget \in history_budget :
    LET n == trim(history, budget)
        fits(k) == /\ Total(SubSeq(history, k + 1, Len(history))) <= budget
                   /\ ~Splits(history, k)
    IN fits(n) /\ \A k \in 0..n - 1 : ~fits(k)

(* The rolling summary: whatever the budgets were and however often the    *)
(* summariser failed, it covers exactly the first summarised_through rows, *)
(* each folded once and in order.                                          *)
SummaryFoldsEachRowOnce ==
  /\ summary = [i \in 1..Len(summary) |-> i]
  /\ through = Len(summary)

(* The rows a prompt stands for: those it carries in the summary and those *)
(* it keeps.                                                               *)
Shown == {prompt.carried[i] : i \in 1..Len(prompt.carried)}
         \cup prompt.dropped + 1 .. prompt.length

(* Whatever a prompt lacks is what its own preparation dropped and went on *)
(* to fold; nothing folded earlier is ever missing.                        *)
OnlyWhatIsBeingFoldedIsMissing ==
  pc # "prepare" =>
    \A i \in 1..prompt.length :
      i \notin Shown => Len(prompt.carried) < i /\ i <= prompt.dropped

(* The documentation's claim: what is dropped is not lost, since it is     *)
(* folded into the summary in the system prompt first.  Stated for         *)
(* preparations whose summariser did not fail.                             *)
PromptCoversHistory ==
  pc = "answer" /\ through >= prompt.dropped =>
    1..prompt.length \subseteq Shown

TypeOK ==
  /\ history \in Seq(HistoryTurn) /\ Len(history) <= MaxHistory
  /\ summary \in Seq(1..MaxHistory) /\ through \in 0..MaxHistory
  /\ prompt \in [carried : Seq(1..MaxHistory), dropped : 0..MaxHistory,
                 length : 0..MaxHistory, times : 0..2]
  /\ pc \in {"idle", "prepare", "fold", "answer"}
=============================================================================
