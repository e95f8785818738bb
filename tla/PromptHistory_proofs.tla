------------------------ MODULE PromptHistory_proofs ------------------------
(***************************************************************************)
(* Proofs about PromptHistory, for any bounds: what the summary is, what a *)
(* prompt may lack, and what trim keeps of a history.                      *)
(***************************************************************************)
EXTENDS PromptHistory, TLAPS, WellFoundedInduction

(* The rows folded so far are 1, 2, ..., through.                          *)
FoldInv ==
  /\ through \in Nat
  /\ summary = [i \in 1..through |-> i]
  /\ pc = "fold" => /\ prompt.dropped \in Nat
                    /\ prompt.dropped > through

(* Folding the rows that follow a prefix gives the longer prefix.          *)
LEMMA PrefixGrows ==
  ASSUME NEW m \in Nat, NEW n \in Nat, n > m
  PROVE  [i \in 1..m |-> i] \o Fresh(m, n) = [i \in 1..n |-> i]
<1> DEFINE s == [i \in 1..m |-> i]
           f == [i \in 1..(n - m) |-> m + i]
           u == [i \in 1..n |-> i]
<1>1. Fresh(m, n) = f
  BY DEF Fresh
<1>2. s \in Seq(Nat) /\ Len(s) = m /\ f \in Seq(Nat) /\ Len(f) = n - m
      /\ u \in Seq(Nat) /\ Len(u) = n
  OBVIOUS
<1>3. Len(s \o f) = n /\ s \o f \in Seq(Nat)
  BY <1>2
<1>4. \A i \in 1..n : (s \o f)[i] = u[i]
  BY <1>2
<1> HIDE DEF s, f, u
<1>5. s \o f = u
  BY <1>2, <1>3, <1>4
<1> QED
  BY <1>1, <1>5 DEF s, u

(* Every step keeps the fold invariant.                                  *)
LEMMA FoldStep == FoldInv /\ [Next]_vars => FoldInv'
<1> SUFFICES ASSUME FoldInv, [Next]_vars PROVE FoldInv'
  OBVIOUS
<1>1. CASE UNCHANGED vars
  BY <1>1 DEF vars, FoldInv
<1>2. CASE Guarded
  BY <1>2 DEF Guarded, FoldInv
<1>3. CASE Ask \/ PrepareAgain \/ Reply \/ NoReply
  BY <1>3 DEF Ask, PrepareAgain, Reply, NoReply, FoldInv
<1>4. CASE Prepare
  <2>1. PICK dropped \in 0..Len(history) - 1 :
          /\ prompt'.dropped = dropped
          /\ pc' = IF Fresh(through, dropped) # <<>> THEN "fold" ELSE "answer"
    BY <1>4 DEF Prepare
  <2>2. dropped \in Nat
    BY <2>1
  <2>3. pc' = "fold" => dropped > through
    BY <2>1 DEF Fresh
  <2> QED
    BY <1>4, <2>1, <2>2, <2>3 DEF Prepare, FoldInv
<1>5. CASE Fold
  <2>1. prompt.dropped \in Nat /\ prompt.dropped > through /\ through \in Nat
        /\ pc' = "answer"
    BY <1>5 DEF Fold, FoldInv
  <2>2. CASE UNCHANGED <<summary, through>>
    BY <2>1, <2>2 DEF FoldInv
  <2>3. CASE /\ summary' = Updated(summary, Fresh(through, prompt.dropped))
             /\ through' = SummarisedThrough(through, prompt.dropped)
    <3>1. through' = prompt.dropped
      BY <2>3 DEF SummarisedThrough
    <3>2. summary' = [i \in 1..prompt.dropped |-> i]
      BY <2>1, <2>3, PrefixGrows DEF FoldInv, Updated
    <3> QED
      BY <2>1, <3>1, <3>2 DEF FoldInv
  <2> QED
    BY <1>5, <2>2, <2>3 DEF Fold
<1>6. CASE Full
  BY <1>6 DEF Full, vars, FoldInv
<1> QED
  BY <1>1, <1>2, <1>3, <1>4, <1>5, <1>6 DEF Next

(* _fold_into_summary: whatever the budgets, however often the summariser  *)
(* fails and for histories of any length, the summary covers exactly the   *)
(* first summarised_through rows, each folded once and in order.           *)
THEOREM FoldedOnce == Spec => []SummaryFoldsEachRowOnce
<1>1. Init => FoldInv
  BY DEF Init, FoldInv
<1>2. FoldInv /\ [Next]_vars => FoldInv'
  BY FoldStep
<1>3. FoldInv => SummaryFoldsEachRowOnce
  <2> SUFFICES ASSUME FoldInv PROVE SummaryFoldsEachRowOnce
    OBVIOUS
  <2>1. summary \in Seq(Nat) /\ Len(summary) = through
    BY DEF FoldInv
  <2> QED
    BY <2>1 DEF FoldInv, SummaryFoldsEachRowOnce
<1> QED
  BY <1>1, <1>2, <1>3, PTL DEF Spec

-----------------------------------------------------------------------------
(* A prompt carries a summary of the first rows, whichever.                *)
PromptInv ==
  /\ history \in Seq(HistoryTurn)
  /\ prompt.dropped \in Nat /\ prompt.length \in Nat
  /\ \E n \in Nat : prompt.carried = [i \in 1..n |-> i]

(* Every step keeps it, given what the summary is.                         *)
LEMMA PromptStep == FoldInv /\ PromptInv /\ [Next]_vars => PromptInv'
<1> SUFFICES ASSUME FoldInv, PromptInv, [Next]_vars PROVE PromptInv'
  OBVIOUS
<1>1. CASE UNCHANGED vars
  BY <1>1 DEF vars, PromptInv
<1>2. CASE Guarded
  <2>1. PICK q, a \in 1..MaxSize :
          history' = history \o <<[role |-> "user", characters |-> q],
                                  [role |-> "assistant", characters |-> a]>>
    BY <1>2 DEF Guarded
  <2>2. history' \in Seq(HistoryTurn)
    BY <2>1, PromptAssumption DEF PromptInv, HistoryTurn, Roles
  <2> QED
    BY <1>2, <2>2 DEF Guarded, PromptInv
<1>3. CASE Ask
  <2>1. PICK q \in 1..MaxSize :
          history' = Append(history, [role |-> "user", characters |-> q])
    BY <1>3 DEF Ask
  <2>2. history' \in Seq(HistoryTurn)
    BY <2>1, PromptAssumption DEF PromptInv, HistoryTurn, Roles
  <2>3. /\ prompt'.dropped = prompt.dropped /\ prompt'.length = prompt.length
        /\ prompt'.carried = prompt.carried
    BY <1>3 DEF Ask
  <2> QED
    BY <2>2, <2>3 DEF PromptInv
<1>4. CASE Prepare
  <2>1. PICK dropped \in 0..Len(history) - 1 :
          prompt' = [carried |-> summary, dropped |-> dropped,
                     length |-> Len(SubSeq(history, 1, Len(history) - 1)),
                     times |-> prompt.times + 1]
    BY <1>4 DEF Prepare
  <2>2. /\ Len(history) \in Nat /\ dropped \in Nat
        /\ Len(SubSeq(history, 1, Len(history) - 1)) \in Nat
    BY <2>1 DEF PromptInv
  <2>3. prompt'.carried = [i \in 1..through |-> i] /\ through \in Nat
    BY <2>1 DEF FoldInv
  <2>4. history' = history
    BY <1>4 DEF Prepare
  <2> QED
    BY <2>1, <2>2, <2>3, <2>4 DEF PromptInv
<1>5. CASE Reply
  <2>1. PICK a \in 0..MaxSize :
          history' = Append(history, [role |-> "assistant", characters |-> a])
    BY <1>5 DEF Reply
  <2>2. history' \in Seq(HistoryTurn)
    BY <2>1, PromptAssumption DEF PromptInv, HistoryTurn, Roles
  <2> QED
    BY <1>5, <2>2 DEF Reply, PromptInv
<1>6. CASE Fold \/ PrepareAgain \/ NoReply \/ Full
  BY <1>6 DEF Fold, PrepareAgain, NoReply, Full, vars, PromptInv
<1> QED
  BY <1>1, <1>2, <1>3, <1>4, <1>5, <1>6 DEF Next

(* A row that a prompt neither carries in its summary nor keeps is one its *)
(* own preparation dropped, after those of the summary: whatever a turn    *)
(* folded earlier is in the prompt, however long the history and whichever *)
(* budgets the turns had.                                                  *)
THEOREM OnlyTheFoldIsMissing == Spec => []OnlyWhatIsBeingFoldedIsMissing
<1>1. Init => FoldInv /\ PromptInv
  <2> SUFFICES ASSUME Init PROVE FoldInv /\ PromptInv
    OBVIOUS
  <2>1. <<>> = [i \in 1..0 |-> i] /\ <<>> \in Seq(HistoryTurn)
    OBVIOUS
  <2> QED
    BY <2>1 DEF Init, FoldInv, PromptInv, NoPrompt
<1>2. FoldInv /\ PromptInv /\ [Next]_vars => FoldInv' /\ PromptInv'
  BY FoldStep, PromptStep
<1>3. PromptInv => OnlyWhatIsBeingFoldedIsMissing
  <2> SUFFICES ASSUME PromptInv, NEW i \in 1..prompt.length, i \notin Shown
               PROVE  Len(prompt.carried) < i /\ i <= prompt.dropped
    BY DEF OnlyWhatIsBeingFoldedIsMissing
  <2>1. PICK n \in Nat : prompt.carried = [j \in 1..n |-> j]
    BY DEF PromptInv
  <2>2. Len(prompt.carried) = n
    BY <2>1
  <2>3. i \notin 1..n
    <3>1. ASSUME i \in 1..n PROVE FALSE
      <4>1. prompt.carried[i] = i /\ i \in 1..Len(prompt.carried)
        BY <2>1, <2>2, <3>1
      <4> QED
        BY <4>1 DEF Shown
    <3> QED
      BY <3>1
  <2>4. i \notin prompt.dropped + 1 .. prompt.length
    BY DEF Shown
  <2> QED
    BY <2>2, <2>3, <2>4 DEF PromptInv
<1> QED
  BY <1>1, <1>2, <1>3, PTL DEF Spec
-----------------------------------------------------------------------------
(* Types, with the room that a running turn has left for its reply, and    *)
(* the prompts it may still build.                                         *)
TypeInv ==
  /\ TypeOK
  /\ pc # "idle" => Len(history) + 1 <= MaxHistory
  /\ pc = "prepare" => prompt.times \in 0..1

(* A prefix of positions that are rows is a list of rows.                  *)
LEMMA PrefixIsRows ==
  ASSUME NEW n \in 0..MaxHistory
  PROVE  [i \in 1..n |-> i] \in Seq(1..MaxHistory)
<1>1. n \in Nat /\ \A i \in 1..n : i \in 1..MaxHistory
  BY PromptAssumption
<1> QED
  BY <1>1

(* Every step keeps the types, given what the summary is.                  *)
LEMMA TypeStep == FoldInv /\ TypeInv /\ [Next]_vars => TypeInv'
<1> SUFFICES ASSUME FoldInv, TypeInv, [Next]_vars PROVE TypeInv'
  OBVIOUS
<1> DEFINE prompts == [carried : Seq(1..MaxHistory),
                       dropped : 0..MaxHistory, length : 0..MaxHistory, times : 0..2]
<1>a. /\ MaxHistory \in Nat /\ MaxSize \in Nat
      /\ history \in Seq(HistoryTurn) /\ Len(history) \in 0..MaxHistory
      /\ summary \in Seq(1..MaxHistory) /\ through \in 0..MaxHistory
      /\ prompt \in prompts
  BY PromptAssumption DEF TypeInv, TypeOK
<1>b. FoldInv'
  BY FoldStep
<1>1. CASE UNCHANGED vars
  BY <1>1 DEF vars, TypeInv, TypeOK
<1>2. CASE Guarded
  <2>1. PICK q, a \in 1..MaxSize :
          history' = history \o <<[role |-> "user", characters |-> q],
                                  [role |-> "assistant", characters |-> a]>>
    BY <1>2 DEF Guarded
  <2>2. /\ history' \in Seq(HistoryTurn)
        /\ Len(history') = Len(history) + 2
    BY <1>a, <2>1 DEF HistoryTurn, Roles
  <2> QED
    BY <1>2, <1>a, <2>2 DEF Guarded, TypeInv, TypeOK
<1>3. CASE Ask
  <2>1. PICK q \in 1..MaxSize :
          history' = Append(history, [role |-> "user", characters |-> q])
    BY <1>3 DEF Ask
  <2>2. /\ history' \in Seq(HistoryTurn)
        /\ Len(history') = Len(history) + 1
    BY <1>a, <2>1 DEF HistoryTurn, Roles
  <2>3. prompt' \in prompts /\ prompt'.times = 0
    <3>1. prompt' = [prompt EXCEPT !.times = 0]
      BY <1>3 DEF Ask
    <3> QED
      BY <1>a, <3>1
  <2> QED
    BY <1>3, <1>a, <2>2, <2>3 DEF Ask, TypeInv, TypeOK
<1>4. CASE Prepare
  <2>1. PICK dropped \in 0..Len(history) - 1 :
          /\ prompt' = [carried |-> summary, dropped |-> dropped,
                        length |-> Len(SubSeq(history, 1, Len(history) - 1)),
                        times |-> prompt.times + 1]
          /\ pc' \in {"fold", "answer"}
    BY <1>4 DEF Prepare
  <2>2. Len(SubSeq(history, 1, Len(history) - 1)) \in 0..MaxHistory
    BY <1>a, <2>1
  <2>3. prompt.times + 1 \in 0..2
    BY <1>4 DEF Prepare, TypeInv
  <2>4. dropped \in 0..MaxHistory
    BY <1>a
  <2>5. prompt' \in prompts
    BY <1>a, <2>1, <2>2, <2>3, <2>4
  <2> QED
    BY <1>4, <1>a, <2>1, <2>5 DEF Prepare, TypeInv, TypeOK
<1>5. CASE Fold
  <2>1. through' \in 0..MaxHistory
    BY <1>5, <1>a DEF Fold, SummarisedThrough
  <2>2. summary' \in Seq(1..MaxHistory)
    BY <1>b, <2>1, PrefixIsRows DEF FoldInv
  <2> QED
    BY <1>5, <2>1, <2>2 DEF Fold, TypeInv, TypeOK
<1>6. CASE Reply
  <2>1. PICK a \in 0..MaxSize :
          history' = Append(history, [role |-> "assistant", characters |-> a])
    BY <1>6 DEF Reply
  <2>2. /\ history' \in Seq(HistoryTurn)
        /\ Len(history') = Len(history) + 1
    BY <1>a, <2>1 DEF HistoryTurn, Roles
  <2> QED
    BY <1>6, <1>a, <2>2 DEF Reply, TypeInv, TypeOK
<1>7. CASE PrepareAgain \/ NoReply \/ Full
  BY <1>7, <1>1 DEF PrepareAgain, NoReply, Full, TypeInv, TypeOK
<1> QED
  BY <1>1, <1>2, <1>3, <1>4, <1>5, <1>6, <1>7 DEF Next

(* Every state is one of the conversation's: what the summary and a prompt *)
(* refer to are rows, and a running turn always has room for its reply.    *)
THEOREM TypeCorrect == Spec => []TypeOK
<1>1. Init => FoldInv /\ TypeInv
  BY PromptAssumption DEF Init, FoldInv, TypeInv, TypeOK, NoPrompt
<1>2. FoldInv /\ TypeInv /\ [Next]_vars => FoldInv' /\ TypeInv'
  BY FoldStep, TypeStep
<1>3. TypeInv => TypeOK
  BY DEF TypeInv
<1> QED
  BY <1>1, <1>2, <1>3, PTL DEF Spec

Below == {p \in Nat \X Nat : p[1] < p[2]}

-----------------------------------------------------------------------------
(* What trim keeps.                                                        *)

(* What holds of a number as soon as it holds of those below it holds of   *)
(* all up to n.                                                            *)
LEMMA Induction ==
  ASSUME NEW n \in Nat, NEW S,
         \A i \in 0..n : 0..(i - 1) \subseteq S => i \in S
  PROVE  0..n \subseteq S
<1> DEFINE T == (0..n) \ S
<1>1. IsWellFoundedOn(Below, Nat)
  BY NatLessThanWellFounded DEF OpToRel, Below
<1>2. ASSUME T # {} PROVE FALSE
  <2>1. T \subseteq Nat
    OBVIOUS
  <2> HIDE DEF T
  <2>2. PICK x \in T : \A y \in T : ~ (<<y, x>> \in Below)
    BY <1>1, <1>2, <2>1, WFMin
  <2>3. x \in 0..n /\ x \notin S
    BY DEF T
  <2>4. \A y \in 0..(x - 1) : y \in 0..n /\ <<y, x>> \in Below
    BY <2>3 DEF Below
  <2>5. 0..(x - 1) \subseteq S
    BY <2>2, <2>4 DEF T
  <2> QED
    BY <2>3, <2>5
<1> QED
  BY <1>2

(* The characters taken with row i.                                        *)
Size(turns, i) ==
  IF Exchange(turns, i) = 2
  THEN turns[i - 1].characters + turns[i].characters
  ELSE turns[i].characters

(* What the walk comes to from row i with that much room left.             *)
Walked(w, turns, i, room) ==
  IF i = 0 THEN 0
  ELSE IF Size(turns, i) > room THEN i
  ELSE w[i - Exchange(turns, i)][room - Size(turns, i)]

(* The walk over the first k rows.                                         *)
Walk(w, turns, k, budget) ==
  w = [i \in 0..k |-> [room \in 0..budget |-> Walked(w, turns, i, room)]]

(* There is such a walk: that of the rows before is one row longer.        *)
LEMMA WalkExists ==
  ASSUME NEW turns \in Seq(HistoryTurn), NEW budget \in Nat
  PROVE  \E w : Walk(w, turns, Len(turns), budget)
<1> DEFINE n == Len(turns)
           S == {k \in 0..n : \E w : Walk(w, turns, k, budget)}
<1>1. n \in Nat
  OBVIOUS
<1>2. ASSUME NEW i \in 1..n PROVE Exchange(turns, i) \in {1, 2} /\ i - Exchange(turns, i) \in 0..(i - 1)
  BY <1>1 DEF Exchange
<1>3. ASSUME NEW k \in 0..n, 0..(k - 1) \subseteq S PROVE k \in S
  <2>1. CASE k = 0
    <3> DEFINE w == [i \in 0..0 |-> [room \in 0..budget |-> 0]]
    <3>1. Walk(w, turns, 0, budget)
      BY DEF Walk, Walked
    <3> QED
      BY <2>1, <3>1
  <2>2. CASE k > 0
    <3>1. PICK g : Walk(g, turns, k - 1, budget)
      BY <1>3, <2>2
    <3> DEFINE last == [room \in 0..budget |-> Walked(g, turns, k, room)]
               w == [i \in 0..k |-> IF i < k THEN g[i] ELSE last]
    <3>a. \A i \in 0..(k - 1) : i \in 0..k /\ i < k
      BY <1>1, <2>2
    <3>b. \A i \in 0..(k - 1) : w[i] = g[i]
      BY <3>a
    <3>c. g = [i \in 0..(k - 1) |-> [room \in 0..budget |-> Walked(g, turns, i, room)]]
      BY <3>1 DEF Walk
    <3>d. \A i \in 0..(k - 1) : g[i] = [room \in 0..budget |-> Walked(g, turns, i, room)]
      <4> TAKE i \in 0..(k - 1)
      <4> DEFINE row(j) == [room \in 0..budget |-> Walked(g, turns, j, room)]
      <4>1. g = [j \in 0..(k - 1) |-> row(j)]
        BY <3>c
      <4> HIDE DEF row
      <4>2. g[i] = row(i)
        BY <4>1
      <4> QED
        BY <4>2 DEF row
    <3>2. \A i \in 0..(k - 1) : w[i] = g[i] /\ g[i] = [room \in 0..budget |-> Walked(g, turns, i, room)]
      BY <3>b, <3>d
    <3>3. ASSUME NEW i \in 0..k PROVE \A room : Walked(w, turns, i, room) = Walked(g, turns, i, room)
      <4>1. CASE i = 0
        BY <4>1 DEF Walked
      <4>2. CASE i > 0
        <5>1. i - Exchange(turns, i) \in 0..(k - 1)
          BY <1>1, <1>2, <4>2
        <5>2. w[i - Exchange(turns, i)] = g[i - Exchange(turns, i)]
          BY <3>2, <5>1
        <5> HIDE DEF w
        <5> QED
          BY <5>2 DEF Walked
      <4> QED
        BY <4>1, <4>2
    <3>4. ASSUME NEW i \in 0..k PROVE w[i] = [room \in 0..budget |-> Walked(w, turns, i, room)]
      <4>1. CASE i < k
        <5>1. w[i] = [room \in 0..budget |-> Walked(g, turns, i, room)]
          <6>1. i \in 0..(k - 1)
            BY <1>1, <2>2, <4>1
          <6> HIDE DEF w
          <6> QED
            BY <3>2, <6>1
        <5> HIDE DEF w
        <5> QED
          BY <3>3, <5>1
      <4>2. CASE i = k
        <5>1. w[i] = [room \in 0..budget |-> Walked(g, turns, i, room)]
          <6>1. w[i] = last
            BY <4>2
          <6> QED
            BY <4>2, <6>1
        <5> HIDE DEF w
        <5> QED
          BY <3>3, <5>1
      <4> QED
        BY <4>1, <4>2
    <3>5. w = [i \in 0..k |-> w[i]]
      OBVIOUS
    <3> HIDE DEF w
    <3>6. w = [i \in 0..k |-> [room \in 0..budget |-> Walked(w, turns, i, room)]]
      BY <3>4, <3>5
    <3> QED
      BY <3>6 DEF Walk
  <2> QED
    BY <2>1, <2>2
<1> HIDE DEF S
<1>4. 0..n \subseteq S
  BY <1>1, <1>3, Induction
<1> QED
  BY <1>1, <1>4 DEF S

(* So trim is one.                                                         *)
LEMMA TrimWalks ==
  ASSUME NEW turns \in Seq(HistoryTurn), NEW budget \in Nat
  PROVE  \E w : /\ Walk(w, turns, Len(turns), budget)
                /\ trim(turns, budget) = w[Len(turns)][budget]
<1> DEFINE w == CHOOSE w : Walk(w, turns, Len(turns), budget)
<1>1. Walk(w, turns, Len(turns), budget)
  BY WalkExists
<1>2. trim(turns, budget) = w[Len(turns)][budget]
  BY DEF trim, Walk, Walked, Size
<1> QED
  BY <1>1, <1>2

(* The running total of the first k rows.                                  *)
Tally(s, turns, k) ==
  s = [i \in 0..k |-> IF i = 0 THEN 0 ELSE s[i - 1] + turns[i].characters]

(* Every history has one.                                                  *)
LEMMA TallyExists ==
  ASSUME NEW turns \in Seq(HistoryTurn)
  PROVE  \E s : Tally(s, turns, Len(turns))
<1> DEFINE n == Len(turns)
           S == {k \in 0..n : \E s : Tally(s, turns, k)}
<1>1. n \in Nat
  OBVIOUS
<1>2. ASSUME NEW k \in 0..n, 0..(k - 1) \subseteq S PROVE k \in S
  <2>1. CASE k = 0
    <3> DEFINE s == [i \in 0..0 |-> 0]
    <3>1. Tally(s, turns, 0)
      BY DEF Tally
    <3> QED
      BY <2>1, <3>1
  <2>2. CASE k > 0
    <3>1. PICK g : Tally(g, turns, k - 1)
      BY <1>1, <1>2, <2>2
    <3> DEFINE last == g[k - 1] + turns[k].characters
               s == [i \in 0..k |-> IF i < k THEN g[i] ELSE last]
    <3>2. \A i \in 0..(k - 1) :
            g[i] = IF i = 0 THEN 0 ELSE g[i - 1] + turns[i].characters
      BY <3>1 DEF Tally
    <3>3. \A i \in 0..(k - 1) : s[i] = g[i]
      BY <1>1, <2>2
    <3>4. s[k] = last
      BY <1>1, <2>2
    <3>5. s = [i \in 0..k |-> s[i]]
      OBVIOUS
    <3> HIDE DEF s
    <3>6. \A i \in 0..k :
            s[i] = IF i = 0 THEN 0 ELSE s[i - 1] + turns[i].characters
      <4> TAKE i \in 0..k
      <4>1. CASE i = k
        BY <1>1, <2>2, <3>3, <3>4, <4>1
      <4>2. CASE i < k
        BY <1>1, <2>2, <3>2, <3>3, <4>2
      <4> QED
        BY <4>1, <4>2
    <3>7. Tally(s, turns, k)
      BY <3>5, <3>6 DEF Tally
    <3> QED
      BY <3>7
  <2> QED
    BY <2>1, <2>2
<1> HIDE DEF S
<1>3. 0..n \subseteq S
  BY <1>1, <1>2, Induction
<1> QED
  BY <1>1, <1>3 DEF S

(* What the running total of rows is, without the recursion.               *)
LEMMA TallyRises ==
  ASSUME NEW turns \in Seq(HistoryTurn), NEW s, Tally(s, turns, Len(turns))
  PROVE  /\ s[0] = 0
         /\ \A i \in 0..Len(turns) : s[i] \in Nat
         /\ \A i \in 1..Len(turns) : /\ s[i] = s[i - 1] + turns[i].characters
                                    /\ turns[i].characters \in Nat
         /\ \A i \in 0..Len(turns) : \A k \in 0..i : s[k] <= s[i]
<1> DEFINE n == Len(turns)
           S == {i \in 0..n : s[i] \in Nat /\ \A k \in 0..i : s[k] <= s[i]}
<1>1. n \in Nat
  OBVIOUS
<1>2. \A i \in 0..n : s[i] = IF i = 0 THEN 0 ELSE s[i - 1] + turns[i].characters
  BY DEF Tally
<1>3. \A i \in 1..n : turns[i].characters \in Nat
  <2> TAKE i \in 1..n
  <2>1. turns[i] \in HistoryTurn
    BY <1>1
  <2>2. turns[i].characters \in 0..MaxSize
    BY <2>1 DEF HistoryTurn
  <2> QED
    BY <2>2, PromptAssumption
<1>4. s[0] = 0
  BY <1>1, <1>2
<1>5. \A i \in 1..n : s[i] = s[i - 1] + turns[i].characters
  BY <1>1, <1>2
<1>6. ASSUME NEW i \in 0..n, 0..(i - 1) \subseteq S PROVE i \in S
  <2>1. CASE i = 0
    BY <1>1, <1>4, <2>1
  <2>2. CASE i > 0
    <3>1. s[i] = s[i - 1] + turns[i].characters /\ turns[i].characters \in Nat
      BY <1>1, <1>3, <1>5, <2>2
    <3>2. i - 1 \in S
      BY <1>1, <1>6, <2>2
    <3>3. s[i - 1] \in Nat /\ \A k \in 0..(i - 1) : s[k] <= s[i - 1]
      BY <3>2
    <3>4. s[i] \in Nat /\ s[i - 1] <= s[i]
      BY <3>1, <3>3
    <3>5. \A k \in 0..(i - 1) : s[k] \in Nat
      BY <1>1, <1>6
    <3>6. ASSUME NEW k \in 0..i PROVE s[k] <= s[i]
      BY <1>1, <2>2, <3>3, <3>4, <3>5
    <3> QED
      BY <3>4, <3>6
  <2> QED
    BY <1>1, <2>1, <2>2
<1> HIDE DEF S
<1>7. 0..n \subseteq S
  BY <1>1, <1>6, Induction
<1>8. \A i \in 0..n : s[i] \in Nat /\ \A k \in 0..i : s[k] <= s[i]
  BY <1>7 DEF S
<1> QED
  BY <1>3, <1>4, <1>5, <1>8

(* The rows after the k-th come to the difference of two running totals.   *)
LEMMA TailTotals ==
  ASSUME NEW turns \in Seq(HistoryTurn), NEW s, Tally(s, turns, Len(turns)),
         NEW k \in 0..Len(turns)
  PROVE  Total(SubSeq(turns, k + 1, Len(turns))) = s[Len(turns)] - s[k]
<1> DEFINE n == Len(turns)
           rest == SubSeq(turns, k + 1, n)
           t == CHOOSE t : Tally(t, rest, Len(rest))
           S == {j \in 0..(n - k) : t[j] = s[k + j] - s[k]}
<1>1. n \in Nat /\ n - k \in Nat
  OBVIOUS
<1>2. /\ rest \in Seq(HistoryTurn) /\ Len(rest) = n - k
      /\ \A j \in 1..(n - k) : rest[j] = turns[k + j]
  BY <1>1
<1>3. Tally(t, rest, Len(rest))
  BY <1>2, TallyExists
<1>4. Total(rest) = t[n - k]
  BY <1>2 DEF Total, Tally
<1> HIDE DEF t, rest
<1>5. t[0] = 0 /\ \A j \in 1..(n - k) : t[j] = t[j - 1] + rest[j].characters
  BY <1>1, <1>2, <1>3, TallyRises
<1>6. /\ \A i \in 0..n : s[i] \in Nat
      /\ \A i \in 1..n : /\ s[i] = s[i - 1] + turns[i].characters
                         /\ turns[i].characters \in Nat
  BY TallyRises
<1>7. ASSUME NEW j \in 0..(n - k), 0..(j - 1) \subseteq S PROVE j \in S
  <2>1. CASE j = 0
    BY <1>1, <1>5, <1>6, <2>1
  <2>2. CASE j > 0
    <3>1. j - 1 \in S
      BY <1>1, <1>7, <2>2
    <3>2. t[j - 1] = s[k + (j - 1)] - s[k]
      BY <3>1
    <3>3. t[j] = t[j - 1] + turns[k + j].characters
      BY <1>1, <1>2, <1>5, <2>2
    <3>4. k + j \in 1..n /\ (k + j) - 1 = k + (j - 1) /\ k + (j - 1) \in 0..n
      BY <1>1, <2>2
    <3>5. s[k + j] = s[k + (j - 1)] + turns[k + j].characters /\ turns[k + j].characters \in Nat
      BY <1>6, <3>4
    <3>6. s[k] \in Nat /\ s[k + (j - 1)] \in Nat
      BY <1>1, <1>6, <3>4
    <3>7. t[j] = s[k + j] - s[k]
      BY <3>2, <3>3, <3>5, <3>6
    <3> QED
      BY <3>7
  <2> QED
    BY <1>1, <2>1, <2>2
<1> HIDE DEF S
<1>8. 0..(n - k) \subseteq S
  BY <1>1, <1>7, Induction
<1>9. t[n - k] = s[k + (n - k)] - s[k]
  BY <1>1, <1>8 DEF S
<1>10. k + (n - k) = n
  BY <1>1
<1>11. Total(rest) = s[n] - s[k]
  BY <1>4, <1>9, <1>10
<1> QED
  BY <1>11 DEF rest

(* Where the walk stops: m rows dropped of the first i.                    *)
Stops(turns, s, i, room, m) ==
  /\ m \in 0..i
  /\ s[i] - s[m] <= room
  /\ ~Splits(turns, m)
  /\ \A k \in 0..(m - 1) : s[i] - s[k] > room \/ Splits(turns, k)

(* From between two exchanges, with any room, the walk stops where the     *)
(* next exchange no longer fits.                                           *)
LEMMA WalkStops ==
  ASSUME NEW turns \in Seq(HistoryTurn), NEW budget \in Nat,
         NEW s, Tally(s, turns, Len(turns)),
         NEW w, Walk(w, turns, Len(turns), budget)
  PROVE  \A i \in 0..Len(turns) : ~Splits(turns, i) =>
           \A room \in 0..budget : Stops(turns, s, i, room, w[i][room])
<1> DEFINE n == Len(turns)
           S == {i \in 0..n : ~Splits(turns, i) =>
                   \A room \in 0..budget : Stops(turns, s, i, room, w[i][room])}
<1>1. n \in Nat
  OBVIOUS
<1>2. /\ s[0] = 0
      /\ \A i \in 0..n : s[i] \in Nat
      /\ \A i \in 1..n : /\ s[i] = s[i - 1] + turns[i].characters
                         /\ turns[i].characters \in Nat
      /\ \A i \in 0..n : \A k \in 0..i : s[k] <= s[i]
  BY TallyRises
<1>3. \A i \in 0..n : \A room \in 0..budget : w[i][room] = Walked(w, turns, i, room)
  <2> TAKE i \in 0..n
  <2> DEFINE row(j) == [room \in 0..budget |-> Walked(w, turns, j, room)]
  <2>1. w = [j \in 0..n |-> row(j)]
    BY DEF Walk
  <2> HIDE DEF row
  <2>2. w[i] = row(i)
    BY <2>1
  <2> QED
    BY <2>2 DEF row
<1>4. ASSUME NEW i \in 0..n, 0..(i - 1) \subseteq S PROVE i \in S
  <2> SUFFICES ASSUME ~Splits(turns, i), NEW room \in 0..budget
               PROVE  Stops(turns, s, i, room, w[i][room])
    OBVIOUS
  <2>1. w[i][room] = Walked(w, turns, i, room)
    BY <1>3
  <2>2. CASE i = 0
    <3>1. w[i][room] = 0
      BY <2>1, <2>2 DEF Walked
    <3>2. ~Splits(turns, 0)
      BY DEF Splits
    <3>3. s[i] - s[0] <= room
      BY <1>2, <2>2
    <3> QED
      BY <2>2, <3>1, <3>2, <3>3 DEF Stops
  <2>3. CASE i > 0
    <3> DEFINE e == Exchange(turns, i)
               size == Size(turns, i)
    <3>1. /\ i \in 1..n /\ e \in {1, 2} /\ i - e \in 0..(i - 1)
          /\ e = 2 => i - 1 \in 1..n
      BY <1>1, <2>3 DEF Exchange
    <3>2. size \in Nat /\ s[i] - s[i - e] = size
      <4>1. CASE e = 1
        BY <1>1, <1>2, <3>1, <4>1 DEF Size
      <4>2. CASE e = 2
        <5>1. i - 1 \in 1..n /\ (i - 1) - 1 = i - 2
          BY <1>1, <3>1, <4>2
        <5>2. s[i] = s[i - 1] + turns[i].characters
          BY <1>2, <3>1
        <5>3. s[i - 1] = s[i - 2] + turns[i - 1].characters
          BY <1>2, <5>1
        <5>4. turns[i].characters \in Nat /\ turns[i - 1].characters \in Nat
          BY <1>2, <3>1, <5>1
        <5>5. s[i - 2] \in Nat
          BY <1>1, <1>2, <3>1, <4>2
        <5>6. size = turns[i - 1].characters + turns[i].characters
          BY <4>2 DEF Size
        <5>7. s[i - e] = s[i - 2]
          BY <4>2
        <5> HIDE DEF size, e
        <5>8. size \in Nat
          BY <5>4, <5>6
        <5>9. s[i] - s[i - 2] = turns[i - 1].characters + turns[i].characters
          BY <5>2, <5>3, <5>4, <5>5
        <5> QED
          BY <5>6, <5>7, <5>8, <5>9
      <4> QED
        BY <3>1, <4>1, <4>2
    <3>3. ~Splits(turns, i - e)
      BY <1>1, <3>1 DEF Splits, Exchange, HistoryTurn, Roles
    <3>4. e = 2 => Splits(turns, i - 1)
      BY <1>1, <3>1 DEF Splits, Exchange
    <3>5. w[i][room] = IF size > room THEN i ELSE w[i - e][room - size]
      BY <2>1, <2>3 DEF Walked
    <3>6. i - e \in S
      BY <1>4, <3>1
    <3>7. \A k \in 0..n : s[k] \in Nat
      BY <1>2
    <3>8. \A k \in 0..(i - e) : s[k] <= s[i - e]
      BY <1>1, <1>2, <3>1
    <3> HIDE DEF e, size
    <3>9. CASE size > room
      <4>1. w[i][room] = i
        BY <3>5, <3>9
      <4>2. s[i] - s[i] <= room
        BY <3>7
      <4>3. ASSUME NEW k \in 0..(i - 1) PROVE s[i] - s[k] > room \/ Splits(turns, k)
        <5>1. CASE k \in 0..(i - e)
          <6>1. s[k] <= s[i - e] /\ s[k] \in Nat /\ s[i - e] \in Nat /\ s[i] \in Nat
            BY <1>1, <3>1, <3>7, <3>8, <5>1
          <6>2. s[i] - s[k] > room
            BY <3>2, <3>9, <6>1
          <6> QED
            BY <6>2
        <5>2. CASE k \notin 0..(i - e)
          <6>1. e = 2 /\ k = i - 1
            BY <3>1, <5>2
          <6> QED
            BY <3>4, <6>1
        <5> QED
          BY <5>1, <5>2
      <4> QED
        BY <2>3, <4>1, <4>2, <4>3 DEF Stops
    <3>10. CASE ~(size > room)
      <4> DEFINE m == w[i - e][room - size]
      <4>1. room - size \in 0..budget
        BY <3>2, <3>10
      <4>2. Stops(turns, s, i - e, room - size, m)
        BY <3>3, <3>6, <4>1
      <4>3. w[i][room] = m
        BY <3>5, <3>10
      <4> HIDE DEF m, S
      <4>4. /\ m \in 0..(i - e)
            /\ s[i - e] - s[m] <= room - size
            /\ ~Splits(turns, m)
            /\ \A k \in 0..(m - 1) : s[i - e] - s[k] > room - size \/ Splits(turns, k)
        BY <4>2 DEF Stops
      <4>5. m \in 0..i /\ m \in 0..n /\ i - e \in 0..n
        BY <1>1, <3>1, <4>4
      <4>6. s[m] \in Nat /\ s[i] \in Nat /\ s[i - e] \in Nat
        BY <3>7, <4>5
      <4>7. s[i] - s[m] <= room
        BY <3>2, <4>4, <4>6
      <4>8. ASSUME NEW k \in 0..(m - 1) PROVE s[i] - s[k] > room \/ Splits(turns, k)
        <5>1. s[k] \in Nat
          BY <1>1, <3>7, <4>5
        <5>2. CASE s[i - e] - s[k] > room - size
          <6>1. s[i] - s[k] > room
            BY <3>2, <4>6, <5>1, <5>2
          <6> QED
            BY <6>1
        <5> QED
          BY <4>4, <5>2
      <4> QED
        BY <4>3, <4>4, <4>5, <4>7, <4>8 DEF Stops
    <3> QED
      BY <3>9, <3>10
  <2> QED
    BY <2>2, <2>3
<1> HIDE DEF S
<1>5. 0..n \subseteq S
  BY <1>1, <1>4, Induction
<1> QED
  BY <1>5 DEF S

(* What trim drops is the least that can be dropped.                       *)
LEMMA TrimDropsTheLeast ==
  ASSUME NEW turns \in Seq(HistoryTurn), NEW budget \in Nat
  PROVE  LET n == trim(turns, budget)
             fits(k) == /\ Total(SubSeq(turns, k + 1, Len(turns))) <= budget
                        /\ ~Splits(turns, k)
         IN  fits(n) /\ \A k \in 0..n - 1 : ~fits(k)
<1> DEFINE n == Len(turns)
           m == trim(turns, budget)
<1>1. n \in Nat
  OBVIOUS
<1>2. PICK w : Walk(w, turns, n, budget) /\ m = w[n][budget]
  BY TrimWalks
<1>3. PICK s : Tally(s, turns, n)
  BY TallyExists
<1>4. ~Splits(turns, n)
  BY <1>1 DEF Splits
<1>5. n \in 0..n /\ budget \in 0..budget
  BY <1>1
<1>6. Stops(turns, s, n, budget, w[n][budget])
  BY <1>2, <1>3, <1>4, <1>5, WalkStops
<1>7. Stops(turns, s, n, budget, m)
  BY <1>2, <1>6
<1>8. \A k \in 0..n : Total(SubSeq(turns, k + 1, n)) = s[n] - s[k]
  BY <1>3, TailTotals
<1> HIDE DEF m
<1>9. m \in 0..n /\ \A k \in 0..(m - 1) : k \in 0..n
  BY <1>1, <1>7 DEF Stops
<1>10. Total(SubSeq(turns, m + 1, n)) <= budget /\ ~Splits(turns, m)
  BY <1>7, <1>8, <1>9 DEF Stops
<1>11. ASSUME NEW k \in 0..(m - 1)
       PROVE  ~(Total(SubSeq(turns, k + 1, n)) <= budget /\ ~Splits(turns, k))
  <2>1. Total(SubSeq(turns, k + 1, n)) = s[n] - s[k] /\ s[n] \in Nat /\ s[k] \in Nat
    BY <1>1, <1>3, <1>8, <1>9, TallyRises
  <2>2. s[n] - s[k] > budget \/ Splits(turns, k)
    BY <1>7 DEF Stops
  <2>3. CASE s[n] - s[k] > budget
    <3>1. ~(s[n] - s[k] <= budget)
      BY <2>1, <2>3
    <3> QED
      BY <2>1, <3>1
  <2> QED
    BY <2>2, <2>3
<1> QED
  BY <1>10, <1>11 DEF m

(* Whatever was said and whatever the budget, trim keeps the longest end   *)
(* of the history that fits and begins between two exchanges.              *)
THEOREM TrimKeepsTheMost == Spec => []TrimKeepsTheMostThatFits
<1>1. ASSUME TypeOK PROVE TrimKeepsTheMostThatFits
  <2>1. history \in Seq(HistoryTurn)
    BY <1>1 DEF TypeOK
  <2>2. \A budget \in history_budget : budget \in Nat
    BY PromptAssumption DEF history_budget
  <2> QED
    BY <2>1, <2>2, TrimDropsTheLeast DEF TrimKeepsTheMostThatFits
<1> QED
  BY <1>1, TypeCorrect, PTL
=============================================================================
