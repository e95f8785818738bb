------------------------ MODULE PlatformAgents_proofs -----------------------
(***************************************************************************)
(* Proofs about what an agent is made of and works with: its configuration *)
(* and its history (A), the sources of its knowledge and their syncs (K),  *)
(* the passages it retrieves of them (R), the tools it calls (T) and the   *)
(* language models that answer (L).                                        *)
(*                                                                         *)
(* The lemmas are about the instances of MCPlatform, whose variables are   *)
(* slots:                                                                  *)
(*   A  AgentLifecycle: v1 live, v2 row, v3 versions, v4 lock, v5 work     *)
(*   K  KnowledgeSync: v1 kind, v2 stored, v3 source, v4 holder, v5        *)
(*      queued, v6 worker, v7 tenant, v8 sweep, v9 requests, v10 faults,   *)
(*      v11 streak, v12 stale                                              *)
(*   R  KnowledgeRetrieval: v1 tier, v2 attached, v3 text, v4 words, v5    *)
(*      call, v6 changes                                                   *)
(*   T  ToolCalls: v1 tool, v2 entries, v3 now, v4 call                    *)
(*   L  LlmClient: v1 mode, v2 vendor, v3 fallback, v4 keyed, v5 attempts, *)
(*      v6 named, v7 up, v8 call                                           *)
(***************************************************************************)
EXTENDS MCPlatform, TLAPS, FiniteSetTheorems, WellFoundedInduction

-----------------------------------------------------------------------------
(* Agents.  The lock of the agent's row makes the statements from the      *)
(* locking read to the commit one step: what a request has put into the    *)
(* history is the row as it is.                                            *)

(* The empty tuple maps nothing.                                           *)
LEMMA NothingIn == DOMAIN <<>> = {}
OBVIOUS

(* A request that has not begun or has ended keeps nothing.                *)
LEMMA OutsideKeepsNothing ==
  ASSUME NEW w, A!Outside(w)
  PROVE  w.op = "none" /\ DOMAIN w.snap = {}
BY NothingIn DEF A!Outside, A!Unsent, A!Ended

(* What a column is after some were set.                                   *)
LEMMA OverSets ==
  ASSUME NEW r \in A!Row, NEW f, A!Sets(f, A!Columns)
  PROVE  /\ A!Over(r, f) \in A!Row
         /\ \A c \in A!Columns : A!Over(r, f)[c] = IF c \in DOMAIN f THEN f[c] ELSE r[c]
<1>1. DOMAIN r = A!Columns /\ \A c \in A!Columns : r[c] \in A!Values(c)
  BY DEF A!Row, A!Columns, A!Values
<1>2. /\ DOMAIN A!Over(r, f) = A!Columns
      /\ \A c \in A!Columns : A!Over(r, f)[c] = IF c \in DOMAIN f THEN f[c] ELSE r[c]
  BY <1>1 DEF A!Over, A!Sets
<1>3. \A c \in A!Columns : A!Over(r, f)[c] \in A!Values(c)
  BY <1>1, <1>2 DEF A!Sets
<1>4. A!Over(r, f) = [c \in A!Columns |-> A!Over(r, f)[c]]
  BY <1>1, <1>2 DEF A!Over, A!Sets
<1>5. A!Over(r, f) \in A!Row
  <2>1. /\ A!Over(r, f).status \in A!Status /\ A!Over(r, f).version \in Nat \ {0}
        /\ A!Over(r, f).config \in Configs /\ A!Over(r, f).key \in Keys \cup {"none"}
    BY <1>3 DEF A!Columns, A!Values
  <2> QED
    BY <1>4, <2>1 DEF A!Columns, A!Row
<1> QED
  BY <1>2, <1>5

(* A step that changes the record of p alone, and of the locks only its    *)
(* own.                                                                    *)
LEMMA OwnStep ==
  ASSUME A!AgentAssumption, A!AgentInv, NEW p \in Requests, UNCHANGED <<v1, v2, v3>>,
         NEW w, A!Working(w) \/ A!Outside(w), v5' = [v5 EXCEPT ![p] = w],
         v4' \in [Agents -> Requests \cup {A!NoOne}],
         \A a \in Agents : v4'[a] = v4[a] \/ {v4[a], v4'[a]} \subseteq {A!NoOne, p},
         A!Sound(p)',
         \A q \in Requests \ {p} : A!Apart(p, q)' /\ A!Apart(q, p)'
  PROVE  A!AgentInv'
<1>1. A!Types /\ v5'[p] = w /\ DOMAIN v5' = Requests
      /\ \A q \in Requests \ {p} : v5'[q] = v5[q]
  BY DEF A!AgentInv, A!Types
<1>2. A!Types'
  BY <1>1 DEF A!Types
<1>3. \A q \in Requests \ {p} : \A a \in Agents : v4'[a] = q <=> v4[a] = q
  BY DEF A!AgentAssumption
<1>4. ASSUME NEW q \in Requests \ {p} PROVE A!Sound(q)'
  <2>1. A!Sound(q) /\ (A!Working(v5[q]) \/ A!Outside(v5[q]))
    BY DEF A!AgentInv, A!Types
  <2>2. v5[q].op # "none" => v5[q].agent \in Agents
    BY <2>1, OutsideKeepsNothing DEF A!Working
  <2> QED
    BY <1>1, <1>3, <2>1, <2>2 DEF A!Sound, A!Moving, A!Editing, A!Deleting, A!Creating
<1>5. ASSUME NEW q \in Requests \ {p}, NEW r \in Requests \ {p} PROVE A!Apart(q, r)'
  <2>1. A!Apart(q, r) /\ (A!Working(v5[r]) \/ A!Outside(v5[r]))
    BY DEF A!AgentInv, A!Types
  <2>2. v5[r].op # "none" => v5[r].agent \in Agents
    BY <2>1, OutsideKeepsNothing DEF A!Working
  <2> QED
    BY <1>1, <1>3, <2>1, <2>2 DEF A!Apart
<1>6. A!Apart(p, p)'
  BY DEF A!Apart
<1>7. A!HistoryOfTheLiving'
  BY DEF A!AgentInv, A!HistoryOfTheLiving
<1> QED
  BY <1>2, <1>4, <1>5, <1>6, <1>7 DEF A!AgentInv

(* What p is and has, and what it cannot be at the same time.              *)
LEMMA Own ==
  ASSUME A!AgentInv, NEW p \in Requests, v5[p].op # "none"
  PROVE  /\ A!Working(v5[p]) /\ A!Sound(p) /\ A!Types
         /\ v5[p].agent \in Agents /\ v2[v5[p].agent] \in A!Row
         /\ v5[p].loaded \in A!Row
<1>1. A!Working(v5[p]) /\ A!Sound(p) /\ A!Types
  BY OutsideKeepsNothing DEF A!AgentInv, A!Types
<1> QED
  BY <1>1 DEF A!Working, A!Types

(* The transaction of p is rolled back.                                    *)
LEMMA RollbackStep ==
  ASSUME A!AgentAssumption, A!AgentInv, NEW p \in Requests, A!Rollback(p)
  PROVE  A!AgentInv' /\ v5'[p] # A!Ended("committed")
<1> DEFINE w == A!Ended("failed")
<1>1. A!Outside(w) /\ w.op = "none" /\ w # A!Ended("committed")
  BY DEF A!Outside, A!Ended
<1>2. /\ A!Types /\ v5' = [v5 EXCEPT ![p] = w] /\ v5'[p] = w
      /\ UNCHANGED <<v1, v2, v3>>
  BY DEF A!AgentInv, A!Types, A!Rollback
<1>3. /\ v4' \in [Agents -> Requests \cup {A!NoOne}]
      /\ \A a \in Agents : v4'[a] = IF v4[a] = p THEN A!NoOne ELSE v4[a]
  BY <1>2 DEF A!Types, A!Rollback, A!Release
<1> HIDE DEF w
<1>4. A!Sound(p)'
  BY <1>1, <1>2, <1>3 DEF A!Sound, A!AgentAssumption
<1>5. \A q \in Requests \ {p} : A!Apart(p, q)' /\ A!Apart(q, p)'
  BY <1>1, <1>2 DEF A!Apart
<1> QED
  BY <1>1, <1>2, <1>3, <1>4, <1>5, OwnStep

(* A request reads the row, and has written nothing yet.                   *)
LEMMA StartStep ==
  ASSUME A!AgentAssumption, A!AgentInv, NEW p \in Requests, NEW a \in Agents,
         NEW op \in {"transition", "key", "patch", "rollback", "delete"},
         NEW asked, NEW first, NEW pc, A!Start(p, op, a, asked, first, pc),
         A!Sets(asked, {"status", "config", "key"}), A!Sets(first, {"key"}),
         \/ /\ op \in {"transition", "key"} /\ pc = "write"
            /\ DOMAIN asked = {IF op = "key" THEN "key" ELSE "status"}
         \/ /\ op \in {"patch", "rollback"} /\ pc \in {"key", "check", "snapshot"}
            /\ DOMAIN asked = {"config"}
         \/ op = "delete" /\ pc = "delete"
  PROVE  A!AgentInv' /\ v5'[p] # A!Ended("committed")
<1> DEFINE w == A!Request(op, a, v2[a], asked, first, pc)
<1>1. /\ DOMAIN w = {"op", "agent", "loaded", "asked", "first", "wrote", "snap", "pc"}
      /\ w.op = op /\ w.agent = a /\ w.loaded = v2[a] /\ w.asked = asked
      /\ w.first = first /\ w.wrote = <<>> /\ w.snap = <<>> /\ w.pc = pc
  BY DEF A!Request
<1>2. /\ A!Types /\ v5' = [v5 EXCEPT ![p] = w] /\ v5'[p] = w /\ a \in v1
      /\ UNCHANGED <<v1, v2, v3, v4>>
  BY DEF A!AgentInv, A!Types, A!Start
<1> HIDE DEF w
<1>3. DOMAIN w.wrote = {} /\ DOMAIN w.snap = {} /\ v2[a] \in A!Row
  BY <1>1, <1>2, NothingIn DEF A!Types
<1>4. A!Working(w)
  BY <1>1, <1>3 DEF A!Working, A!Sets
<1>5. v5[p].op = "none"
  <2>1. A!Working(v5[p]) \/ A!Outside(v5[p])
    BY <1>2 DEF A!Types
  <2>2. ~A!Working(v5[p]) \/ A!Sound(p)
    BY DEF A!AgentInv
  <2>3. v5[p].pc = "unsent"
    BY DEF A!Start, A!At
  <2>4. ASSUME A!Working(v5[p]) PROVE FALSE
    <3>1. A!Sound(p) /\ v5[p].op # "none"
      BY <2>2, <2>4 DEF A!Working
    <3> QED
      BY <2>3, <2>4, <3>1
         DEF A!Working, A!Sound, A!Moving, A!Editing, A!Deleting, A!Creating
  <2> QED
    BY <2>1, <2>4, OutsideKeepsNothing
<1>6. \A b \in Agents : v4[b] # p
  BY <1>5 DEF A!AgentInv, A!Sound
<1>7. A!Sound(p)'
  <2>1. op \in {"transition", "key"} => A!Moving(p)'
    BY <1>1, <1>2, <1>3 DEF A!Moving
  <2>2. op \in {"patch", "rollback"} => A!Editing(p)'
    BY <1>1, <1>2, <1>3 DEF A!Editing, A!Read, A!Current
  <2>3. op = "delete" => A!Deleting(p)'
    BY <1>1, <1>2, <1>3, <1>6 DEF A!Deleting
  <2> QED
    BY <1>1, <1>2, <1>3, <1>6, <2>1, <2>2, <2>3 DEF A!Sound
<1>8. ASSUME NEW q \in Requests \ {p} PROVE A!Apart(p, q)' /\ A!Apart(q, p)'
  <2>1. v5'[q] = v5[q] /\ A!Types /\ A!Sound(q)
    BY <1>2 DEF A!AgentInv, A!Types
  <2>2. v5[q].op = "create" => v5[q].agent # a
    BY <1>2, <2>1 DEF A!Sound, A!Creating
  <2> QED
    BY <1>1, <1>2, <1>3, <1>6, <2>1, <2>2 DEF A!Apart
<1>9. w # A!Ended("committed")
  BY <1>1 DEF A!Ended
<1> QED
  BY <1>2, <1>4, <1>7, <1>8, <1>9, OwnStep DEF A!Types

(* A request begins with reading the agent, or makes one.                  *)
LEMMA BeginStep ==
  ASSUME A!AgentAssumption, A!AgentInv, NEW p \in Requests,
         A!Transition(p) \/ A!Patch(p) \/ A!SetKey(p) \/ A!RollBack(p) \/ A!Delete(p)
  PROVE  A!AgentInv' /\ v5'[p] # A!Ended("committed") /\ UNCHANGED <<v1, v2, v3>>
<1>1. A!Types /\ v1 \subseteq Agents
  BY DEF A!AgentInv, A!Types
<1>2. CASE A!Transition(p)
  <2>1. PICK a \in v1, target \in A!Status :
          A!Start(p, "transition", a, [status |-> target], <<>>, "write")
    BY <1>2 DEF A!Transition
  <2>2. /\ A!Sets([status |-> target], {"status", "config", "key"}) /\ A!Sets(<<>>, {"key"})
        /\ DOMAIN [status |-> target] = {"status"}
    BY NothingIn DEF A!Sets, A!Values
  <2> QED
    BY <1>1, <2>1, <2>2, StartStep DEF A!Start
<1>3. CASE A!Patch(p)
  <2>1. PICK a \in v1, c \in Configs, key \in Keys \cup {"none"} :
          A!Start(p, "patch", a, [config |-> c], [key |-> key],
                  IF key = "none" THEN "check" ELSE "key")
    BY <1>3 DEF A!Patch
  <2>2. /\ A!Sets([config |-> c], {"status", "config", "key"})
        /\ A!Sets([key |-> key], {"key"})
        /\ DOMAIN [config |-> c] = {"config"}
    BY DEF A!Sets, A!Values
  <2> QED
    BY <1>1, <2>1, <2>2, StartStep DEF A!Start
<1>4. CASE A!SetKey(p)
  <2>1. PICK a \in v1, key \in Keys \cup {"none"} :
          A!Start(p, "key", a, [key |-> key], <<>>, "write")
    BY <1>4 DEF A!SetKey
  <2>2. /\ A!Sets([key |-> key], {"status", "config", "key"}) /\ A!Sets(<<>>, {"key"})
        /\ DOMAIN [key |-> key] = {"key"}
    BY NothingIn DEF A!Sets, A!Values
  <2> QED
    BY <1>1, <2>1, <2>2, StartStep DEF A!Start
<1>5. CASE A!RollBack(p)
  <2>1. PICK a \in v1 : \E v \in DOMAIN v3[a] :
          A!Start(p, "rollback", a, [config |-> v3[a][v]], <<>>, "snapshot")
    BY <1>5 DEF A!RollBack
  <2>2. PICK v \in DOMAIN v3[a] :
          A!Start(p, "rollback", a, [config |-> v3[a][v]], <<>>, "snapshot")
    BY <2>1
  <2>3. v3[a][v] \in Configs
    BY <1>1 DEF A!AgentInv, A!HistoryOfTheLiving
  <2>4. /\ A!Sets([config |-> v3[a][v]], {"status", "config", "key"})
        /\ A!Sets(<<>>, {"key"}) /\ DOMAIN [config |-> v3[a][v]] = {"config"}
    BY <2>3, NothingIn DEF A!Sets, A!Values
  <2> QED
    BY <1>1, <2>2, <2>4, StartStep DEF A!Start
<1>6. CASE A!Delete(p)
  <2>1. PICK a \in v1 : A!Start(p, "delete", a, <<>>, <<>>, "delete")
    BY <1>6 DEF A!Delete
  <2>2. A!Sets(<<>>, {"status", "config", "key"}) /\ A!Sets(<<>>, {"key"})
    BY NothingIn DEF A!Sets
  <2> QED
    BY <1>1, <2>1, <2>2, StartStep DEF A!Start
<1> QED
  BY <1>2, <1>3, <1>4, <1>5, <1>6

(* One that makes an agent is alone with it.                               *)
LEMMA CreateStep ==
  ASSUME A!AgentAssumption, A!AgentInv, NEW p \in Requests, A!Create(p)
  PROVE  A!AgentInv' /\ v5'[p] # A!Ended("committed") /\ UNCHANGED <<v1, v2, v3>>
<1>1. PICK a \in Agents \ v1, c \in Configs :
        /\ A!At(p, "unsent") /\ A!On(a) = {}
        /\ v5' = [v5 EXCEPT ![p] = A!Request("create", a, A!NewRow(c), <<>>, <<>>, "commit")]
        /\ UNCHANGED <<v1, v2, v3, v4>>
  BY DEF A!Create
<1> DEFINE w == A!Request("create", a, A!NewRow(c), <<>>, <<>>, "commit")
<1>2. /\ DOMAIN w = {"op", "agent", "loaded", "asked", "first", "wrote", "snap", "pc"}
      /\ w.op = "create" /\ w.agent = a /\ w.loaded = A!NewRow(c) /\ w.asked = <<>>
      /\ w.first = <<>> /\ w.wrote = <<>> /\ w.snap = <<>> /\ w.pc = "commit"
  BY DEF A!Request
<1>3. /\ A!Types /\ v5' = [v5 EXCEPT ![p] = w] /\ v5'[p] = w
      /\ UNCHANGED <<v1, v2, v3, v4>>
  BY <1>1 DEF A!AgentInv, A!Types
<1> HIDE DEF w
<1>4. /\ DOMAIN w.wrote = {} /\ DOMAIN w.snap = {} /\ DOMAIN w.asked = {}
      /\ DOMAIN w.first = {} /\ w.loaded \in A!Row /\ w.loaded.version = 1
  BY <1>2, NothingIn DEF A!NewRow, A!Row, A!Status
<1>5. A!Working(w)
  BY <1>2, <1>4 DEF A!Working, A!Sets
<1>6. \A q \in Requests : v5[q].op = "none" \/ v5[q].agent # a
  BY <1>1 DEF A!On
<1>7. \A b \in Agents : v4[b] # p
  <2>1. A!Sound(p) /\ (A!Working(v5[p]) \/ A!Outside(v5[p])) /\ v5[p].pc = "unsent"
    BY <1>1 DEF A!AgentInv, A!Types, A!At
  <2>2. ASSUME v5[p].op # "none" PROVE FALSE
    BY <2>1, <2>2, OutsideKeepsNothing
       DEF A!Working, A!Sound, A!Moving, A!Editing, A!Deleting, A!Creating
  <2> QED
    BY <2>1, <2>2 DEF A!Sound
<1>8. A!Sound(p)'
  BY <1>2, <1>3, <1>4, <1>7 DEF A!Sound, A!Creating
<1>9. \A q \in Requests \ {p} : A!Apart(p, q)' /\ A!Apart(q, p)'
  BY <1>2, <1>3, <1>6 DEF A!Apart, A!Types
<1>10. w # A!Ended("committed")
  BY <1>2 DEF A!Ended
<1> QED
  BY <1>3, <1>5, <1>8, <1>9, <1>10, OwnStep DEF A!Types

(* An UPDATE of a row that is there takes its lock for what it changes.    *)
LEMMA UpdateMoves ==
  ASSUME A!AgentAssumption, A!AgentInv, NEW p \in Requests, v5[p].op # "none",
         NEW asked, A!Sets(asked, A!Columns), NEW next, A!Update(p, asked, next),
         v5[p].agent \in v1, NEW set, set = A!Changed(v5[p].loaded, asked)
  PROVE  LET w == v5[p]
         IN /\ UNCHANGED <<v1, v2, v3>>
            /\ v5' = [v5 EXCEPT ![p] = v5'[p]] /\ A!Working(v5'[p])
            /\ v5'[p].op = w.op /\ v5'[p].agent = w.agent /\ v5'[p].asked = w.asked
            /\ v5'[p].snap = w.snap /\ v5'[p].pc = next
            /\ DOMAIN set \subseteq DOMAIN asked
            /\ \A c \in DOMAIN asked : c \in DOMAIN set <=> asked[c] # w.loaded[c]
            /\ DOMAIN v5'[p].wrote = DOMAIN w.wrote \cup DOMAIN set
            /\ \A c \in DOMAIN set : v5'[p].wrote[c] = asked[c]
            /\ DOMAIN w.wrote = {} =>
                 \A c \in A!Columns \ DOMAIN asked : v5'[p].loaded[c] = v2[w.agent][c]
            /\ v4' \in [Agents -> Requests \cup {A!NoOne}]
            /\ \A a \in Agents :
                 v4'[a] = v4[a] \/ {v4[a], v4'[a]} \subseteq {A!NoOne, p}
            /\ \A a \in Agents : v4'[a] = p => v4[a] = p \/ a = w.agent
            /\ DOMAIN v5'[p].wrote # {} => v4'[w.agent] = p
<1> DEFINE w == v5[p]
           wrote == A!Over(w.wrote, set)
           loaded == A!Over(A!Over(v2[w.agent], w.wrote), set)
<1>1. /\ A!Working(w) /\ A!Sound(p) /\ A!Types /\ w.agent \in Agents
      /\ v2[w.agent] \in A!Row
      /\ w.loaded \in A!Row
  BY Own
<1>2. /\ v4[w.agent] \in {A!NoOne, p}
      /\ v4' = IF DOMAIN set = {} THEN v4 ELSE [v4 EXCEPT ![w.agent] = p]
      /\ v5' = [v5 EXCEPT ![p].wrote = wrote, ![p].loaded = loaded, ![p].pc = next]
      /\ UNCHANGED <<v1, v2, v3>>
  BY DEF A!Update
<1>3. /\ DOMAIN set = {c \in DOMAIN asked : asked[c] # w.loaded[c]}
      /\ \A c \in DOMAIN set : set[c] = asked[c]
      /\ A!Sets(set, A!Columns)
  BY DEF A!Changed, A!Sets
<1>4. /\ DOMAIN wrote = DOMAIN w.wrote \cup DOMAIN set
      /\ \A c \in DOMAIN wrote :
           wrote[c] = IF c \in DOMAIN set THEN set[c] ELSE w.wrote[c]
      /\ A!Sets(wrote, A!Columns)
  <2>1. A!Sets(w.wrote, A!Columns)
    BY <1>1 DEF A!Working
  <2> QED
    BY <1>3, <2>1 DEF A!Over, A!Sets
<1>5. /\ loaded \in A!Row
      /\ \A c \in A!Columns : loaded[c] =
           IF c \in DOMAIN set THEN set[c]
           ELSE IF c \in DOMAIN w.wrote THEN w.wrote[c] ELSE v2[w.agent][c]
  <2> DEFINE seen == A!Over(v2[w.agent], w.wrote)
  <2>1. A!Sets(w.wrote, A!Columns)
    BY <1>1 DEF A!Working
  <2>2. /\ seen \in A!Row
        /\ \A c \in A!Columns :
             seen[c] = IF c \in DOMAIN w.wrote THEN w.wrote[c] ELSE v2[w.agent][c]
    BY <1>1, <2>1, OverSets
  <2>3. loaded = A!Over(seen, set)
    OBVIOUS
  <2> HIDE DEF seen, loaded
  <2> QED
    BY <1>3, <2>2, <2>3, OverSets
<1> HIDE DEF wrote, loaded
<1>6. /\ DOMAIN v5'[p] = DOMAIN w
      /\ v5' = [v5 EXCEPT ![p] = v5'[p]]
      /\ v5'[p].wrote = wrote /\ v5'[p].loaded = loaded /\ v5'[p].pc = next
      /\ v5'[p].op = w.op /\ v5'[p].agent = w.agent /\ v5'[p].asked = w.asked
      /\ v5'[p].snap = w.snap /\ v5'[p].first = w.first
  BY <1>1, <1>2 DEF A!Types, A!Working
<1>7. A!Working(v5'[p])
  BY <1>1, <1>4, <1>5, <1>6 DEF A!Working
<1>8. /\ v4' \in [Agents -> Requests \cup {A!NoOne}]
      /\ \A a \in Agents : v4'[a] = IF a = w.agent /\ DOMAIN set # {} THEN p ELSE v4[a]
  BY <1>1, <1>2 DEF A!Types
<1>9. DOMAIN wrote # {} => v4'[w.agent] = p
  BY <1>1, <1>4, <1>8 DEF A!Sound
<1>10. DOMAIN w.wrote = {} =>
         \A c \in A!Columns \ DOMAIN asked : v5'[p].loaded[c] = v2[w.agent][c]
  BY <1>3, <1>5, <1>6
<1>11. \A c \in DOMAIN set : v5'[p].wrote[c] = asked[c]
  BY <1>3, <1>4, <1>6
<1> QED
  BY <1>2, <1>3, <1>4, <1>6, <1>7, <1>8, <1>9, <1>10, <1>11

(* The key that came with a PATCH.                                         *)
LEMMA StoreKeyStep ==
  ASSUME A!AgentAssumption, A!AgentInv, NEW p \in Requests, A!StoreKey(p)
  PROVE  A!AgentInv' /\ v5'[p] # A!Ended("committed") /\ UNCHANGED <<v1, v2, v3>>
<1> DEFINE w == v5[p]
           a == w.agent
<1>1. w.pc = "key" /\ A!Update(p, w.first, "check")
  BY DEF A!StoreKey, A!At
<1>2. w.op # "none"
  <2>1. A!Working(w) \/ A!Outside(w)
    BY DEF A!AgentInv, A!Types
  <2> QED
    BY <1>1, <2>1 DEF A!Working, A!Outside, A!Unsent, A!Ended
<1>3. CASE a \notin v1
  BY <1>1, <1>3, RollbackStep DEF A!Update, A!Rollback
<1>4. CASE a \in v1
  <2>1. /\ A!Working(w) /\ A!Sound(p) /\ A!Types /\ a \in Agents /\ v2[a] \in A!Row
        /\ w.op \in {"patch", "rollback"} /\ A!Sets(w.first, {"key"})
    BY <1>1, <1>2, Own DEF A!Working, A!Sound, A!Moving, A!Deleting, A!Creating
  <2>2. A!Sets(w.first, A!Columns)
    BY <2>1 DEF A!Sets, A!Columns
  <2> DEFINE asked == w.first
             set == A!Changed(w.loaded, asked)
  <2>a. set = A!Changed(w.loaded, asked) /\ A!Update(p, asked, "check")
        /\ A!Sets(asked, A!Columns) /\ DOMAIN asked \subseteq {"key"}
    BY <1>1, <2>1, <2>2 DEF A!Sets
  <2> HIDE DEF asked, set
  <2>3. /\ UNCHANGED <<v1, v2, v3>>
        /\ v5' = [v5 EXCEPT ![p] = v5'[p]] /\ A!Working(v5'[p])
        /\ v5'[p].op = w.op /\ v5'[p].agent = a /\ v5'[p].asked = w.asked
        /\ v5'[p].snap = w.snap /\ v5'[p].pc = "check"
        /\ DOMAIN set \subseteq DOMAIN asked
        /\ DOMAIN v5'[p].wrote = DOMAIN w.wrote \cup DOMAIN set
        /\ DOMAIN w.wrote = {} =>
             \A c \in A!Columns \ DOMAIN asked : v5'[p].loaded[c] = v2[w.agent][c]
        /\ v4' \in [Agents -> Requests \cup {A!NoOne}]
        /\ \A b \in Agents :
             v4'[b] = v4[b] \/ {v4[b], v4'[b]} \subseteq {A!NoOne, p}
        /\ \A b \in Agents : v4'[b] = p => v4[b] = p \/ b = a
        /\ DOMAIN v5'[p].wrote # {} => v4'[a] = p
    <3>1. A!Update(p, asked, "check") /\ A!Sets(asked, A!Columns) /\ w.agent \in v1
      BY <1>4, <2>a
    <3>2. set = A!Changed(v5[p].loaded, asked)
      BY <2>a
    <3> QED
      BY <1>2, <3>1, <3>2, UpdateMoves
  <2>4. DOMAIN w.wrote = {} /\ DOMAIN w.snap = {} /\ DOMAIN w.asked = {"config"}
    BY <1>1, <2>1 DEF A!Sound, A!Editing
  <2>5. v5'[p].loaded.version = v2[a].version /\ v5'[p].loaded.config = v2[a].config
    BY <2>a, <2>3, <2>4 DEF A!Columns
  <2>6. A!Editing(p)'
    BY <1>4, <2>a, <2>3, <2>4, <2>5 DEF A!Editing, A!Read, A!Current
  <2>7. A!Sound(p)'
    BY <2>1, <2>3, <2>6 DEF A!Sound
  <2>8. ASSUME NEW q \in Requests \ {p} PROVE A!Apart(p, q)' /\ A!Apart(q, p)'
    <3>1. v5'[q] = v5[q] /\ A!Apart(p, q) /\ A!Apart(q, p)
      BY <2>1, <2>3 DEF A!AgentInv, A!Types
    <3> QED
      BY <2>1, <2>3, <2>4, <3>1 DEF A!Apart
  <2>9. v5'[p] # A!Ended("committed")
    BY <2>3 DEF A!Ended
  <2> QED
    BY <2>3, <2>7, <2>8, <2>9, OwnStep
<1> QED
  BY <1>3, <1>4

(* The name is free, or the request fails.                                 *)
LEMMA CheckNameStep ==
  ASSUME A!AgentAssumption, A!AgentInv, NEW p \in Requests, A!CheckName(p)
  PROVE  A!AgentInv' /\ v5'[p] # A!Ended("committed") /\ UNCHANGED <<v1, v2, v3>>
<1> DEFINE w == v5[p]
<1>1. w.pc = "check"
  BY DEF A!CheckName, A!At
<1>2. w.op # "none"
  <2>1. A!Working(w) \/ A!Outside(w)
    BY DEF A!AgentInv, A!Types
  <2> QED
    BY <1>1, <2>1 DEF A!Working, A!Outside, A!Unsent, A!Ended
<1>3. CASE A!Rollback(p)
  BY <1>3, RollbackStep DEF A!Rollback
<1>4. CASE v5' = A!Goto(p, "snapshot") /\ UNCHANGED <<v1, v2, v3, v4>>
  <2>1. /\ A!Working(w) /\ A!Sound(p) /\ A!Types /\ w.agent \in Agents
        /\ w.op \in {"patch", "rollback"}
    BY <1>1, <1>2, Own DEF A!Working, A!Sound, A!Moving, A!Deleting, A!Creating
  <2>2. /\ v5' = [v5 EXCEPT ![p] = v5'[p]] /\ DOMAIN v5'[p] = DOMAIN w
        /\ v5'[p].op = w.op /\ v5'[p].agent = w.agent /\ v5'[p].asked = w.asked
        /\ v5'[p].snap = w.snap /\ v5'[p].pc = "snapshot"
        /\ v5'[p].wrote = w.wrote /\ v5'[p].loaded = w.loaded
        /\ v5'[p].first = w.first
    BY <1>4, <2>1 DEF A!Goto, A!Types, A!Working
  <2>3. A!Working(v5'[p])
    BY <2>1, <2>2 DEF A!Working
  <2>4. A!Editing(p)'
    BY <1>1, <1>4, <2>1, <2>2 DEF A!Sound, A!Editing, A!Read, A!Current
  <2>5. A!Sound(p)'
    BY <1>4, <2>1, <2>2, <2>4 DEF A!Sound
  <2>6. ASSUME NEW q \in Requests \ {p} PROVE A!Apart(p, q)' /\ A!Apart(q, p)'
    <3>1. v5'[q] = v5[q] /\ A!Apart(p, q) /\ A!Apart(q, p)
      BY <2>1, <2>2 DEF A!AgentInv, A!Types
    <3> QED
      BY <1>4, <2>1, <2>2, <3>1 DEF A!Apart
  <2>7. v5'[p] # A!Ended("committed")
    BY <2>2 DEF A!Ended
  <2> QED
    BY <1>4, <2>1, <2>2, <2>3, <2>5, <2>6, <2>7, OwnStep DEF A!Types
<1> QED
  BY <1>3, <1>4 DEF A!CheckName

(* The snapshot is of the current version, and nobody else has one.        *)
LEMMA SnapshotStep ==
  ASSUME A!AgentAssumption, A!AgentInv, NEW p \in Requests, A!Snapshot(p)
  PROVE  A!AgentInv' /\ v5'[p] # A!Ended("committed") /\ UNCHANGED <<v1, v2, v3>>
<1> DEFINE w == v5[p]
           a == w.agent
           snap == [v \in {w.loaded.version} |-> w.loaded.config]
<1>1. w.pc = "snapshot" /\ A!Ahead(p) = {}
  BY DEF A!Snapshot, A!At
<1>2. w.op # "none"
  <2>1. A!Working(w) \/ A!Outside(w)
    BY DEF A!AgentInv, A!Types
  <2> QED
    BY <1>1, <2>1 DEF A!Working, A!Outside, A!Unsent, A!Ended
<1>3. CASE A!Rollback(p)
  BY <1>3, RollbackStep DEF A!Rollback
<1>4. CASE ~A!Duplicate(p) /\ a \in v1
  <2>1. /\ A!Working(w) /\ A!Sound(p) /\ A!Types /\ a \in Agents
        /\ w.op \in {"patch", "rollback"} /\ v2[a] \in A!Row /\ w.loaded \in A!Row
    BY <1>1, <1>2, Own DEF A!Working, A!Sound, A!Moving, A!Deleting, A!Creating
  <2>2. /\ v5' = [v5 EXCEPT ![p].pc = "write", ![p].snap = snap]
        /\ UNCHANGED <<v1, v2, v3, v4>>
    BY <1>4 DEF A!Snapshot, A!Superseded
  <2>3. /\ v5' = [v5 EXCEPT ![p] = v5'[p]] /\ DOMAIN v5'[p] = DOMAIN w
        /\ v5'[p].op = w.op /\ v5'[p].agent = a /\ v5'[p].asked = w.asked
        /\ v5'[p].snap = snap /\ v5'[p].pc = "write"
        /\ v5'[p].wrote = w.wrote /\ v5'[p].loaded = w.loaded
        /\ v5'[p].first = w.first
    BY <2>1, <2>2 DEF A!Types, A!Working
  <2>4. A!Working(v5'[p])
    BY <2>1, <2>3 DEF A!Working
  <2>5. w.loaded.version = v2[a].version /\ w.loaded.config = v2[a].config
    <3>1. DOMAIN v3[a] = 1..(v2[a].version - 1)
      BY <1>4, <2>1 DEF A!AgentInv, A!HistoryOfTheLiving
    <3>2. w.loaded.version \in Nat \ {0} /\ v2[a].version \in Nat \ {0}
      BY <2>1 DEF A!Row
    <3>3. w.loaded.version \notin 1..(v2[a].version - 1)
      BY <1>4, <3>1 DEF A!Duplicate
    <3>4. A!Read(w, v2[a])
      BY <1>1, <1>4, <2>1 DEF A!Sound, A!Editing
    <3> QED
      BY <3>2, <3>3, <3>4 DEF A!Read, A!Current
  <2>6. DOMAIN snap = {v2[a].version} /\ snap[v2[a].version] = v2[a].config
    BY <2>5
  <2> HIDE DEF snap
  <2>7. A!Editing(p)'
    <3>1. DOMAIN w.asked = {"config"} /\ DOMAIN w.wrote \subseteq {"key"}
      BY <1>1, <2>1 DEF A!Sound, A!Editing
    <3>2. v5'[p].agent \in v1' /\ v2'[v5'[p].agent] = v2[a]
      BY <1>4, <2>2, <2>3
    <3> QED
      BY <2>3, <2>5, <2>6, <3>1, <3>2 DEF A!Editing, A!Kept, A!Current
  <2>8. A!Sound(p)'
    BY <2>1, <2>2, <2>3, <2>7 DEF A!Sound
  <2>9. ASSUME NEW q \in Requests \ {p} PROVE A!Apart(p, q)' /\ A!Apart(q, p)'
    <3>1. /\ v5'[q] = v5[q] /\ A!Apart(p, q) /\ A!Apart(q, p) /\ A!Sound(q)
      BY <2>1, <2>3 DEF A!AgentInv, A!Types
    <3>2. SUFFICES ASSUME v5[q].op # "none", v5[q].agent = a
                   PROVE  A!Apart(p, q)' /\ A!Apart(q, p)'
      BY <2>3, <3>1 DEF A!Apart
    <3>3. q \in A!On(a)
      BY <3>2 DEF A!On
    <3>4. /\ w.loaded.version \notin DOMAIN v5[q].snap
          /\ ~(v5[q].op = "delete" /\ v4[v5[q].agent] = q)
      BY <1>1, <3>3 DEF A!Ahead
    <3>5. DOMAIN v5[q].snap = {}
      <4>1. CASE v5[q].op \in {"transition", "key"}
        BY <3>1, <4>1, NothingIn DEF A!Sound, A!Moving
      <4>2. CASE v5[q].op \in {"patch", "rollback"}
        BY <2>5, <3>1, <3>2, <3>4, <4>2 DEF A!Sound, A!Editing, A!Kept
      <4>3. CASE v5[q].op \in {"delete", "create"}
        BY <3>1, <4>3 DEF A!Sound, A!Deleting, A!Creating
      <4>4. A!Working(v5[q])
        BY <3>2, Own
      <4> QED
        BY <4>1, <4>2, <4>3, <4>4 DEF A!Working
    <3>6. v5[q].op # "create"
      BY <2>1, <3>1, <3>2, <1>2 DEF A!Apart
    <3> QED
      BY <2>1, <2>2, <2>3, <3>1, <3>4, <3>5, <3>6 DEF A!Apart
  <2>10. v5'[p] # A!Ended("committed")
    BY <2>3 DEF A!Ended
  <2> QED
    BY <2>1, <2>2, <2>3, <2>4, <2>8, <2>9, <2>10, OwnStep DEF A!Types
<1> QED
  BY <1>3, <1>4 DEF A!Snapshot

(* The columns an edit or a status move sets.                              *)
LEMMA BumpedSets ==
  ASSUME A!AgentInv, NEW p \in Requests, v5[p].op # "none", v5[p].pc = "write"
  PROVE  LET w == v5[p]
         IN /\ A!Sets(A!Bumped(w), A!Columns)
            /\ w.op \in {"transition", "key"} => A!Bumped(w) = w.asked
            /\ w.op \in {"patch", "rollback"} =>
                 /\ DOMAIN A!Bumped(w) = {"config", "version"}
                 /\ A!Bumped(w).config = w.asked.config
                 /\ A!Bumped(w).version = w.loaded.version + 1
            /\ w.op \in {"transition", "key", "patch", "rollback"}
<1> DEFINE w == v5[p]
<1>1. /\ A!Working(w) /\ A!Sound(p) /\ w.loaded \in A!Row /\ w.loaded.version \in Nat \ {0}
      /\ w.op \in {"transition", "key", "patch", "rollback"}
      /\ A!Sets(w.asked, {"status", "config", "key"})
  BY Own DEF A!Working, A!Sound, A!Deleting, A!Creating, A!Row
<1>2. CASE w.op \in {"transition", "key"}
  <2>1. A!Bumped(w) = w.asked
    BY <1>1, <1>2 DEF A!Sound, A!Moving, A!Bumped
  <2> QED
    BY <1>1, <1>2, <2>1 DEF A!Sets, A!Columns
<1>3. CASE w.op \in {"patch", "rollback"}
  <2>1. DOMAIN w.asked = {"config"} /\ w.asked.config \in Configs
    BY <1>1, <1>3 DEF A!Sound, A!Editing, A!Sets, A!Values
  <2>2. DOMAIN w.snap # {}
    BY <1>1, <1>3 DEF A!Sound, A!Editing, A!Kept
  <2>3. w.snap # <<>>
    BY <2>2, NothingIn
  <2> DEFINE new == [version |-> w.loaded.version + 1]
             set == A!Over(w.asked, new)
  <2>4. A!Bumped(w) = set
    BY <2>3 DEF A!Bumped
  <2>5. /\ DOMAIN set = {"config", "version"}
        /\ set["config"] = w.asked["config"] /\ set["version"] = w.loaded.version + 1
    BY <2>1 DEF A!Over
  <2> HIDE DEF set
  <2>6. A!Sets(set, A!Columns)
    BY <1>1, <2>1, <2>5 DEF A!Sets, A!Columns, A!Values
  <2> QED
    BY <1>3, <2>4, <2>5, <2>6
<1> QED
  BY <1>1, <1>2, <1>3

(* The UPDATE of an edit, a status move or a key.                          *)
LEMMA WriteStep ==
  ASSUME A!AgentAssumption, A!AgentInv, NEW p \in Requests, A!Write(p)
  PROVE  A!AgentInv' /\ v5'[p] # A!Ended("committed") /\ UNCHANGED <<v1, v2, v3>>
<1> DEFINE w == v5[p]
           a == w.agent
           asked == A!Bumped(w)
<1>1. w.pc = "write" /\ A!Update(p, asked, "commit")
  BY DEF A!Write, A!At
<1>2. w.op # "none"
  <2>1. A!Working(w) \/ A!Outside(w)
    BY DEF A!AgentInv, A!Types
  <2> QED
    BY <1>1, <2>1 DEF A!Working, A!Outside, A!Unsent, A!Ended
<1>3. CASE a \notin v1
  BY <1>1, <1>3, RollbackStep DEF A!Update, A!Rollback
<1>4. CASE a \in v1
  <2>1. /\ A!Working(w) /\ A!Sound(p) /\ A!Types /\ a \in Agents /\ v2[a] \in A!Row
        /\ w.op \in {"transition", "key", "patch", "rollback"}
    BY <1>1, <1>2, Own, BumpedSets
  <2>2. /\ A!Sets(asked, A!Columns)
        /\ w.op \in {"transition", "key"} => asked = w.asked
        /\ w.op \in {"patch", "rollback"} =>
             /\ DOMAIN asked = {"config", "version"} /\ asked.config = w.asked.config
             /\ asked.version = w.loaded.version + 1
    BY <1>1, <1>2, BumpedSets
  <2> HIDE DEF asked
  <2> DEFINE set == A!Changed(w.loaded, asked)
  <2>3. set = A!Changed(w.loaded, asked)
    OBVIOUS
  <2> HIDE DEF set
  <2>4. /\ UNCHANGED <<v1, v2, v3>>
        /\ v5' = [v5 EXCEPT ![p] = v5'[p]] /\ A!Working(v5'[p])
        /\ v5'[p].op = w.op /\ v5'[p].agent = a /\ v5'[p].asked = w.asked
        /\ v5'[p].snap = w.snap /\ v5'[p].pc = "commit"
        /\ DOMAIN set \subseteq DOMAIN asked
        /\ \A c \in DOMAIN asked : c \in DOMAIN set <=> asked[c] # w.loaded[c]
        /\ DOMAIN v5'[p].wrote = DOMAIN w.wrote \cup DOMAIN set
        /\ \A c \in DOMAIN set : v5'[p].wrote[c] = asked[c]
        /\ v4' \in [Agents -> Requests \cup {A!NoOne}]
        /\ \A b \in Agents :
             v4'[b] = v4[b] \/ {v4[b], v4'[b]} \subseteq {A!NoOne, p}
        /\ \A b \in Agents : v4'[b] = p => v4[b] = p \/ b = a
        /\ DOMAIN v5'[p].wrote # {} => v4'[a] = p
    BY <1>1, <1>2, <1>4, <2>2, <2>3, UpdateMoves
  <2>5. w.op \in {"transition", "key"} => A!Moving(p)'
    BY <1>1, <2>1, <2>2, <2>4 DEF A!Sound, A!Moving
  <2>6. ASSUME w.op \in {"patch", "rollback"} PROVE A!Editing(p)'
    <3>1. /\ DOMAIN w.asked = {"config"} /\ A!Kept(w, v2[a]) /\ A!Current(w, v2[a])
          /\ DOMAIN w.wrote \subseteq {"key"}
      BY <1>1, <2>1, <2>6 DEF A!Sound, A!Editing
    <3>2. w.loaded.version \in Nat /\ w.loaded.version = v2[a].version
          /\ w.loaded.config = v2[a].config
      BY <2>1, <3>1 DEF A!Working, A!Row, A!Current
    <3>3. "version" \in DOMAIN set
      BY <2>2, <2>4, <2>6, <3>2
    <3>4. v5'[p].wrote.version = v2[a].version + 1
      BY <2>2, <2>4, <2>6, <3>2, <3>3
    <3>5. w.asked.config = IF "config" \in DOMAIN v5'[p].wrote
                           THEN v5'[p].wrote.config ELSE v2[a].config
      BY <2>2, <2>4, <2>6, <3>1, <3>2
    <3>6. DOMAIN v5'[p].wrote \subseteq {"key", "config", "version"}
      BY <2>2, <2>4, <2>6, <3>1
    <3>7. v5'[p].agent \in v1' /\ v2'[v5'[p].agent] = v2[a]
      BY <1>4, <2>4
    <3> QED
      BY <2>4, <3>1, <3>3, <3>4, <3>5, <3>6, <3>7 DEF A!Editing, A!Kept
  <2>7. A!Sound(p)'
    BY <2>1, <2>4, <2>5, <2>6 DEF A!Sound
  <2>8. ASSUME NEW q \in Requests \ {p} PROVE A!Apart(p, q)' /\ A!Apart(q, p)'
    <3>1. v5'[q] = v5[q] /\ A!Apart(p, q) /\ A!Apart(q, p)
      BY <2>1, <2>4 DEF A!AgentInv, A!Types
    <3>2. v5[q].op # "none" => v5[q].agent \in Agents
      BY Own
    <3>3. v5[q].op # "none" => (v4'[v5[q].agent] = q <=> v4[v5[q].agent] = q)
      BY <2>4, <3>2 DEF A!AgentAssumption
    <3> QED
      BY <2>1, <2>4, <3>1, <3>3 DEF A!Apart
  <2>9. v5'[p] # A!Ended("committed")
    BY <2>4 DEF A!Ended
  <2> QED
    BY <2>4, <2>7, <2>8, <2>9, OwnStep
<1> QED
  BY <1>3, <1>4

(* A DELETE takes the lock of a row that nobody refers to.                 *)
LEMMA RemoveStep ==
  ASSUME A!AgentAssumption, A!AgentInv, NEW p \in Requests, A!Remove(p)
  PROVE  A!AgentInv' /\ v5'[p] # A!Ended("committed") /\ UNCHANGED <<v1, v2, v3>>
<1> DEFINE w == v5[p]
           a == w.agent
<1>1. /\ w.pc = "delete" /\ v4[a] = A!NoOne /\ A!Referrers(p) = {}
      /\ v4' = IF a \in v1 THEN [v4 EXCEPT ![a] = p] ELSE v4
      /\ v5' = A!Goto(p, "commit") /\ UNCHANGED <<v1, v2, v3>>
  BY DEF A!Remove, A!At
<1>2. w.op # "none"
  <2>1. A!Working(w) \/ A!Outside(w)
    BY DEF A!AgentInv, A!Types
  <2> QED
    BY <1>1, <2>1 DEF A!Working, A!Outside, A!Unsent, A!Ended
<1>3. /\ A!Working(w) /\ A!Sound(p) /\ A!Types /\ a \in Agents /\ w.op = "delete"
      /\ DOMAIN w.snap = {} /\ DOMAIN w.wrote = {}
  BY <1>1, <1>2, Own DEF A!Working, A!Sound, A!Moving, A!Editing, A!Deleting, A!Creating
<1>4. /\ v5' = [v5 EXCEPT ![p] = v5'[p]] /\ DOMAIN v5'[p] = DOMAIN w
      /\ v5'[p].op = w.op /\ v5'[p].agent = w.agent /\ v5'[p].asked = w.asked
      /\ v5'[p].snap = w.snap /\ v5'[p].pc = "commit"
      /\ v5'[p].wrote = w.wrote /\ v5'[p].loaded = w.loaded
      /\ v5'[p].first = w.first
  BY <1>1, <1>3 DEF A!Goto, A!Types, A!Working
<1>5. A!Working(v5'[p])
  BY <1>3, <1>4 DEF A!Working
<1>6. /\ v4' \in [Agents -> Requests \cup {A!NoOne}]
      /\ \A b \in Agents : v4'[b] = IF b = a /\ a \in v1 THEN p ELSE v4[b]
  BY <1>1, <1>3 DEF A!Types
<1>7. A!Sound(p)'
  BY <1>1, <1>3, <1>4, <1>6 DEF A!Sound, A!Deleting
<1>8. ASSUME NEW q \in Requests \ {p} PROVE A!Apart(p, q)' /\ A!Apart(q, p)'
  <2>1. /\ v5'[q] = v5[q] /\ A!Apart(p, q) /\ A!Apart(q, p)
    BY <1>3, <1>4 DEF A!AgentInv, A!Types
  <2>2. v5[q].op # "none" /\ v5[q].agent = a => DOMAIN v5[q].snap = {}
    BY <1>1 DEF A!Referrers, A!On
  <2> QED
    BY <1>3, <1>4, <2>1, <2>2 DEF A!Apart
<1>9. v5'[p] # A!Ended("committed")
  BY <1>4 DEF A!Ended
<1> QED
  BY <1>1, <1>4, <1>5, <1>6, <1>7, <1>8, <1>9, OwnStep

(* The transaction of p is committed, and leaves the others sound.         *)
LEMMA EndStep ==
  ASSUME A!AgentAssumption, A!AgentInv, NEW p \in Requests, A!Release(p),
         v5' = [v5 EXCEPT ![p] = A!Ended("committed")],
         v1' \subseteq Agents, v2' \in [Agents -> A!Row], DOMAIN v3' = Agents,
         A!HistoryOfTheLiving',
         \A q \in Requests \ {p} : v5'[q] = v5[q] =>
           /\ v5[q].op \in {"patch", "rollback"} => A!Editing(q)'
           /\ /\ v5[q].op = "delete"
              /\ v4'[v5[q].agent] = q <=> v4[v5[q].agent] = q
              => A!Deleting(q)'
           /\ v5[q].op = "create" => A!Creating(q)'
  PROVE  A!AgentInv'
<1>1. /\ A!Types /\ v5'[p] = A!Ended("committed") /\ DOMAIN v5' = Requests
      /\ \A q \in Requests \ {p} : v5'[q] = v5[q]
  BY DEF A!AgentInv, A!Types
<1>2. /\ v4' \in [Agents -> Requests \cup {A!NoOne}]
      /\ \A a \in Agents : v4'[a] = IF v4[a] = p THEN A!NoOne ELSE v4[a]
  BY <1>1 DEF A!Types, A!Release
<1>3. A!Outside(v5'[p]) /\ v5'[p].op = "none"
  BY <1>1 DEF A!Outside, A!Ended
<1>4. A!Types'
  BY <1>1, <1>2, <1>3 DEF A!Types
<1>5. A!Sound(p)'
  BY <1>2, <1>3 DEF A!Sound, A!AgentAssumption
<1>6. \A q \in Requests \ {p} : \A a \in Agents : v4'[a] = q <=> v4[a] = q
  BY <1>2 DEF A!AgentAssumption
<1>7. ASSUME NEW q \in Requests \ {p} PROVE A!Sound(q)'
  <2>1. /\ A!Sound(q) /\ v5'[q] = v5[q]
        /\ v5[q].op # "none" => v5[q].agent \in Agents
    BY <1>1, Own DEF A!AgentInv
  <2>2. v5[q].op \in {"transition", "key"} => A!Moving(q)'
    BY <2>1 DEF A!Sound, A!Moving
  <2>3. /\ v5[q].op \in {"patch", "rollback"} => A!Editing(q)'
        /\ v5[q].op = "delete" => A!Deleting(q)'
        /\ v5[q].op = "create" => A!Creating(q)'
    BY <1>6, <2>1
  <2> QED
    BY <1>6, <2>1, <2>2, <2>3 DEF A!Sound
<1>8. ASSUME NEW q \in Requests, NEW r \in Requests PROVE A!Apart(q, r)'
  <2>1. CASE q = p \/ r = p
    BY <1>3, <2>1 DEF A!Apart
  <2>2. CASE q # p /\ r # p
    <3>1. A!Apart(q, r) /\ v5'[q] = v5[q] /\ v5'[r] = v5[r]
      BY <1>1, <2>2 DEF A!AgentInv
    <3>2. v5[r].op # "none" => v5[r].agent \in Agents
      BY Own
    <3> QED
      BY <1>6, <2>2, <3>1, <3>2 DEF A!Apart
  <2> QED
    BY <2>1, <2>2
<1> QED
  BY <1>4, <1>5, <1>7, <1>8 DEF A!AgentInv

(* A deletion leaves the history of the other agents as it is.             *)
LEMMA CommitDeleteStep ==
  ASSUME A!AgentAssumption, A!AgentInv, NEW p \in Requests, A!Commit(p), v5[p].op = "delete"
  PROVE  A!AgentInv' /\ A!FaithfulStep /\ A!ApartStep
<1> DEFINE w == v5[p]
           a == w.agent
<1>1. /\ w.pc = "commit" /\ v5' = [v5 EXCEPT ![p] = A!Ended("committed")] /\ A!Release(p)
      /\ v1' = v1 \ {a} /\ v3' = [v3 EXCEPT ![a] = <<>>]
      /\ UNCHANGED v2
  BY DEF A!Commit, A!At
<1>2. /\ A!Working(w) /\ A!Sound(p) /\ A!Types /\ a \in Agents
      /\ v4[a] = p \/ a \notin v1
  BY <1>1, Own DEF A!Sound, A!Deleting
<1>3. /\ v1' \subseteq Agents /\ v2' \in [Agents -> A!Row] /\ DOMAIN v3' = Agents
      /\ \A b \in Agents \ {a} : v3'[b] = v3[b]
      /\ v3'[a] = <<>>
  BY <1>1, <1>2 DEF A!Types
<1>4. A!HistoryOfTheLiving'
  <2>1. DOMAIN v3'[a] = {}
    BY <1>3, NothingIn
  <2> QED
    BY <1>1, <1>3, <2>1 DEF A!AgentInv, A!HistoryOfTheLiving
<1>5. ASSUME NEW q \in Requests \ {p}, v5'[q] = v5[q]
      PROVE  /\ v5[q].op \in {"patch", "rollback"} => A!Editing(q)'
             /\ /\ v5[q].op = "delete"
                /\ v4'[v5[q].agent] = q <=> v4[v5[q].agent] = q
                => A!Deleting(q)'
             /\ v5[q].op = "create" => A!Creating(q)'
  <2>1. A!Sound(q) /\ A!Apart(q, p)
    BY DEF A!AgentInv
  <2>2. ASSUME v5[q].op \in {"patch", "rollback"} PROVE A!Editing(q)'
    <3>1. A!Editing(q) /\ v2' = v2
      BY <1>1, <2>1, <2>2 DEF A!Sound
    <3>2. CASE v5[q].agent = a /\ a \in v1
      <4>1. DOMAIN v5[q].snap = {}
        BY <1>2, <2>1, <2>2, <3>2 DEF A!Apart
      <4> QED
        BY <1>1, <1>5, <3>1, <3>2, <4>1 DEF A!Editing, A!Kept
    <3>3. CASE v5[q].agent \in v1' <=> v5[q].agent \in v1
      BY <1>5, <3>1, <3>3 DEF A!Editing
    <3> QED
      BY <1>1, <3>2, <3>3
  <2>3. /\ v5[q].op = "delete"
        /\ v4'[v5[q].agent] = q <=> v4[v5[q].agent] = q
        => A!Deleting(q)'
    BY <1>1, <1>5, <2>1 DEF A!Sound, A!Deleting
  <2>4. v5[q].op = "create" => A!Creating(q)'
    BY <1>1, <1>5, <2>1 DEF A!Sound, A!Creating
  <2> QED
    BY <2>2, <2>3, <2>4
<1>6. A!AgentInv'
  BY <1>1, <1>3, <1>4, <1>5, EndStep
<1>7. A!FaithfulStep
  <2> SUFFICES ASSUME NEW b \in Agents, A!Committed(b)
               PROVE  /\ \A v \in DOMAIN v3[b] :
                           v \in DOMAIN v3'[b] /\ v3'[b][v] = v3[b][v]
                      /\ v2'[b].config = v2[b].config
    BY DEF A!FaithfulStep
  <2>1. b # a
    BY <1>1 DEF A!Committed
  <2> QED
    BY <1>1, <1>3, <2>1
<1>8. A!ApartStep
  BY <1>1 DEF A!ApartStep
<1> QED
  BY <1>6, <1>7, <1>8

(* A new agent is at version 1 and has no history.                         *)
LEMMA CommitCreateStep ==
  ASSUME A!AgentAssumption, A!AgentInv, NEW p \in Requests, A!Commit(p), v5[p].op = "create"
  PROVE  A!AgentInv' /\ A!FaithfulStep /\ A!ApartStep
<1> DEFINE w == v5[p]
           a == w.agent
<1>1. /\ w.pc = "commit" /\ v5' = [v5 EXCEPT ![p] = A!Ended("committed")] /\ A!Release(p)
      /\ v1' = v1 \cup {a} /\ v2' = [v2 EXCEPT ![a] = w.loaded]
      /\ UNCHANGED v3
  BY DEF A!Commit, A!At
<1>2. /\ A!Working(w) /\ A!Sound(p) /\ A!Types /\ a \in Agents /\ w.loaded \in A!Row
      /\ a \notin v1 /\ w.loaded.version = 1
  BY <1>1, Own DEF A!Sound, A!Creating
<1>3. /\ v1' \subseteq Agents /\ v2' \in [Agents -> A!Row] /\ DOMAIN v3' = Agents
      /\ \A b \in Agents \ {a} : v2'[b] = v2[b]
      /\ v2'[a] = w.loaded
  BY <1>1, <1>2 DEF A!Types
<1>4. A!HistoryOfTheLiving'
  BY <1>1, <1>2, <1>3 DEF A!AgentInv, A!HistoryOfTheLiving
<1>5. ASSUME NEW q \in Requests \ {p}, v5'[q] = v5[q]
      PROVE  /\ v5[q].op \in {"patch", "rollback"} => A!Editing(q)'
             /\ /\ v5[q].op = "delete"
                /\ v4'[v5[q].agent] = q <=> v4[v5[q].agent] = q
                => A!Deleting(q)'
             /\ v5[q].op = "create" => A!Creating(q)'
  <2>1. A!Sound(q) /\ A!Apart(p, q)
    BY DEF A!AgentInv
  <2>2. v5[q].op # "none" =>
          /\ v5[q].agent # a /\ v5[q].agent \in Agents
          /\ (v5[q].agent \in v1' <=> v5[q].agent \in v1)
          /\ v2'[v5[q].agent] = v2[v5[q].agent]
    BY <1>1, <1>2, <1>3, <2>1, Own DEF A!Apart
  <2>3. v5[q].op \in {"patch", "rollback"} => A!Editing(q)'
    BY <1>5, <2>1, <2>2 DEF A!Sound, A!Editing
  <2>4. /\ v5[q].op = "delete"
        /\ v4'[v5[q].agent] = q <=> v4[v5[q].agent] = q
        => A!Deleting(q)'
    BY <1>5, <2>1, <2>2 DEF A!Sound, A!Deleting
  <2>5. v5[q].op = "create" => A!Creating(q)'
    BY <1>5, <2>1, <2>2 DEF A!Sound, A!Creating
  <2> QED
    BY <2>3, <2>4, <2>5
<1>6. A!AgentInv'
  BY <1>1, <1>3, <1>4, <1>5, EndStep
<1>7. \A b \in Agents : A!Committed(b) => v2'[b] = v2[b] /\ v3'[b] = v3[b]
  BY <1>1, <1>2, <1>3 DEF A!Committed
<1> QED
  BY <1>6, <1>7 DEF A!FaithfulStep, A!ApartStep

(* A status move and a key change nothing but their column.                *)
LEMMA CommitMoveStep ==
  ASSUME A!AgentAssumption, A!AgentInv, NEW p \in Requests, A!Commit(p),
         v5[p].op \in {"transition", "key"}
  PROVE  A!AgentInv' /\ A!FaithfulStep /\ A!ApartStep
<1> DEFINE w == v5[p]
           a == w.agent
           new == A!Over(v2[a], w.wrote)
           history == A!Over(v3[a], w.snap)
<1>1. /\ w.pc = "commit" /\ v5' = [v5 EXCEPT ![p] = A!Ended("committed")] /\ A!Release(p)
      /\ v2' = [v2 EXCEPT ![a] = new] /\ v3' = [v3 EXCEPT ![a] = history]
      /\ UNCHANGED v1
  BY DEF A!Commit, A!At
<1>2. /\ A!Working(w) /\ A!Sound(p) /\ A!Types /\ a \in Agents /\ v2[a] \in A!Row
      /\ DOMAIN w.snap = {} /\ DOMAIN w.wrote \subseteq DOMAIN w.asked
      /\ DOMAIN w.wrote \subseteq {IF w.op = "key" THEN "key" ELSE "status"}
      /\ A!Sets(w.wrote, A!Columns)
  BY <1>1, Own, NothingIn DEF A!Sound, A!Moving, A!Working
<1>3. /\ DOMAIN history = DOMAIN v3[a]
      /\ \A v \in DOMAIN history : history[v] = v3[a][v]
  BY <1>2 DEF A!Over
<1>4. /\ new \in A!Row /\ new.version = v2[a].version /\ new.config = v2[a].config
      /\ new.status = v2[a].status \/ new.key = v2[a].key
  <2>1. new \in A!Row
    BY <1>2, OverSets
  <2>2. \A c \in A!Columns : new[c] = IF c \in DOMAIN w.wrote THEN w.wrote[c] ELSE v2[a][c]
    BY <1>2, OverSets
  <2> HIDE DEF new
  <2>3. "version" \notin DOMAIN w.wrote /\ "config" \notin DOMAIN w.wrote
        /\ ("status" \notin DOMAIN w.wrote \/ "key" \notin DOMAIN w.wrote)
    BY <1>2
  <2> QED
    BY <2>1, <2>2, <2>3 DEF A!Columns
<1> HIDE DEF new, history
<1>5. /\ v1' \subseteq Agents /\ v2' \in [Agents -> A!Row] /\ DOMAIN v3' = Agents
      /\ \A b \in Agents \ {a} : v2'[b] = v2[b] /\ v3'[b] = v3[b]
      /\ v2'[a] = new /\ v3'[a] = history
  BY <1>1, <1>2, <1>4 DEF A!Types
<1>6. A!HistoryOfTheLiving'
  BY <1>1, <1>3, <1>4, <1>5 DEF A!AgentInv, A!HistoryOfTheLiving
<1>7. ASSUME NEW q \in Requests \ {p}, v5'[q] = v5[q]
      PROVE  /\ v5[q].op \in {"patch", "rollback"} => A!Editing(q)'
             /\ /\ v5[q].op = "delete"
                /\ v4'[v5[q].agent] = q <=> v4[v5[q].agent] = q
                => A!Deleting(q)'
             /\ v5[q].op = "create" => A!Creating(q)'
  <2>1. A!Sound(q)
    BY DEF A!AgentInv
  <2>2. v5[q].op # "none" =>
          /\ v5[q].agent \in Agents
          /\ v2'[v5[q].agent].version = v2[v5[q].agent].version
          /\ v2'[v5[q].agent].config = v2[v5[q].agent].config
    BY <1>4, <1>5, Own
  <2>3. v5[q].op \in {"patch", "rollback"} => A!Editing(q)'
    BY <1>1, <1>7, <2>1, <2>2 DEF A!Sound, A!Editing, A!Read, A!Current, A!Kept
  <2>4. /\ v5[q].op = "delete"
        /\ v4'[v5[q].agent] = q <=> v4[v5[q].agent] = q
        => A!Deleting(q)'
    BY <1>1, <1>7, <2>1 DEF A!Sound, A!Deleting
  <2>5. v5[q].op = "create" => A!Creating(q)'
    BY <1>1, <1>7, <2>1 DEF A!Sound, A!Creating
  <2> QED
    BY <2>3, <2>4, <2>5
<1>8. A!AgentInv'
  BY <1>1, <1>5, <1>6, <1>7, EndStep
<1>9. A!FaithfulStep
  BY <1>2, <1>3, <1>4, <1>5 DEF A!FaithfulStep
<1>10. A!ApartStep
  <2>1. new.status = v2[a].status \/ new = [v2[a] EXCEPT !.status = new.status]
    BY <1>2, <1>4 DEF A!Row
  <2> QED
    BY <1>5, <2>1 DEF A!ApartStep
<1> QED
  BY <1>8, <1>9, <1>10

(* An edit or a roll-back commits what it asked for, the version it        *)
(* supersedes and the snapshot of that version.                            *)
LEMMA CommitEditStep ==
  ASSUME A!AgentAssumption, A!AgentInv, NEW p \in Requests, A!Commit(p),
         v5[p].op \in {"patch", "rollback"}
  PROVE  /\ A!AgentInv' /\ A!FaithfulStep /\ A!ApartStep
         /\ v2'[v5[p].agent].config = v5[p].asked.config
<1> DEFINE w == v5[p]
           a == w.agent
           new == A!Over(v2[a], w.wrote)
           history == A!Over(v3[a], w.snap)
           n == v2[a].version
<1>1. /\ w.pc = "commit" /\ v5' = [v5 EXCEPT ![p] = A!Ended("committed")] /\ A!Release(p)
      /\ v2' = [v2 EXCEPT ![a] = new] /\ v3' = [v3 EXCEPT ![a] = history]
      /\ UNCHANGED v1
  BY DEF A!Commit, A!At
<1>2. /\ A!Working(w) /\ A!Sound(p) /\ A!Types /\ a \in Agents /\ v2[a] \in A!Row
      /\ n \in Nat \ {0} /\ a \in v1
      /\ DOMAIN w.snap = {n} /\ w.snap[n] = v2[a].config
      /\ DOMAIN w.wrote \subseteq {"key", "config", "version"}
      /\ "version" \in DOMAIN w.wrote /\ w.wrote.version = n + 1
      /\ w.asked.config = IF "config" \in DOMAIN w.wrote THEN w.wrote.config
                          ELSE v2[a].config
      /\ A!Sets(w.wrote, A!Columns) /\ v2[a].config \in Configs
  BY <1>1, Own DEF A!Sound, A!Editing, A!Kept, A!Working, A!Row
<1>3. DOMAIN v3[a] = 1..(n - 1)
      /\ \A v \in DOMAIN v3[a] : v3[a][v] \in Configs
  BY <1>2 DEF A!AgentInv, A!HistoryOfTheLiving
<1>4. /\ DOMAIN history = 1..n
      /\ \A v \in DOMAIN v3[a] : history[v] = v3[a][v]
      /\ history[n] = v2[a].config
  <2>1. 1..n = 1..(n - 1) \cup {n} /\ n \notin 1..(n - 1)
    BY <1>2
  <2> QED
    BY <1>2, <1>3, <2>1 DEF A!Over
<1>5. /\ new \in A!Row /\ new.version = n + 1 /\ new.config = w.asked.config
      /\ new.status = v2[a].status
  <2>1. new \in A!Row
    BY <1>2, OverSets
  <2>2. \A c \in A!Columns : new[c] = IF c \in DOMAIN w.wrote THEN w.wrote[c] ELSE v2[a][c]
    BY <1>2, OverSets
  <2> HIDE DEF new
  <2> QED
    BY <1>2, <2>1, <2>2 DEF A!Columns
<1>6. \A v \in 1..n : history[v] \in Configs
  <2>1. \A v \in 1..n : v \in 1..(n - 1) \/ v = n
    BY <1>2
  <2> QED
    BY <1>2, <1>3, <1>4, <2>1
<1> HIDE DEF new, history
<1>7. /\ v1' \subseteq Agents /\ v2' \in [Agents -> A!Row] /\ DOMAIN v3' = Agents
      /\ \A b \in Agents \ {a} : v2'[b] = v2[b] /\ v3'[b] = v3[b]
      /\ v2'[a] = new /\ v3'[a] = history
  BY <1>1, <1>2, <1>5 DEF A!Types
<1>8. A!HistoryOfTheLiving'
  <2>1. (n + 1) - 1 = n
    BY <1>2
  <2>2. /\ DOMAIN v3'[a] = 1..(v2'[a].version - 1) /\ a \in v1'
        /\ \A v \in DOMAIN v3'[a] : v3'[a][v] \in Configs
    BY <1>1, <1>2, <1>4, <1>5, <1>6, <1>7, <2>1
  <2>3. ASSUME NEW b \in Agents \ {a}
        PROVE  /\ DOMAIN v3'[b] = IF b \in v1' THEN 1..(v2'[b].version - 1) ELSE {}
               /\ \A v \in DOMAIN v3'[b] : v3'[b][v] \in Configs
    BY <1>1, <1>7 DEF A!AgentInv, A!HistoryOfTheLiving
  <2> QED
    BY <2>2, <2>3 DEF A!HistoryOfTheLiving
<1>9. ASSUME NEW q \in Requests \ {p}, v5'[q] = v5[q]
      PROVE  /\ v5[q].op \in {"patch", "rollback"} => A!Editing(q)'
             /\ /\ v5[q].op = "delete"
                /\ v4'[v5[q].agent] = q <=> v4[v5[q].agent] = q
                => A!Deleting(q)'
             /\ v5[q].op = "create" => A!Creating(q)'
  <2>1. A!Sound(q) /\ A!Apart(p, q)
    BY DEF A!AgentInv
  <2>2. ASSUME v5[q].op \in {"patch", "rollback"} PROVE A!Editing(q)'
    <3>1. /\ A!Editing(q) /\ v5[q].agent \in Agents /\ v5[q].loaded \in A!Row
          /\ v5[q].loaded.version \in Nat
      BY <2>1, <2>2, Own DEF A!Sound, A!Row
    <3>2. CASE v5[q].agent # a
      BY <1>1, <1>7, <1>9, <3>1, <3>2 DEF A!Editing
    <3>3. CASE v5[q].agent = a
      <4>1. DOMAIN v5[q].snap = {}
        BY <1>2, <2>1, <2>2, <3>3 DEF A!Apart
      <4>2. /\ v5[q].pc \in {"key", "check", "snapshot"} /\ A!Read(v5[q], v2[a])
            /\ DOMAIN v5[q].asked = {"config"}
            /\ DOMAIN v5[q].wrote \subseteq IF v5[q].pc = "key" THEN {} ELSE {"key"}
        BY <1>2, <3>1, <3>3, <4>1 DEF A!Editing, A!Kept
      <4>3. v5[q].loaded.version < new.version
        BY <1>2, <1>5, <3>1, <4>2 DEF A!Read, A!Current
      <4> QED
        BY <1>1, <1>7, <1>9, <3>3, <4>1, <4>2, <4>3 DEF A!Editing, A!Read
    <3> QED
      BY <3>2, <3>3
  <2>3. /\ v5[q].op = "delete"
        /\ v4'[v5[q].agent] = q <=> v4[v5[q].agent] = q
        => A!Deleting(q)'
    BY <1>1, <1>9, <2>1 DEF A!Sound, A!Deleting
  <2>4. v5[q].op = "create" => A!Creating(q)'
    BY <1>1, <1>9, <2>1 DEF A!Sound, A!Creating
  <2> QED
    BY <2>2, <2>3, <2>4
<1>10. A!AgentInv'
  BY <1>1, <1>7, <1>8, <1>9, EndStep
<1>11. A!FaithfulStep
  <2>1. \A v \in DOMAIN v3[a] : v \in DOMAIN history
    BY <1>2, <1>3, <1>4
  <2> QED
    BY <1>2, <1>4, <1>5, <1>7, <2>1 DEF A!FaithfulStep
<1>12. A!ApartStep
  BY <1>5, <1>7 DEF A!ApartStep
<1> QED
  BY <1>5, <1>7, <1>10, <1>11, <1>12

(* Every step keeps the invariant, the history, and edits and status moves *)
(* apart.                                                                  *)
LEMMA AgentStep ==
  ASSUME A!AgentAssumption, A!AgentInv, [A!Next]_(A!vars)
  PROVE  A!AgentInv' /\ A!FaithfulStep /\ A!EditStep /\ A!ApartStep
<1>1. ASSUME UNCHANGED <<v1, v2, v3>> PROVE A!FaithfulStep /\ A!ApartStep
  BY <1>1 DEF A!FaithfulStep, A!ApartStep
<1>2. CASE UNCHANGED A!vars \/ A!Finished
  <2>1. UNCHANGED <<v1, v2, v3, v4, v5>>
    BY <1>2 DEF A!vars, A!Finished
  <2>2. A!AgentInv'
    BY <2>1
       DEF A!AgentInv, A!Types, A!HistoryOfTheLiving, A!Sound, A!Moving, A!Editing,
           A!Deleting, A!Creating, A!Apart
  <2>3. A!EditStep
    <3>1. \A p \in Requests : v5[p] = A!Ended("committed") => v5[p].op = "none"
      BY DEF A!Ended
    <3> QED
      BY <2>1, <3>1 DEF A!EditStep
  <2> QED
    BY <1>1, <2>1, <2>2, <2>3
<1>3. CASE \E p \in Requests : A!Begin(p) \/ A!Step(p) \/ A!Fail(p)
  <2>1. PICK p \in Requests : A!Begin(p) \/ A!Step(p) \/ A!Fail(p)
    BY <1>3
  <2>2. ASSUME A!AgentInv', v5'[p] # A!Ended("committed"), UNCHANGED <<v1, v2, v3>>,
               \A q \in Requests \ {p} : v5'[q] = v5[q]
        PROVE  A!AgentInv' /\ A!FaithfulStep /\ A!EditStep /\ A!ApartStep
    <3>1. \A q \in Requests : v5[q] = A!Ended("committed") => v5[q].op = "none"
      BY DEF A!Ended
    <3>2. A!EditStep
      BY <2>2, <3>1 DEF A!EditStep
    <3> QED
      BY <1>1, <2>2, <3>2
  <2>3. DOMAIN v5 = Requests
    BY DEF A!AgentInv, A!Types
  <2>4. \A q \in Requests \ {p} : v5'[q] = v5[q]
    BY <2>1, <2>3
       DEF A!Begin, A!Step, A!Fail, A!Transition, A!Patch, A!SetKey, A!RollBack,
           A!Delete, A!Create, A!Start, A!StoreKey, A!CheckName, A!Snapshot, A!Write,
           A!Remove, A!Commit, A!BreakDeadlock, A!Update, A!Rollback, A!Goto
  <2>5. CASE A!Transition(p) \/ A!Patch(p) \/ A!SetKey(p) \/ A!RollBack(p) \/ A!Delete(p)
    BY <2>2, <2>4, <2>5, BeginStep
  <2>6. CASE A!Create(p)
    BY <2>2, <2>4, <2>6, CreateStep
  <2>7. CASE A!StoreKey(p)
    BY <2>2, <2>4, <2>7, StoreKeyStep
  <2>8. CASE A!CheckName(p)
    BY <2>2, <2>4, <2>8, CheckNameStep
  <2>9. CASE A!Snapshot(p)
    BY <2>2, <2>4, <2>9, SnapshotStep
  <2>10. CASE A!Write(p)
    BY <2>2, <2>4, <2>10, WriteStep
  <2>11. CASE A!Remove(p)
    BY <2>2, <2>4, <2>11, RemoveStep
  <2>12. CASE A!BreakDeadlock(p) \/ A!Fail(p)
    <3>1. A!Rollback(p)
      BY <2>12 DEF A!BreakDeadlock, A!Fail
    <3> QED
      BY <2>2, <2>4, <3>1, RollbackStep DEF A!Rollback
  <2>13. CASE A!Commit(p)
    <3>1. \A q \in Requests \ {p} : v5'[q] = A!Ended("committed") => v5[q].op = "none"
      BY <2>4 DEF A!Ended
    <3>2. v5[p].op # "none"
      <4>1. (A!Working(v5[p]) \/ A!Outside(v5[p])) /\ v5[p].pc = "commit"
        BY <2>13 DEF A!AgentInv, A!Types, A!Commit, A!At
      <4> QED
        BY <4>1 DEF A!Working, A!Outside, A!Unsent, A!Ended
    <3>3. v5[p].op \in {"transition", "key", "patch", "rollback", "delete", "create"}
      BY <3>2, Own DEF A!Working
    <3>4. /\ A!AgentInv' /\ A!FaithfulStep /\ A!ApartStep
          /\ v5[p].op \in {"patch", "rollback"} =>
               v2'[v5[p].agent].config = v5[p].asked.config
      BY <2>13, <3>3, CommitDeleteStep, CommitCreateStep, CommitMoveStep, CommitEditStep
    <3>5. A!EditStep
      BY <3>1, <3>4 DEF A!EditStep
    <3> QED
      BY <3>4, <3>5
  <2> QED
    BY <2>1, <2>5, <2>6, <2>7, <2>8, <2>9, <2>10, <2>11, <2>12, <2>13
       DEF A!Begin, A!Step
<1> QED
  BY <1>2, <1>3 DEF A!Next

(* At the start every history is complete and no request has begun.        *)
LEMMA AgentStart ==
  ASSUME A!AgentAssumption, A!Init
  PROVE  A!AgentInv
<1>1. \A p \in Requests : A!Outside(v5[p]) /\ v5[p].op = "none"
  BY DEF A!Init, A!Outside, A!Unsent
<1>2. v2 \in [Agents -> A!Row]
  BY DEF A!Init, A!Row, A!AgentAssumption
<1>3. DOMAIN v3 = Agents
  BY DEF A!Init
<1>4. v4 \in [Agents -> Requests \cup {A!NoOne}] /\ \A a \in Agents : v4[a] = A!NoOne
  BY DEF A!Init
<1>5. A!Types
  BY <1>1, <1>2, <1>3, <1>4 DEF A!Init, A!Types
<1>6. A!HistoryOfTheLiving
  <2> SUFFICES ASSUME NEW a \in Agents
               PROVE  /\ DOMAIN v3[a] = IF a \in v1 THEN 1..(v2[a].version - 1)
                                        ELSE {}
                      /\ \A v \in DOMAIN v3[a] : v3[a][v] \in Configs
    BY DEF A!HistoryOfTheLiving
  <2>1. v3[a] \in UNION {[1..n -> Configs] : n \in 0..(MaxVersion - 1)}
    BY DEF A!Init
  <2>2. PICK n \in 0..(MaxVersion - 1) : v3[a] \in [1..n -> Configs]
    BY <2>1
  <2> QED
    BY <2>2 DEF A!Init
<1>7. \A p \in Requests : A!Sound(p)
  BY <1>1, <1>4 DEF A!Sound, A!AgentAssumption
<1>8. \A p, q \in Requests : A!Apart(p, q)
  BY <1>1 DEF A!Apart
<1> QED
  BY <1>5, <1>6, <1>7, <1>8 DEF A!AgentInv

(* From the invariant: the history is complete.                            *)
LEMMA AgentEnd ==
  ASSUME A!AgentInv
  PROVE  A!HistoryIsComplete
BY DEF A!AgentInv, A!HistoryOfTheLiving, A!HistoryIsComplete, A!Types

-----------------------------------------------------------------------------
(* Syncs.  What a sync writes was computed from the row as it loaded it,   *)
(* unless the row says it was disturbed since.                             *)

(* What a settled row is, column by column.                                *)
LEMMA SettledRow ==
  ASSUME K!SyncInv, NEW w \in Requests, v6[w].pc = "marked",
         NEW new \in K!AnyRow, K!Settle(w, new)
  PROVE  /\ v3' \in K!AnyRow
         /\ v3'.status = new.status
         /\ v3'.dated = K!Dated(new.dated, v6[w].loaded)
         /\ v3'.text = K!Written("text", new.text, v6[w].loaded)
         /\ v3'.cursor = K!Written("cursor", new.cursor, v6[w].loaded)
         /\ v3'.failures = K!Written("failures", new.failures, v6[w].loaded)
         /\ v3'.scheduled = K!Written("scheduled", new.scheduled, v6[w].loaded)
<1> DEFINE l == v6[w].loaded
           row == [status |-> new.status,
                   text |-> K!Written("text", new.text, l),
                   cursor |-> K!Written("cursor", new.cursor, l),
                   failures |-> K!Written("failures", new.failures, l),
                   scheduled |-> K!Written("scheduled", new.scheduled, l),
                   dated |-> K!Dated(new.dated, l)]
           fields == {"status", "text", "cursor", "failures", "scheduled", "dated"}
           value(f) == IF f = "status" THEN new.status
                       ELSE IF f = "dated" THEN K!Dated(new.dated, l)
                       ELSE K!Written(f, new[f], l)
<1>1. v3 \in K!AnyRow /\ v6[w] \in K!Working
  BY DEF K!SyncInv, K!Types, K!Resting
<1>2. DOMAIN v3 = fields
  BY <1>1 DEF K!AnyRow
<1>3. v3' = [f \in fields |-> value(f)]
  BY <1>2 DEF K!Settle
<1>4. v3' = row
  BY <1>3
<1>5. /\ row.text \in SyncTexts \cup {"none"} /\ row.cursor \in Pulls \cup {"none"}
      /\ row.failures \in Nat /\ row.scheduled \in BOOLEAN
      /\ row.dated \in BOOLEAN
  BY <1>1 DEF K!AnyRow, K!Written, K!Dated
<1>6. row \in K!AnyRow
  BY <1>5 DEF K!AnyRow
<1> QED
  BY <1>4, <1>6

(* The end of a sync: the worker rests, the lock is free and the others    *)
(* hold nothing.                                                           *)
LEMMA SettleStep ==
  ASSUME K!SyncAssumption, K!SyncInv, NEW w \in Requests,
         v6[w].pc = "marked", NEW new \in K!AnyRow, K!Settle(w, new),
         new.scheduled = v6[w].loaded.scheduled,
         v1 # "api" => new.cursor = v6[w].loaded.cursor,
         v11' \in Nat,
         ~v12 => /\ new.cursor # "none" => new.text = TextOf[new.cursor]
                 /\ new.failures = v11'
                 /\ new.scheduled => new.dated
  PROVE  K!SyncInv'
<1> DEFINE l == v6[w].loaded
<1>1. K!Types /\ v6[w] \in K!Working /\ l \in K!AnyRow
  BY DEF K!SyncInv, K!Types, K!Working, K!Resting
<1>2. /\ UNCHANGED <<v1, v7, v12>>
      /\ v6' = [v6 EXCEPT ![w] = K!Resting]
  BY DEF K!Settle
<1>3. K!Types'
  BY <1>1, <1>2, SettledRow DEF K!Types
<1>4. K!Marked'
  BY <1>1, <1>2 DEF K!SyncInv, K!Types, K!Marked, K!Resting, K!SyncAssumption
<1>5. v3'.scheduled = v3.scheduled
  BY SettledRow DEF K!Written
<1>6. K!ScheduleAsRead'
  BY <1>2, <1>5 DEF K!SyncInv, K!ScheduleAsRead
<1>7. K!CursorOfApi'
  BY <1>2, SettledRow DEF K!SyncInv, K!CursorOfApi, K!Written
<1>8. K!Exact'
  <2> SUFFICES ASSUME ~v12
               PROVE  /\ v3'.cursor # "none"
                           => v3'.text = TextOf[v3'.cursor]
                      /\ v3'.failures = v11'
                      /\ v3'.scheduled => v3'.dated
    BY <1>2 DEF K!Exact
  <2>1. l = v3
    BY DEF K!SyncInv, K!Marked
  <2>2. /\ v3'.text = new.text /\ v3'.cursor = new.cursor
        /\ v3'.failures = new.failures
        /\ v3'.scheduled = new.scheduled
    BY <2>1, SettledRow DEF K!Written
  <2>3. new.dated => v3'.dated
    <3>1. v3'.dated = K!Dated(new.dated, l)
      BY SettledRow
    <3> QED
      BY <3>1, Zenon DEF K!Dated
  <2> QED
    BY <2>2, <2>3
<1> QED
  BY <1>3, <1>4, <1>6, <1>7, <1>8 DEF K!SyncInv

(* A pull that fails, changes nothing or brings something new.             *)
LEMMA SourcePullStep ==
  ASSUME K!SyncAssumption, K!SyncInv, NEW w \in Requests,
         K!Fail(w) \/ K!Pull(w)
  PROVE  K!SyncInv'
<1> DEFINE l == v6[w].loaded
<1>1. v6[w].pc = "marked"
  BY DEF K!Fail, K!Pull
<1>2. K!Types /\ v6[w] \in K!Working /\ l \in K!AnyRow
  BY <1>1 DEF K!SyncInv, K!Types, K!Working, K!Resting
<1>3. ~v12 => /\ l.cursor # "none" => l.text = TextOf[l.cursor]
              /\ l.failures = v11
  BY <1>1 DEF K!SyncInv, K!Marked, K!Exact
<1> HIDE DEF l
<1>4. CASE K!Fail(w)
  <2> DEFINE new == K!Failed(l)
  <2>a. l.failures + 1 \in Nat
    BY <1>2 DEF K!AnyRow
  <2>b. /\ new.scheduled = l.scheduled
        /\ new.dated = l.scheduled /\ new.cursor = l.cursor
        /\ new.text = l.text /\ new.failures = l.failures + 1
    BY <1>2 DEF K!Failed, K!AnyRow, K!NextAt
  <2>1. new \in K!AnyRow
    BY <1>2, <2>a DEF K!Failed, K!AnyRow, K!NextAt
  <2>2. K!Settle(w, new) /\ v11' = v11 + 1 /\ v11 \in Nat
    BY <1>2, <1>4 DEF K!Fail, K!Types, l
  <2> HIDE DEF new
  <2> QED
    BY <1>1, <1>3, <2>a, <2>b, <2>1, <2>2, SettleStep DEF l
<1>5. CASE K!Pull(w)
  <2>1. PICK p \in Pulls :
          K!Settle(w, IF K!Same(l, p) THEN K!Unchanged(l) ELSE K!Pulled(l, p))
    BY <1>5 DEF K!Pull, l
  <2>2. v11' = 0
    BY <1>5 DEF K!Pull
  <2>3. CASE K!Same(l, p)
    <3> DEFINE new == K!Unchanged(l)
    <3>1. /\ new \in K!AnyRow /\ new.scheduled = l.scheduled
          /\ new.dated = l.scheduled /\ new.cursor = l.cursor
          /\ new.text = l.text /\ new.failures = 0
      BY <1>2 DEF K!Unchanged, K!AnyRow, K!NextAt
    <3>2. K!Settle(w, new)
      BY <2>1, <2>3
    <3> HIDE DEF new
    <3> QED
      BY <1>1, <1>3, <2>2, <3>1, <3>2, SettleStep DEF l
  <2>4. CASE ~K!Same(l, p)
    <3> DEFINE new == K!Pulled(l, p)
    <3>1. /\ new \in K!AnyRow /\ new.scheduled = l.scheduled
          /\ new.dated = l.scheduled
          /\ new.cursor = IF v1 = "api" THEN p ELSE l.cursor
          /\ new.text = TextOf[p] /\ new.failures = 0
      BY <1>2 DEF K!Pulled, K!AnyRow, K!NextAt, K!SyncAssumption
    <3>2. K!Settle(w, new)
      BY <2>1, <2>4
    <3>3. v1 # "api" /\ ~v12 => l.cursor = "none"
      BY <1>1 DEF K!SyncInv, K!CursorOfApi, K!Marked, l
    <3> HIDE DEF new
    <3> QED
      BY <1>1, <2>2, <3>1, <3>2, <3>3, SettleStep DEF l
  <2> QED
    BY <2>3, <2>4
<1> QED
  BY <1>4, <1>5

(* The tenant's requests, the sweep, and the broker.                       *)
LEMMA TenantStep ==
  ASSUME K!SyncAssumption, K!SyncInv, K!Tenant \/ K!Beat \/ K!SweepFault
  PROVE  K!SyncInv'
<1>1. K!Types
  BY DEF K!SyncInv
<1>2. CASE K!Add \/ K!CommitAdd \/ K!SyncNow \/ K!Delete \/ K!Sweep \/ K!SweepFault
  <2>1. /\ UNCHANGED <<v1, v3, v6, v11, v12, v4>>
        /\ v7' \in {v7, [pc |-> "add"], K!Resting}
    BY <1>2 DEF K!Add, K!CommitAdd, K!SyncNow, K!Delete, K!Sweep, K!SweepFault
  <2>2. K!Types'
    BY <1>1, <2>1 DEF K!Types, K!Adding
  <2>3. K!ScheduleAsRead'
    BY <2>1 DEF K!SyncInv, K!ScheduleAsRead, K!Resting
  <2> QED
    BY <2>1, <2>2, <2>3 DEF K!SyncInv, K!Marked, K!CursorOfApi, K!Exact
<1>3. CASE K!ReadSchedule
  <2>1. PICK on \in BOOLEAN :
          v7' = [pc |-> "schedule", on |-> on, loaded |-> v3]
    BY <1>3 DEF K!ReadSchedule
  <2>2. UNCHANGED <<v1, v3, v6, v11, v12, v4>>
    BY <1>3 DEF K!ReadSchedule
  <2>3. K!Types'
    BY <1>1, <2>1, <2>2 DEF K!Types, K!Scheduling
  <2> QED
    BY <2>1, <2>2, <2>3
       DEF K!SyncInv, K!Marked, K!CursorOfApi, K!Exact, K!ScheduleAsRead
<1>4. CASE K!SetSchedule \/ K!CommitSweep
  <2>1. UNCHANGED <<v1, v6, v11, v12>> /\ v4 = K!NoOne
    BY <1>4 DEF K!SetSchedule, K!CommitSweep
  <2>2. \A w \in Requests : v6[w].pc # "marked"
    BY <2>1 DEF K!SyncInv, K!Marked, K!SyncAssumption
  <2>3. K!Marked'
    BY <2>1, <2>2 DEF K!Marked
  <2>4. CASE v3' = v3 /\ v7' \in {v7, K!Resting}
    <3>1. K!Types' /\ K!ScheduleAsRead'
      BY <1>1, <2>1, <2>4 DEF K!Types, K!SyncInv, K!ScheduleAsRead, K!Resting
    <3> QED
      BY <2>1, <2>3, <2>4, <3>1 DEF K!SyncInv, K!CursorOfApi, K!Exact
  <2>5. CASE /\ v3' = [v3 EXCEPT !.dated = TRUE]
             /\ v7' = v7
    <3>1. /\ v3' \in K!AnyRow /\ v3'.dated
          /\ v3'.cursor = v3.cursor /\ v3'.text = v3.text
          /\ v3'.failures = v3.failures
          /\ v3'.scheduled = v3.scheduled
      BY <1>1, <2>5 DEF K!Types, K!AnyRow
    <3> QED
      BY <1>1, <2>1, <2>3, <2>5, <3>1
         DEF K!SyncInv, K!Types, K!CursorOfApi, K!Exact, K!ScheduleAsRead
  <2>6. CASE /\ K!SetSchedule
             /\ v3' = [v3 EXCEPT
                  !.scheduled = K!Written("scheduled", v7.on, v7.loaded),
                  !.dated = K!Dated(K!NextAt(v7.on), v7.loaded)]
    <3>1. v7 \in K!Scheduling /\ v7' = K!Resting
      BY <1>1, <2>6 DEF K!SetSchedule, K!Types, K!Adding, K!Resting
    <3>2. /\ K!Written("scheduled", v7.on, v7.loaded) = v7.on
          /\ K!Dated(K!NextAt(v7.on), v7.loaded) \in BOOLEAN
          /\ v7.on => K!Dated(K!NextAt(v7.on), v7.loaded)
          /\ v7.on \in BOOLEAN
      BY <1>1, <2>6, <3>1 DEF K!SetSchedule, K!SyncInv, K!ScheduleAsRead, K!Types,
                              K!Scheduling, K!AnyRow, K!Written, K!Dated, K!NextAt
    <3>3. /\ v3' \in K!AnyRow
          /\ v3'.cursor = v3.cursor /\ v3'.text = v3.text
          /\ v3'.failures = v3.failures
          /\ v3'.scheduled => v3'.dated
      BY <1>1, <2>6, <3>2 DEF K!Types, K!AnyRow
    <3>4. K!Types' /\ K!ScheduleAsRead'
      BY <1>1, <2>1, <3>1, <3>3 DEF K!Types, K!ScheduleAsRead, K!Resting
    <3> QED
      BY <2>1, <2>3, <3>3, <3>4 DEF K!SyncInv, K!CursorOfApi, K!Exact
  <2> QED
    BY <1>4, <2>4, <2>5, <2>6 DEF K!SetSchedule, K!CommitSweep
<1> QED
  BY <1>2, <1>3, <1>4 DEF K!Tenant, K!Beat

(* A worker takes a task, marks the row, or fails.                         *)
LEMMA WorkerStep ==
  ASSUME K!SyncAssumption, K!SyncInv, NEW w \in Requests,
         K!Load(w) \/ K!Mark(w) \/ K!Fault(w)
  PROVE  K!SyncInv'
<1>1. K!Types /\ v6[w] \in K!Working \cup {K!Resting}
  BY DEF K!SyncInv, K!Types
<1>2. UNCHANGED <<v1, v3, v7, v11>>
  BY DEF K!Load, K!Mark, K!Fault
<1>3. CASE K!Load(w)
  <2>1. UNCHANGED <<v4, v12>>
    BY <1>3 DEF K!Load
  <2>2. /\ v6' \in [Requests -> K!Working \cup {K!Resting}]
        /\ \A v \in Requests : v6'[v] = v6[v] \/ v6'[v].pc = "loaded"
    BY <1>1, <1>3 DEF K!Load, K!Types, K!Working
  <2>3. K!Marked'
    BY <1>2, <2>1, <2>2 DEF K!SyncInv, K!Marked
  <2> QED
    BY <1>1, <1>2, <2>1, <2>2, <2>3
       DEF K!SyncInv, K!Types, K!ScheduleAsRead, K!CursorOfApi, K!Exact
<1>4. CASE K!Mark(w) /\ v2 = "stored"
  <2>1. /\ v4 = K!NoOne /\ v4' = w
        /\ v6' = [v6 EXCEPT ![w].pc = "marked"]
        /\ v12' = (v12 \/ v6[w].loaded # v3)
        /\ v6[w].pc = "loaded"
    BY <1>4 DEF K!Mark
  <2>2. v6[w] \in K!Working
    BY <1>1, <2>1 DEF K!Resting
  <2>3. /\ v6' \in [Requests -> K!Working \cup {K!Resting}]
        /\ \A v \in Requests \ {w} : v6'[v] = v6[v]
        /\ v6'[w].loaded = v6[w].loaded
    BY <1>1, <2>1, <2>2 DEF K!Types, K!Working
  <2>4. K!Types'
    BY <1>1, <1>2, <2>1, <2>3 DEF K!Types
  <2>5. \A v \in Requests : v6[v].pc # "marked"
    BY <2>1 DEF K!SyncInv, K!Marked, K!SyncAssumption
  <2>6. K!Marked'
    BY <1>2, <2>1, <2>3, <2>5 DEF K!Marked
  <2>7. ~v12' => ~v12
    BY <2>1
  <2> QED
    BY <1>2, <2>4, <2>6, <2>7 DEF K!SyncInv, K!ScheduleAsRead, K!CursorOfApi, K!Exact
<1>5. CASE K!Fault(w) \/ (K!Mark(w) /\ v2 # "stored")
  <2>1. /\ v6' = [v6 EXCEPT ![w] = K!Resting]
        /\ v4' = IF v4 = w THEN K!NoOne ELSE v4
        /\ UNCHANGED v12
    BY <1>5 DEF K!Fault, K!Mark
  <2>2. /\ v6' \in [Requests -> K!Working \cup {K!Resting}]
        /\ \A v \in Requests \ {w} : v6'[v] = v6[v]
        /\ v6'[w].pc = "idle"
    BY <1>1, <2>1 DEF K!Types, K!Resting
  <2>3. K!Marked'
    BY <1>2, <2>1, <2>2 DEF K!SyncInv, K!Marked
  <2> QED
    BY <1>1, <1>2, <2>1, <2>2, <2>3
       DEF K!SyncInv, K!Types, K!ScheduleAsRead, K!CursorOfApi, K!Exact
<1> QED
  BY <1>3, <1>4, <1>5

(* Every step keeps the invariant.                                         *)
LEMMA SyncStep ==
  ASSUME K!SyncAssumption
  PROVE  K!SyncInv /\ [K!Next]_(K!vars) => K!SyncInv'
<1> SUFFICES ASSUME K!SyncInv, [K!Next]_(K!vars) PROVE K!SyncInv'
  OBVIOUS
<1>1. CASE UNCHANGED K!vars
  BY <1>1
     DEF K!vars, K!SyncInv, K!Types, K!Marked, K!ScheduleAsRead, K!CursorOfApi, K!Exact
<1>2. CASE K!Tenant \/ K!Beat \/ K!SweepFault
  BY <1>2, TenantStep
<1>3. ASSUME NEW w \in Requests, K!Work(w) \/ K!Fault(w) PROVE K!SyncInv'
  BY <1>3, SourcePullStep, WorkerStep DEF K!Work
<1>4. CASE K!Finished
  BY <1>1, <1>4 DEF K!Finished
<1> QED
  BY <1>1, <1>2, <1>3, <1>4 DEF K!Next

(* A settled row keeps its text, and has one if it is ready.               *)
LEMMA SettleKeepsText ==
  ASSUME K!SyncAssumption, K!SyncInv, K!TextStays, NEW w \in Requests,
         v6[w].pc = "marked", NEW new \in K!AnyRow, K!Settle(w, new),
         K!HasText(new), v6[w].loaded.text # "none" => new.text # "none"
  PROVE  K!TextStays'
<1> DEFINE l == v6[w].loaded
<1>1. /\ K!Types /\ v6[w] \in K!Working /\ K!HasText(v3) /\ K!HasText(l)
      /\ l.text # "none" => v3.text # "none"
  BY DEF K!SyncInv, K!Types, K!Resting, K!TextStays
<1>2. /\ v3'.status = new.status
      /\ v3'.text = IF new.text = l.text THEN v3.text ELSE new.text
      /\ v3'.cursor = IF new.cursor = l.cursor THEN v3.cursor ELSE new.cursor
  BY SettledRow DEF K!Written
<1>3. K!HasText(v3') /\ (v3.text # "none" => v3'.text # "none")
  BY <1>1, <1>2 DEF K!HasText
<1>4. v6' = [v6 EXCEPT ![w] = K!Resting]
  BY DEF K!Settle
<1>5. \A v \in Requests :
        v6'[v].pc = "idle" \/ (v # w /\ v6'[v] = v6[v])
  BY <1>1, <1>4 DEF K!Types, K!Resting
<1> QED
  BY <1>3, <1>5 DEF K!TextStays

(* What is committed to the row besides has its text and no other status.  *)
LEMMA TextStep ==
  ASSUME K!SyncAssumption, K!SyncInv, K!TextStays, [K!Next]_(K!vars)
  PROVE  K!TextStays'
<1>1. K!Types
  BY DEF K!SyncInv
<1>2. ASSUME NEW w \in Requests, K!Fail(w) \/ K!Pull(w)
      PROVE  K!TextStays'
  <2> DEFINE l == v6[w].loaded
  <2>1. /\ v6[w].pc = "marked" /\ v6[w] \in K!Working
        /\ l \in K!AnyRow /\ K!HasText(l)
    BY <1>1, <1>2 DEF K!Fail, K!Pull, K!Types, K!Working, K!Resting, K!TextStays
  <2> HIDE DEF l
  <2>2. CASE K!Fail(w)
    <3> DEFINE new == K!Failed(l)
    <3>1. l.failures + 1 \in Nat
      BY <2>1 DEF K!AnyRow
    <3>2. /\ new \in K!AnyRow /\ new.text = l.text /\ new.cursor = l.cursor
          /\ new.status = "failed"
      BY <2>1, <3>1 DEF K!Failed, K!AnyRow, K!NextAt
    <3>3. K!Settle(w, new)
      BY <2>2 DEF K!Fail, l
    <3> HIDE DEF new
    <3>4. K!HasText(new)
      BY <2>1, <3>2 DEF K!HasText
    <3> QED
      BY <2>1, <3>2, <3>3, <3>4, SettleKeepsText DEF l
  <2>3. CASE K!Pull(w)
    <3>1. PICK p \in Pulls :
            K!Settle(w, IF K!Same(l, p) THEN K!Unchanged(l) ELSE K!Pulled(l, p))
      BY <2>3 DEF K!Pull, l
    <3>2. CASE K!Same(l, p)
      <4> DEFINE new == K!Unchanged(l)
      <4>1. /\ new \in K!AnyRow /\ new.text = l.text /\ new.cursor = l.cursor
        BY <2>1 DEF K!Unchanged, K!AnyRow, K!NextAt
      <4>2. l.cursor # "none"
        BY <3>2 DEF K!Same, K!SyncAssumption
      <4>3. K!Settle(w, new)
        BY <3>1, <3>2
      <4> HIDE DEF new
      <4>4. K!HasText(new)
        BY <2>1, <4>1, <4>2 DEF K!HasText
      <4> QED
        BY <2>1, <4>1, <4>3, <4>4, SettleKeepsText DEF l
    <3>3. CASE ~K!Same(l, p)
      <4> DEFINE new == K!Pulled(l, p)
      <4>a. TextOf[p] \in SyncTexts /\ TextOf[p] # "none"
        BY DEF K!SyncAssumption
      <4>1. new \in K!AnyRow /\ new.text = TextOf[p]
        BY <2>1, <4>a DEF K!Pulled, K!AnyRow, K!NextAt
      <4>2. K!Settle(w, new)
        BY <3>1, <3>3
      <4> HIDE DEF new
      <4>3. K!HasText(new)
        BY <4>a, <4>1 DEF K!HasText
      <4> QED
        BY <2>1, <4>a, <4>1, <4>2, <4>3, SettleKeepsText DEF l
    <3> QED
      BY <3>2, <3>3
  <2> QED
    BY <1>2, <2>2, <2>3
<1>3. ASSUME UNCHANGED v6,
             \/ v3' = v3
             \/ \E scheduled \in BOOLEAN, dated \in BOOLEAN :
                  v3' = [v3 EXCEPT !.scheduled = scheduled,
                                   !.dated = dated]
      PROVE  K!TextStays'
  <2>1. /\ v3'.status = v3.status /\ v3'.text = v3.text
        /\ v3'.cursor = v3.cursor
    BY <1>1, <1>3 DEF K!Types, K!AnyRow
  <2> QED
    BY <1>3, <2>1 DEF K!TextStays, K!HasText
<1>4. CASE K!Tenant \/ K!Beat \/ K!SweepFault
  <2>1. CASE K!SetSchedule /\ v2 = "stored"
    <3>1. v7 \in K!Scheduling
      BY <1>1, <2>1 DEF K!SetSchedule, K!Types, K!Adding, K!Resting
    <3>2. /\ K!Written("scheduled", v7.on, v7.loaded) \in BOOLEAN
          /\ K!Dated(K!NextAt(v7.on), v7.loaded) \in BOOLEAN
      BY <1>1, <3>1 DEF K!Types, K!Scheduling, K!AnyRow, K!Written, K!Dated, K!NextAt
    <3> QED
      BY <1>3, <2>1, <3>2 DEF K!SetSchedule
  <2>2. CASE K!CommitSweep
    <3>1. v3' = v3 \/ v3' = [v3 EXCEPT !.dated = TRUE]
      BY <2>2 DEF K!CommitSweep
    <3>2. /\ v3'.status = v3.status /\ v3'.text = v3.text
          /\ v3'.cursor = v3.cursor
      BY <1>1, <3>1 DEF K!Types, K!AnyRow
    <3>3. UNCHANGED v6
      BY <2>2 DEF K!CommitSweep
    <3> QED
      BY <3>2, <3>3 DEF K!TextStays, K!HasText
  <2>3. CASE K!Add \/ K!CommitAdd \/ K!SyncNow \/ K!Delete \/ K!ReadSchedule \/ K!Sweep
             \/ K!SweepFault \/ (K!SetSchedule /\ v2 # "stored")
    <3>1. UNCHANGED <<v6, v3>>
      BY <2>3 DEF K!Add, K!CommitAdd, K!SyncNow, K!Delete, K!ReadSchedule, K!Sweep,
                  K!SweepFault, K!SetSchedule
    <3> QED
      BY <1>3, <3>1
  <2> QED
    BY <1>4, <2>1, <2>2, <2>3 DEF K!Tenant, K!Beat
<1>5. ASSUME NEW w \in Requests, K!Load(w) \/ K!Mark(w) \/ K!Fault(w)
      PROVE  K!TextStays'
  <2>1. UNCHANGED v3
    BY <1>5 DEF K!Load, K!Mark, K!Fault
  <2>2. \A v \in Requests :
          \/ v6'[v] = v6[v] \/ v6'[v].pc = "idle"
          \/ v6'[v].loaded = v3
          \/ v6[v].pc = "loaded" /\ v6'[v].loaded = v6[v].loaded
    <3>1. CASE K!Load(w) \/ K!Fault(w)
      BY <1>1, <3>1 DEF K!Load, K!Fault, K!Types, K!Resting
    <3>2. CASE K!Mark(w)
      <4>1. v6[w] \in K!Working /\ v6[w].pc = "loaded"
        BY <1>1, <3>2 DEF K!Mark, K!Types, K!Resting
      <4> DEFINE marked == [v6[w] EXCEPT !.pc = "marked"]
      <4>2. marked.loaded = v6[w].loaded
        BY <4>1 DEF K!Working
      <4> HIDE DEF marked
      <4>3. v6' \in {[v6 EXCEPT ![w] = marked], [v6 EXCEPT ![w] = K!Resting]}
        BY <1>1, <3>2 DEF K!Mark, marked, K!Types
      <4> QED
        BY <1>1, <4>1, <4>2, <4>3 DEF K!Types, K!Resting
    <3> QED
      BY <1>5, <3>1, <3>2
  <2> QED
    BY <2>1, <2>2 DEF K!TextStays
<1>6. CASE UNCHANGED K!vars \/ K!Finished
  BY <1>3, <1>6 DEF K!vars, K!Finished
<1> QED
  BY <1>2, <1>4, <1>5, <1>6 DEF K!Next, K!Work

(* A source begins pending, without a text or a cursor.                    *)
LEMMA SyncStart == ASSUME K!SyncAssumption, K!Init PROVE K!SyncInv /\ K!TextStays
<1>1. PICK s \in BOOLEAN : v3 = K!Added(s)
  BY DEF K!Init
<1>2. /\ v3 \in K!AnyRow /\ v3.cursor = "none"
      /\ v3.failures = 0 /\ v3.status = "pending"
  BY <1>1 DEF K!Added, K!AnyRow
<1>3. K!SyncInv
  BY <1>2
     DEF K!Init, K!SyncInv, K!Types, K!Marked, K!ScheduleAsRead, K!CursorOfApi, K!Exact,
         K!Resting
<1>4. K!TextStays
  BY <1>2 DEF K!Init, K!TextStays, K!HasText, K!Resting
<1> QED
  BY <1>3, <1>4

(* From the invariants: what the runs check.                               *)
LEMMA SyncEnd ==
  /\ K!SyncInv => K!UndisturbedSyncsAreExact
  /\ K!TextStays => K!ReadyHasText
BY DEF K!SyncInv, K!Exact, K!UndisturbedSyncsAreExact, K!Scheduled, K!TextStays,
       K!HasText, K!ReadyHasText

-----------------------------------------------------------------------------
(* Tool calls.  An entry of the cache is no older than its time to live,   *)
(* and holds what the tool said then.                                      *)

(* Its own way of counting is the one of the library.                      *)
LEMMA ToolsCount ==
  \A S : /\ T!IsFiniteSet(S) <=> IsFiniteSet(S)
         /\ T!Cardinality(S) = Cardinality(S)
BY DEF T!IsFiniteSet, IsFiniteSet, T!Cardinality, Cardinality


(* The empty cache.                                                        *)
LEMMA NothingCached == DOMAIN <<>> = {}
OBVIOUS

(* A step of one call that leaves the cache as it is or keeps it in order. *)
LEMMA CallStep ==
  ASSUME T!ToolAssumption, T!ToolInv, NEW c \in Calls, UNCHANGED <<v1, v3>>,
         NEW w, v4' = [v4 EXCEPT ![c] = w],
         IsFiniteSet(DOMAIN v2'), T!EntriesAreTimely', T!CacheIsBounded',
         {"pc", "args"} \subseteq DOMAIN w, T!Served(c)', T!Waiting(c)', T!Spent(c)'
  PROVE  T!ToolInv'
<1>1. /\ T!Types /\ DOMAIN v4' = Calls /\ v4'[c] = w
      /\ \A d \in Calls \ {c} : v4'[d] = v4[d]
  BY DEF T!ToolInv, T!Types
<1>2. T!Types'
  BY <1>1, ToolsCount DEF T!Types
<1>3. ASSUME NEW d \in Calls \ {c}
      PROVE  /\ {"pc", "args"} \subseteq DOMAIN v4'[d]
             /\ T!Served(d)' /\ T!Waiting(d)' /\ T!Spent(d)'
  BY <1>1 DEF T!ToolInv, T!Served, T!Waiting, T!Spent, T!At
<1> QED
  BY <1>1, <1>2, <1>3 DEF T!ToolInv

(* What a call is and has, before its step.                                *)
LEMMA OwnCall ==
  ASSUME T!ToolInv, NEW c \in Calls
  PROVE  /\ T!Types /\ {"pc", "args"} \subseteq DOMAIN v4[c]
         /\ T!Served(c) /\ T!Waiting(c) /\ T!Spent(c)
         /\ IsFiniteSet(DOMAIN v2) /\ T!EntriesAreTimely /\ T!CacheIsBounded
BY ToolsCount DEF T!ToolInv, T!Types

(* What a step records of a call, besides what it keeps.                   *)
LEMMA WithKeeps ==
  ASSUME NEW c \in Calls, NEW more
  PROVE  /\ DOMAIN T!With(c, more) = DOMAIN v4[c] \cup DOMAIN more
         /\ \A f \in DOMAIN more : T!With(c, more)[f] = more[f]
         /\ \A f \in DOMAIN v4[c] \ DOMAIN more : T!With(c, more)[f] = v4[c][f]
BY DEF T!With

(* The call ends: its record starts anew.                                  *)
LEMMA EndedStep ==
  ASSUME T!ToolAssumption, T!ToolInv, NEW c \in Calls, NEW how \in {"refused"},
         T!Ended(c, how), UNCHANGED <<v1, v3>>,
         IsFiniteSet(DOMAIN v2'), T!EntriesAreTimely', T!CacheIsBounded'
  PROVE  T!ToolInv'
<1> DEFINE w == [pc |-> how, args |-> v4[c].args]
<1>1. /\ v4' = [v4 EXCEPT ![c] = w] /\ DOMAIN w = {"pc", "args"} /\ w.pc = how
      /\ v4'[c] = w
  BY DEF T!Ended, T!ToolInv, T!Types
<1> HIDE DEF w
<1>2. T!Served(c)' /\ T!Waiting(c)' /\ T!Spent(c)'
  BY <1>1 DEF T!Served, T!Waiting, T!Spent, T!At
<1> QED
  BY <1>1, <1>2, CallStep

(* A call loads the tool as it is.                                         *)
LEMMA LoadStep ==
  ASSUME T!ToolAssumption, T!ToolInv, NEW c \in Calls, T!Load(c)
  PROVE  T!ToolInv'
<1>1. /\ UNCHANGED <<v1, v2, v3>> /\ IsFiniteSet(DOMAIN v2')
      /\ T!EntriesAreTimely' /\ T!CacheIsBounded' /\ T!Types
      /\ {"pc", "args"} \subseteq DOMAIN v4[c]
  BY OwnCall DEF T!Load, T!EntriesAreTimely, T!CacheIsBounded
<1>2. CASE ~v1.enabled
  BY <1>1, <1>2, EndedStep DEF T!Load
<1>3. CASE v1.enabled
  <2> DEFINE more == [pc |-> "lookup", tool |-> v1, sent |-> 0, waited |-> 0]
             w == T!With(c, more)
  <2>1. /\ v4' = [v4 EXCEPT ![c] = w] /\ v4'[c] = w
    BY <1>1, <1>3 DEF T!Load, T!Becomes, T!Types
  <2>2. /\ DOMAIN more = {"pc", "tool", "sent", "waited"}
        /\ more.pc = "lookup" /\ more.tool = v1 /\ more.sent = 0 /\ more.waited = 0
    OBVIOUS
  <2> HIDE DEF more
  <2>3. /\ DOMAIN w = DOMAIN v4[c] \cup {"pc", "tool", "sent", "waited"}
        /\ w.pc = "lookup" /\ w.tool = v1 /\ w.sent = 0 /\ w.waited = 0
    <3>1. DOMAIN w = DOMAIN v4[c] \cup DOMAIN more /\ \A f \in DOMAIN more : w[f] = more[f]
      BY WithKeeps
    <3> HIDE DEF w
    <3> QED
      BY <2>2, <3>1
  <2> HIDE DEF w
  <2>4. T!Served(c)' /\ T!Waiting(c)' /\ T!Spent(c)'
    BY <1>1, <2>1, <2>3
       DEF T!Served, T!Waiting, T!Spent, T!At, T!Types, T!ToolAssumption
  <2> QED
    BY <1>1, <2>1, <2>3, <2>4, CallStep
<1> QED
  BY <1>2, <1>3

(* Dropping answers keeps the cache in order.                              *)
LEMMA WithoutStep ==
  ASSUME T!ToolInv, NEW keys
  PROVE  /\ IsFiniteSet(DOMAIN T!Without(keys))
         /\ Cardinality(DOMAIN T!Without(keys)) <= Cardinality(DOMAIN v2)
         /\ \A a \in DOMAIN T!Without(keys) :
              a \in DOMAIN v2 /\ T!Without(keys)[a] = v2[a]
<1>1. DOMAIN T!Without(keys) = DOMAIN v2 \ keys
  BY DEF T!Without
<1>2. IsFiniteSet(DOMAIN v2)
  BY ToolsCount DEF T!ToolInv, T!Types
<1>3. /\ IsFiniteSet(DOMAIN v2 \ keys)
      /\ Cardinality(DOMAIN v2 \ keys) <= Cardinality(DOMAIN v2)
  BY <1>2, FS_Subset
<1> QED
  BY <1>1, <1>3 DEF T!Without

(* A call is served from the cache or goes to the endpoint.                *)
LEMMA LookupStep ==
  ASSUME T!ToolAssumption, T!ToolInv, NEW c \in Calls, T!Lookup(c)
  PROVE  T!ToolInv'
<1>1. /\ UNCHANGED <<v1, v3>> /\ T!Types /\ v4[c].pc = "lookup"
      /\ {"pc", "args", "sent", "waited", "tool"} \subseteq DOMAIN v4[c]
      /\ v4[c].tool \in T!Tool /\ v4[c].sent \in 0..MaxRetries /\ v4[c].waited = 0
      /\ IsFiniteSet(DOMAIN v2) /\ T!EntriesAreTimely /\ T!CacheIsBounded
  BY OwnCall DEF T!Lookup, T!Waiting, T!At
<1>2. MaxRetries \in Nat /\ Cardinality(DOMAIN v2) \in Nat /\ MaxEntries \in Nat
  BY <1>1, FS_CardinalityType DEF T!ToolAssumption
<1>3. CASE T!Hit(c)
  <2> DEFINE a == v4[c].args
             more == [pc |-> "cached", answer |-> v2[a], served |-> v3]
             w == T!With(c, more)
  <2>1. /\ v4' = [v4 EXCEPT ![c] = w] /\ v4'[c] = w /\ UNCHANGED v2
    BY <1>1, <1>3 DEF T!Lookup, T!Becomes, T!Types
  <2>2. /\ DOMAIN more = {"pc", "answer", "served"}
        /\ more.pc = "cached" /\ more.answer = v2[a] /\ more.served = v3
    OBVIOUS
  <2> HIDE DEF more
  <2>3. /\ DOMAIN w = DOMAIN v4[c] \cup {"pc", "answer", "served"}
        /\ w.pc = "cached" /\ w.answer = v2[a] /\ w.served = v3
        /\ w.args = a /\ w.sent = v4[c].sent /\ w.waited = 0
    <3>1. /\ DOMAIN w = DOMAIN v4[c] \cup DOMAIN more
          /\ \A f \in DOMAIN more : w[f] = more[f]
          /\ \A f \in DOMAIN v4[c] \ DOMAIN more : w[f] = v4[c][f]
      BY WithKeeps
    <3> HIDE DEF w
    <3> QED
      BY <1>1, <2>2, <3>1
  <2> HIDE DEF w
  <2>4. a \in DOMAIN v2 /\ v2[a].of = a /\ T!Timely(v2[a])
        /\ v3 < v2[a].expires /\ v3 \in Nat
    BY <1>1, <1>3 DEF T!Hit, T!Expired, T!EntriesAreTimely, T!Timely, T!Types
  <2>5. T!Served(c)'
    BY <2>1, <2>3, <2>4 DEF T!Served, T!Timely, T!At
  <2>6. T!Waiting(c)' /\ T!Spent(c)'
    BY <1>1, <1>2, <2>1, <2>3 DEF T!Waiting, T!Spent, T!At
  <2>7. IsFiniteSet(DOMAIN v2') /\ T!EntriesAreTimely' /\ T!CacheIsBounded'
    BY <1>1, <2>1 DEF T!EntriesAreTimely, T!CacheIsBounded
  <2> QED
    BY <1>1, <2>1, <2>3, <2>5, <2>6, <2>7, CallStep
<1>4. CASE ~T!Hit(c)
  <2>1. IsFiniteSet(DOMAIN v2') /\ T!EntriesAreTimely' /\ T!CacheIsBounded'
    <3>1. CASE v2' = v2
      BY <1>1, <3>1 DEF T!EntriesAreTimely, T!CacheIsBounded
    <3>2. CASE v2' = T!Without({v4[c].args})
      <4>1. /\ IsFiniteSet(DOMAIN v2')
            /\ Cardinality(DOMAIN v2') <= Cardinality(DOMAIN v2)
            /\ \A a \in DOMAIN v2' : a \in DOMAIN v2 /\ v2'[a] = v2[a]
        BY <3>2, WithoutStep
      <4>2. Cardinality(DOMAIN v2') \in Nat
        BY <4>1, FS_CardinalityType
      <4> QED
        BY <1>1, <1>2, <4>1, <4>2, ToolsCount
           DEF T!EntriesAreTimely, T!CacheIsBounded, T!Timely
    <3> QED
      BY <1>4, <3>1, <3>2 DEF T!Lookup
  <2>2. CASE T!Ended(c, "refused")
    BY <1>1, <2>1, <2>2, EndedStep
  <2>3. CASE T!Becomes(c, [pc |-> "send"])
    <3> DEFINE more == [pc |-> "send"]
               w == T!With(c, more)
    <3>1. /\ v4' = [v4 EXCEPT ![c] = w] /\ v4'[c] = w
      BY <1>1, <2>3 DEF T!Becomes, T!Types
    <3>2. DOMAIN more = {"pc"} /\ more.pc = "send"
      OBVIOUS
    <3> HIDE DEF more
    <3>3. /\ DOMAIN w = DOMAIN v4[c] /\ w.pc = "send"
          /\ \A f \in DOMAIN v4[c] \ {"pc"} : w[f] = v4[c][f]
      <4>1. /\ DOMAIN w = DOMAIN v4[c] \cup DOMAIN more
            /\ \A f \in DOMAIN more : w[f] = more[f]
            /\ \A f \in DOMAIN v4[c] \ DOMAIN more : w[f] = v4[c][f]
        BY WithKeeps
      <4> HIDE DEF w
      <4> QED
        BY <1>1, <3>2, <4>1
    <3>4. w.tool = v4[c].tool /\ w.sent = v4[c].sent /\ w.waited = 0
      BY <1>1, <3>3
    <3> HIDE DEF w
    <3>5. T!Served(c)' /\ T!Waiting(c)' /\ T!Spent(c)'
      BY <1>1, <1>2, <3>1, <3>3, <3>4 DEF T!Served, T!Waiting, T!Spent, T!At
    <3> QED
      BY <1>1, <2>1, <3>1, <3>3, <3>5, CallStep
  <2> QED
    BY <1>4, <2>2, <2>3 DEF T!Lookup
<1> QED
  BY <1>3, <1>4

(* A call that is tried again has used one more attempt, and no timeout.   *)
LEMMA FailsStep ==
  ASSUME T!ToolAssumption, T!ToolInv, NEW c \in Calls, T!Fails(c)
  PROVE  T!ToolInv'
<1>1. /\ UNCHANGED <<v1, v3, v2>> /\ T!Types /\ v4[c].pc = "send"
      /\ {"pc", "args", "sent", "waited", "tool"} \subseteq DOMAIN v4[c]
      /\ v4[c].tool \in T!Tool /\ v4[c].sent \in 0..MaxRetries /\ v4[c].waited = 0
      /\ IsFiniteSet(DOMAIN v2') /\ T!EntriesAreTimely' /\ T!CacheIsBounded'
  BY OwnCall DEF T!Fails, T!Waiting, T!At, T!EntriesAreTimely, T!CacheIsBounded
<1>2. MaxRetries \in Nat
  BY DEF T!ToolAssumption
<1>3. PICK how \in {"timeout", "unreachable", "rejected"} :
        IF T!Retried(c, how)
        THEN T!Becomes(c, [sent |-> v4[c].sent + 1,
                           waited |-> v4[c].waited + IF how = "timeout" THEN 1 ELSE 0])
        ELSE T!Becomes(c, [pc |-> "failed", sent |-> v4[c].sent + 1,
                           waited |-> v4[c].waited + IF how = "timeout" THEN 1 ELSE 0])
  BY DEF T!Fails
<1> DEFINE sent == v4[c].sent + 1
           waited == v4[c].waited + IF how = "timeout" THEN 1 ELSE 0
<1>4. /\ sent \in 0..(MaxRetries + 1) /\ waited \in {0, 1}
      /\ T!Retried(c, how) => sent \in 0..MaxRetries /\ waited = 0
  BY <1>1, <1>2 DEF T!Retried
<1> HIDE DEF sent, waited
<1>5. CASE T!Retried(c, how)
  <2> DEFINE more == [sent |-> sent, waited |-> waited]
             w == T!With(c, more)
  <2>1. v4' = [v4 EXCEPT ![c] = w] /\ v4'[c] = w
    BY <1>1, <1>3, <1>5 DEF T!Becomes, T!Types, sent, waited
  <2>2. DOMAIN more = {"sent", "waited"} /\ more.sent = sent /\ more.waited = waited
    OBVIOUS
  <2> HIDE DEF more
  <2>3. /\ DOMAIN w = DOMAIN v4[c] \cup DOMAIN more
        /\ \A f \in DOMAIN more : w[f] = more[f]
        /\ \A f \in DOMAIN v4[c] \ DOMAIN more : w[f] = v4[c][f]
    BY WithKeeps
  <2> HIDE DEF w
  <2>4. /\ {"pc", "args"} \subseteq DOMAIN w /\ w.pc = "send" /\ w.tool = v4[c].tool
        /\ {"sent", "waited", "tool"} \subseteq DOMAIN w
        /\ w.sent = sent /\ w.waited = waited
    BY <1>1, <2>2, <2>3
  <2>5. T!Served(c)' /\ T!Waiting(c)' /\ T!Spent(c)'
    BY <1>1, <1>4, <1>5, <2>1, <2>4 DEF T!Served, T!Waiting, T!Spent, T!At
  <2> QED
    BY <1>1, <2>1, <2>4, <2>5, CallStep
<1>6. CASE ~T!Retried(c, how)
  <2> DEFINE more == [pc |-> "failed", sent |-> sent, waited |-> waited]
             w == T!With(c, more)
  <2>1. v4' = [v4 EXCEPT ![c] = w] /\ v4'[c] = w
    BY <1>1, <1>3, <1>6 DEF T!Becomes, T!Types, sent, waited
  <2>2. /\ DOMAIN more = {"pc", "sent", "waited"} /\ more.pc = "failed"
        /\ more.sent = sent /\ more.waited = waited
    OBVIOUS
  <2> HIDE DEF more
  <2>3. /\ DOMAIN w = DOMAIN v4[c] \cup DOMAIN more
        /\ \A f \in DOMAIN more : w[f] = more[f]
    BY WithKeeps
  <2> HIDE DEF w
  <2>4. /\ {"pc", "args", "sent", "waited"} \subseteq DOMAIN w /\ w.pc = "failed"
        /\ w.sent = sent /\ w.waited = waited
    BY <1>1, <2>2, <2>3
  <2>5. T!Served(c)' /\ T!Waiting(c)' /\ T!Spent(c)'
    BY <1>4, <2>1, <2>4 DEF T!Served, T!Waiting, T!Spent, T!At
  <2> QED
    BY <1>1, <2>1, <2>4, <2>5, CallStep
<1> QED
  BY <1>5, <1>6

(* Room is made before an answer is put, when the map is full.             *)
LEMMA PutStep ==
  ASSUME T!ToolAssumption, T!ToolInv, NEW a, NEW answer, answer.of = a, T!Timely(answer),
         T!Put(a, answer)
  PROVE  IsFiniteSet(DOMAIN v2') /\ T!EntriesAreTimely' /\ T!CacheIsBounded'
<1> DEFINE full == Cardinality(DOMAIN v2) >= MaxEntries
           keys == DOMAIN v2
<1>1. PICK dropped \in IF full THEN T!Evicted ELSE {{}} :
        v2' = [b \in (keys \ dropped) \cup {a} |->
                 IF b = a THEN answer ELSE v2[b]]
  BY ToolsCount DEF T!Put
<1>2. /\ IsFiniteSet(keys) /\ T!EntriesAreTimely /\ Cardinality(keys) <= MaxEntries
      /\ Cardinality(keys) \in Nat /\ MaxEntries \in Nat \ {0}
  BY FS_CardinalityType, ToolsCount
     DEF T!ToolInv, T!Types, T!CacheIsBounded, T!ToolAssumption
<1>3. full => dropped # {} /\ dropped \subseteq keys
  BY <1>1 DEF T!Evicted
<1>4. /\ DOMAIN v2' = (keys \ dropped) \cup {a}
      /\ \A b \in DOMAIN v2' : v2'[b] = IF b = a THEN answer ELSE v2[b]
  BY <1>1
<1> HIDE DEF full
<1>5. T!EntriesAreTimely'
  BY <1>2, <1>4 DEF T!EntriesAreTimely, T!Timely
<1>6. /\ IsFiniteSet(keys \ dropped) /\ Cardinality(keys \ dropped) \in Nat
      /\ Cardinality(keys \ dropped) < MaxEntries
  <2>1. /\ IsFiniteSet(keys \ dropped) /\ Cardinality(keys \ dropped) \in Nat
        /\ Cardinality(keys \ dropped) <= Cardinality(keys)
        /\ Cardinality(keys \ dropped) = Cardinality(keys) => keys \ dropped = keys
    BY <1>2, FS_Subset, FS_CardinalityType
  <2>2. CASE full
    <3>1. keys \ dropped # keys
      BY <1>3, <2>2
    <3> QED
      BY <1>2, <2>1, <3>1
  <2>3. CASE ~full
    BY <1>2, <2>1, <2>3 DEF full
  <2> QED
    BY <2>2, <2>3
<1>7. /\ IsFiniteSet((keys \ dropped) \cup {a})
      /\ Cardinality((keys \ dropped) \cup {a}) <= Cardinality(keys \ dropped) + 1
  <2> DEFINE rest == keys \ dropped
  <2>1. IsFiniteSet(rest) /\ Cardinality(rest) \in Nat
    BY <1>6
  <2> HIDE DEF rest
  <2>2. /\ IsFiniteSet(rest \cup {a})
        /\ Cardinality(rest \cup {a}) = IF a \in rest THEN Cardinality(rest)
                                        ELSE Cardinality(rest) + 1
    BY <2>1, FS_AddElement
  <2>3. Cardinality(rest \cup {a}) <= Cardinality(rest) + 1
    BY <2>1, <2>2
  <2> QED
    BY <2>2, <2>3 DEF rest
<1>8. Cardinality((keys \ dropped) \cup {a}) \in Nat
  BY <1>7, FS_CardinalityType
<1> QED
  BY <1>2, <1>4, <1>5, <1>6, <1>7, <1>8, ToolsCount DEF T!CacheIsBounded

(* The endpoint answers, and the answer may be cached.                     *)
LEMMA AnswersStep ==
  ASSUME T!ToolAssumption, T!ToolInv, NEW c \in Calls, T!Answers(c)
  PROVE  T!ToolInv'
<1> DEFINE answer == [of |-> v4[c].args, version |-> v4[c].tool.version,
                      came |-> v3, expires |-> v3 + v4[c].tool.ttl]
           sent == v4[c].sent + 1
           more == [pc |-> "answered", answer |-> answer, sent |-> sent]
           w == T!With(c, more)
<1>1. /\ UNCHANGED <<v1, v3>> /\ T!Types /\ v4[c].pc = "send"
      /\ {"pc", "args", "sent", "waited", "tool"} \subseteq DOMAIN v4[c]
      /\ v4[c].tool \in T!Tool /\ v4[c].sent \in 0..MaxRetries /\ v4[c].waited = 0
      /\ IsFiniteSet(DOMAIN v2) /\ T!EntriesAreTimely /\ T!CacheIsBounded
  BY OwnCall DEF T!Answers, T!Waiting, T!At
<1>2. MaxRetries \in Nat /\ MaxTtl \in Nat
  BY DEF T!ToolAssumption
<1>3. answer.of = v4[c].args /\ T!Timely(answer)
  <2>1. v4[c].tool.ttl \in 0..MaxTtl /\ v3 \in Nat
    BY <1>1 DEF T!Tool, T!Types
  <2> QED
    BY <1>2, <2>1 DEF T!Timely
<1>4. sent \in 0..(MaxRetries + 1)
  BY <1>1, <1>2
<1>5. v4' = [v4 EXCEPT ![c] = w] /\ v4'[c] = w
  BY <1>1 DEF T!Answers, T!Becomes, T!Types
<1>6. IsFiniteSet(DOMAIN v2') /\ T!EntriesAreTimely' /\ T!CacheIsBounded'
  <2>1. CASE v4[c].tool.ttl > 0
    <3>1. T!Put(v4[c].args, answer)
      BY <2>1 DEF T!Answers
    <3> HIDE DEF answer
    <3> QED
      BY <1>3, <3>1, PutStep
  <2>2. CASE ~(v4[c].tool.ttl > 0)
    <3>1. UNCHANGED v2
      BY <2>2 DEF T!Answers
    <3> QED
      BY <1>1, <3>1 DEF T!EntriesAreTimely, T!CacheIsBounded
  <2> QED
    BY <2>1, <2>2
<1> HIDE DEF answer, sent
<1>7. /\ DOMAIN more = {"pc", "answer", "sent"} /\ more.pc = "answered"
      /\ more.sent = sent
  OBVIOUS
<1> HIDE DEF more
<1>8. /\ DOMAIN w = DOMAIN v4[c] \cup DOMAIN more
      /\ \A f \in DOMAIN more : w[f] = more[f]
      /\ \A f \in DOMAIN v4[c] \ DOMAIN more : w[f] = v4[c][f]
  BY WithKeeps
<1> HIDE DEF w
<1>9. /\ {"pc", "args", "sent", "waited"} \subseteq DOMAIN w /\ w.pc = "answered"
      /\ w.sent = sent /\ w.waited = 0
  BY <1>1, <1>7, <1>8
<1>10. T!Served(c)' /\ T!Waiting(c)' /\ T!Spent(c)'
  BY <1>4, <1>5, <1>9 DEF T!Served, T!Waiting, T!Spent, T!At
<1> QED
  BY <1>1, <1>5, <1>6, <1>9, <1>10, CallStep

(* Every step keeps the invariant.                                         *)
LEMMA ToolStep ==
  ASSUME T!ToolAssumption, T!ToolInv, [T!Next]_(T!vars)
  PROVE  T!ToolInv'
<1>1. ASSUME UNCHANGED <<v2, v4>>, v1' \in T!Tool, v3' \in Nat
      PROVE  T!ToolInv'
  BY <1>1
     DEF T!ToolInv, T!Types, T!EntriesAreTimely, T!CacheIsBounded, T!Served, T!Waiting,
         T!Spent, T!At, T!Timely
<1>2. v1 \in T!Tool /\ v3 \in Nat
  BY DEF T!ToolInv, T!Types
<1>3. CASE UNCHANGED T!vars \/ T!Finished
  BY <1>1, <1>2, <1>3 DEF T!vars, T!Finished
<1>4. CASE T!Update
  BY <1>1, <1>2, <1>4 DEF T!Update
<1>5. CASE T!Tick
  BY <1>1, <1>2, <1>5 DEF T!Tick
<1> QED
  BY <1>3, <1>4, <1>5, LoadStep, LookupStep, FailsStep, AnswersStep DEF T!Next

(* At the start nothing is cached and no call was made.                    *)
LEMMA ToolStart ==
  ASSUME T!ToolAssumption, T!Init
  PROVE  T!ToolInv
<1>1. /\ DOMAIN v2 = {} /\ v3 = 0 /\ DOMAIN v4 = Calls
      /\ \A c \in Calls : v4[c].pc = "unsent" /\ DOMAIN v4[c] = {"pc", "args"}
  BY NothingCached DEF T!Init
<1>2. v1 \in T!Tool
  <2>1. MaxToolVersion \in Nat
    BY DEF T!ToolAssumption
  <2>2. v1 \in [version : {0}, ttl : 0..MaxTtl, enabled : {TRUE}, allowed : {TRUE}]
    BY DEF T!Init
  <2>3. 0 \in 0..MaxToolVersion
    BY <2>1
  <2>4. \A v \in {0} : v \in 0..MaxToolVersion
    BY <2>3
  <2> QED
    BY <2>2, <2>4, Zenon DEF T!Tool
<1>3. IsFiniteSet(DOMAIN v2) /\ Cardinality(DOMAIN v2) = 0
  BY <1>1, FS_EmptySet
<1>4. T!Types /\ T!EntriesAreTimely /\ T!CacheIsBounded
  BY <1>1, <1>2, <1>3, ToolsCount
     DEF T!Types, T!EntriesAreTimely, T!CacheIsBounded, T!ToolAssumption
<1>5. \A c \in Calls :
        {"pc", "args"} \subseteq DOMAIN v4[c] /\ T!Served(c) /\ T!Waiting(c) /\ T!Spent(c)
  BY <1>1 DEF T!Served, T!Waiting, T!Spent, T!At
<1> QED
  BY <1>4, <1>5 DEF T!ToolInv

(* From the invariant: tool calls are sound.                               *)
LEMMA ToolEnd ==
  ASSUME T!ToolAssumption, T!ToolInv
  PROVE  T!CacheIsBounded /\ T!AnswersAreFresh /\ T!PatienceIsSpentOnce
<1>1. T!CacheIsBounded
  BY DEF T!ToolInv
<1>2. T!AnswersAreFresh
  BY DEF T!ToolInv, T!AnswersAreFresh, T!Served, T!Timely, T!ToolAssumption
<1>3. T!PatienceIsSpentOnce
  BY DEF T!ToolInv, T!PatienceIsSpentOnce, T!Spent, T!ToolAssumption
<1> QED
  BY <1>1, <1>2, <1>3

-----------------------------------------------------------------------------
(* Language models.  What is said is a beginning of what the vendor being  *)
(* read has said, and another vendor or attempt begins only while nothing  *)
(* was said.                                                               *)

(* A step changes what it names and keeps the rest of the call.            *)
LEMMA BecomesKeeps ==
  ASSUME L!Types, NEW more, L!Becomes(more)
  PROVE  /\ UNCHANGED L!config
         /\ DOMAIN v8' = {"pc", "provider", "attempt", "tried", "second", "deltas",
                          "shown", "reported", "usage", "error"}
         /\ v8' = [pc |-> IF "pc" \in DOMAIN more THEN more.pc ELSE v8.pc,
                   provider |-> IF "provider" \in DOMAIN more THEN more.provider
                                ELSE v8.provider,
                   attempt |-> IF "attempt" \in DOMAIN more THEN more.attempt
                               ELSE v8.attempt,
                   tried |-> IF "tried" \in DOMAIN more THEN more.tried ELSE v8.tried,
                   second |-> IF "second" \in DOMAIN more THEN more.second
                              ELSE v8.second,
                   deltas |-> IF "deltas" \in DOMAIN more THEN more.deltas
                              ELSE v8.deltas,
                   shown |-> IF "shown" \in DOMAIN more THEN more.shown ELSE v8.shown,
                   reported |-> IF "reported" \in DOMAIN more THEN more.reported
                                ELSE v8.reported,
                   usage |-> IF "usage" \in DOMAIN more THEN more.usage ELSE v8.usage,
                   error |-> IF "error" \in DOMAIN more THEN more.error ELSE v8.error]
<1> DEFINE fields == {"pc", "provider", "attempt", "tried", "second", "deltas",
                      "shown", "reported", "usage", "error"}
<1>1. DOMAIN v8 = fields
  BY DEF L!Types, L!Call
<1>2. v8' = [f \in fields |-> IF f \in DOMAIN more THEN more[f] ELSE v8[f]]
  BY <1>1 DEF L!Becomes
<1> QED
  BY <1>2 DEF L!Becomes

(* What a step may make of the call, and what it has to keep.              *)
LEMMA TriesStay ==
  ASSUME L!Types, UNCHANGED L!config
  PROVE  L!Tries \in Nat /\ L!Tries' = L!Tries /\ (v1 # "buffered" => L!Tries > 0)
BY DEF L!Types, L!config, L!Tries, L!Modes

(* An attempt is given up: the call has failed.                            *)
LEMMA RaiseStep ==
  ASSUME L!LlmInv, v8.pc \in {"build", "open"}, NEW error \in L!Errors, L!Raise(error),
         v1 = "probe" =>
           v2 = "gemini" \/ error \notin {"none", "noAttempt", "untranslated"}
  PROVE  L!LlmInv'
<1> DEFINE more == [pc |-> "raised", error |-> error]
<1>1. /\ v8 \in L!Call /\ L!Types /\ UNCHANGED L!config
      /\ v8'.pc = "raised" /\ v8'.error = error
      /\ v8'.provider = v8.provider /\ v8'.attempt = v8.attempt
      /\ v8'.tried = v8.tried /\ v8'.second = v8.second
      /\ v8'.deltas = v8.deltas /\ v8'.shown = v8.shown
      /\ v8'.reported = v8.reported /\ v8'.usage = v8.usage
  BY BecomesKeeps DEF L!LlmInv, L!Types, L!Raise
<1>2. v8' \in L!Call
  BY <1>1, BecomesKeeps DEF L!LlmInv, L!Call, L!Raise
<1>3. /\ UNCHANGED <<v1, v2, v5>> /\ L!Tries' = L!Tries
  BY <1>1, TriesStay DEF L!config
<1>4. L!Types'
  BY <1>1, <1>2, <1>3 DEF L!Types
<1>5. L!ShownByThisAttempt' /\ L!AttemptsAreCounted' /\ L!UsageIsOfTheAnswer'
  BY <1>1, <1>3 DEF L!LlmInv, L!ShownByThisAttempt, L!AttemptsAreCounted,
                    L!UsageIsOfTheAnswer, L!At, L!OnFallback
<1>6. L!TriesAreBounded'
  BY <1>1, <1>3 DEF L!LlmInv, L!TriesAreBounded
<1>7. L!ProbeRaises'
  BY <1>1, <1>3 DEF L!ProbeRaises, L!At
<1> QED
  BY <1>1, <1>4, <1>5, <1>6, <1>7 DEF L!LlmInv, L!At

(* An adapter is built, and its attempt is counted.                        *)
LEMMA BuildStep ==
  ASSUME L!LlmInv, L!Build
  PROVE  L!LlmInv'
<1>1. CASE v8.provider \notin v4
  <2>1. L!Raise("configuration") /\ v8.pc = "build"
    BY <1>1 DEF L!Build, L!At
  <2> QED
    BY <2>1, RaiseStep DEF L!Errors
<1>2. CASE v8.provider \in v4 /\ L!Tries = 0
  <2>1. L!Raise("noAttempt") /\ v8.pc = "build"
    BY <1>2 DEF L!Build, L!At
  <2>2. v1 # "probe"
    BY <1>2 DEF L!Tries
  <2> QED
    BY <2>1, <2>2, RaiseStep DEF L!Errors
<1>3. CASE v8.provider \in v4 /\ L!Tries # 0
  <2> DEFINE tried == v8.tried + IF L!OnFallback THEN 0 ELSE 1
             second == v8.second + IF L!OnFallback THEN 1 ELSE 0
  <2>1. /\ v8 \in L!Call /\ L!Types /\ v8.pc = "build"
        /\ v8'.pc = "open" /\ v8'.error = v8.error
        /\ v8'.provider = v8.provider /\ v8'.attempt = v8.attempt
        /\ v8'.tried = tried /\ v8'.second = second
        /\ v8'.deltas = 0 /\ v8'.shown = v8.shown
        /\ v8'.reported = 0 /\ v8'.usage = v8.usage
        /\ UNCHANGED L!config
    BY <1>3, BecomesKeeps DEF L!LlmInv, L!Types, L!Build, L!At
  <2>2. tried \in Nat /\ second \in Nat
    BY <2>1 DEF L!Call
  <2>3. v8' = [pc |-> "open", provider |-> v8.provider, attempt |-> v8.attempt,
               tried |-> tried, second |-> second, deltas |-> 0,
               shown |-> v8.shown, reported |-> 0, usage |-> v8.usage,
               error |-> v8.error]
    BY <1>3, <2>1, BecomesKeeps DEF L!Build, L!At
  <2>4. v8' \in L!Call
    BY <2>1, <2>2, <2>3 DEF L!Call
  <2>5. /\ UNCHANGED <<v1, v2, v5>> /\ L!Tries' = L!Tries /\ L!Tries \in Nat
    BY <2>1, TriesStay DEF L!config
  <2>6. L!Types'
    BY <2>1, <2>4, <2>5 DEF L!Types
  <2>7. /\ v8.attempt \in Nat /\ v8.tried \in Nat /\ v8.second \in Nat
        /\ v8.attempt < L!Tries /\ v8.shown = {} /\ L!OnFallback' = L!OnFallback
    BY <1>3, <2>1, <2>5
       DEF L!LlmInv, L!AttemptsAreCounted, L!ShownByThisAttempt, L!At, L!Call,
           L!OnFallback
  <2>8. L!ShownByThisAttempt' /\ L!ProbeRaises' /\ L!UsageIsOfTheAnswer'
    BY <2>1, <2>7
       DEF L!LlmInv, L!ShownByThisAttempt, L!ProbeRaises, L!UsageIsOfTheAnswer, L!At
  <2>9. L!AttemptsAreCounted' /\ L!TriesAreBounded'
    <3>1. CASE L!OnFallback
      <4>1. /\ v8'.tried = v8.tried /\ v8'.second = v8.second + 1
            /\ v8.second <= v8.attempt /\ v8.tried <= L!Tries
            /\ v1 # "probe" /\ (v1 = "streamed" => v8.attempt = 0)
        BY <2>1, <3>1, <2>7 DEF L!LlmInv, L!AttemptsAreCounted, L!TriesAreBounded, L!At
      <4> QED
        BY <2>1, <2>5, <2>7, <3>1, <4>1
           DEF L!AttemptsAreCounted, L!TriesAreBounded, L!At
    <3>2. CASE ~L!OnFallback
      <4>1. /\ v8'.tried = v8.tried + 1 /\ v8'.second = 0
            /\ v8.tried <= v8.attempt
        BY <2>1, <3>2, <2>7 DEF L!LlmInv, L!AttemptsAreCounted, L!At
      <4> QED
        BY <2>1, <2>5, <2>7, <3>2, <4>1
           DEF L!AttemptsAreCounted, L!TriesAreBounded, L!At
    <3> QED
      BY <3>1, <3>2
  <2> QED
    BY <2>1, <2>5, <2>6, <2>8, <2>9 DEF L!LlmInv, L!At
<1> QED
  BY <1>1, <1>2, <1>3

(* Another attempt, there or at the second choice: nothing was shown.      *)
LEMMA RetryStep ==
  ASSUME L!LlmInv, L!At("open"), NEW provider \in L!Vendors, NEW attempt \in Nat,
         NEW error \in L!Errors, NEW more, L!Becomes(more),
         v8' = [pc |-> "build", provider |-> provider, attempt |-> attempt,
                tried |-> v8.tried, second |-> v8.second,
                deltas |-> v8.deltas, shown |-> v8.shown,
                reported |-> v8.reported, usage |-> v8.usage,
                error |-> error],
         v8.shown = {},
         \/ /\ provider = v8.provider /\ attempt = v8.attempt + 1
            /\ attempt < L!Tries
            /\ v1 = "streamed" => ~L!OnFallback
         \/ provider # v2 /\ ~L!OnFallback /\ attempt = 0 /\ v1 # "probe"
  PROVE  L!LlmInv'
<1>1. /\ v8 \in L!Call /\ L!Types /\ UNCHANGED L!config /\ v8.pc = "open"
      /\ v8'.pc = "build" /\ v8'.error = error
      /\ v8'.provider = provider /\ v8'.attempt = attempt
      /\ v8'.tried = v8.tried /\ v8'.second = v8.second
      /\ v8'.shown = v8.shown /\ v8'.usage = v8.usage
      /\ v8'.deltas = v8.deltas
      /\ v8' \in L!Call
  BY DEF L!LlmInv, L!Types, L!At, L!Becomes, L!Call
<1>2. /\ UNCHANGED <<v1, v2, v5>> /\ L!Tries' = L!Tries /\ L!Tries \in Nat
  BY <1>1, TriesStay DEF L!config
<1>3. L!Types'
  BY <1>1, <1>2 DEF L!Types
<1>4. L!ShownByThisAttempt' /\ L!ProbeRaises' /\ L!UsageIsOfTheAnswer'
  BY <1>1, <1>2
     DEF L!LlmInv, L!ShownByThisAttempt, L!ProbeRaises, L!UsageIsOfTheAnswer, L!At
<1>5. L!TriesAreBounded'
  BY <1>1, <1>2 DEF L!LlmInv, L!TriesAreBounded
<1>6. /\ v8.attempt \in Nat /\ v8.tried \in Nat /\ v8.second \in Nat
      /\ ~L!OnFallback => v8.tried <= v8.attempt + 1 /\ v8.second = 0
      /\ L!OnFallback => v8.second <= v8.attempt + 1 /\ v1 # "probe"
  BY <1>1 DEF L!LlmInv, L!AttemptsAreCounted, L!At, L!Call
<1>7. L!AttemptsAreCounted'
  BY <1>1, <1>2, <1>6 DEF L!AttemptsAreCounted, L!OnFallback, L!At
<1> QED
  BY <1>1, <1>3, <1>4, <1>5, <1>7 DEF L!LlmInv, L!At

(* A stream that breaks off fails with what it has said.                   *)
LEMMA BreakStep ==
  ASSUME L!LlmInv, L!Break
  PROVE  L!LlmInv'
<1>1. /\ v8 \in L!Call /\ L!Types /\ v8.pc = "open" /\ L!At("open")
      /\ v1 # "streamed" => v8.shown = {}
  BY DEF L!LlmInv, L!Types, L!Break, L!At, L!ShownByThisAttempt
<1>2. PICK raised \in L!Raised : L!Fails(L!Translated(raised))
  BY DEF L!Break, L!Possible, L!Raised
<1> DEFINE error == L!Translated(raised)
<1>3. /\ error \in L!Errors \ {"none", "noAttempt"}
      /\ error = "untranslated" => v8.provider = "gemini"
  BY DEF L!Translated, L!Raised, L!Errors
<1> HIDE DEF error
<1>4. CASE L!Again(error)
  <2> DEFINE more == [pc |-> "build", attempt |-> v8.attempt + 1, error |-> error]
  <2>1. L!Becomes(more)
    BY <1>2, <1>4 DEF L!Fails, error
  <2>2. /\ v8.shown = {} /\ v8.attempt + 1 < L!Tries
        /\ v1 = "streamed" => ~L!OnFallback
    BY <1>1, <1>4 DEF L!Again
  <2>3. v8' = [pc |-> "build", provider |-> v8.provider,
               attempt |-> v8.attempt + 1, tried |-> v8.tried,
               second |-> v8.second, deltas |-> v8.deltas,
               shown |-> v8.shown, reported |-> v8.reported,
               usage |-> v8.usage, error |-> error]
    BY <1>1, <2>1, BecomesKeeps DEF L!Call
  <2>4. v8.provider \in L!Vendors /\ v8.attempt + 1 \in Nat
    BY <1>1 DEF L!Call
  <2> HIDE DEF more
  <2> QED
    BY <1>1, <1>3, <2>1, <2>2, <2>3, <2>4, RetryStep
<1>5. CASE ~L!Again(error) /\ v1 # "probe" /\ ~L!OnFallback /\ v8.shown = {}
           /\ L!FallsBack(error)
  <2> DEFINE more == [pc |-> "build", provider |-> v3, attempt |-> 0,
                      error |-> error]
  <2>1. L!Becomes(more)
    BY <1>2, <1>5 DEF L!Fails, error
  <2>2. v3 \in L!Vendors /\ v3 # v2
    BY <1>5 DEF L!FallsBack
  <2>3. v8' = [pc |-> "build", provider |-> v3, attempt |-> 0,
               tried |-> v8.tried, second |-> v8.second,
               deltas |-> v8.deltas, shown |-> v8.shown,
               reported |-> v8.reported, usage |-> v8.usage,
               error |-> error]
    BY <1>1, <2>1, BecomesKeeps DEF L!Call
  <2> HIDE DEF more
  <2> QED
    BY <1>1, <1>3, <1>5, <2>1, <2>2, <2>3, RetryStep
<1>6. CASE L!Raise(error)
  <2>1. v1 = "probe" => v8.provider = v2
    BY DEF L!LlmInv, L!AttemptsAreCounted, L!OnFallback
  <2> QED
    BY <1>1, <1>3, <1>6, <2>1, RaiseStep
<1> QED
  BY <1>2, <1>4, <1>5, <1>6 DEF L!Fails, error

(* What the vendor answers is shown under this attempt.                    *)
LEMMA AnswerStep ==
  ASSUME L!LlmAssumption, L!LlmInv, L!Answer \/ L!Delta \/ L!Finish \/ L!Leave
  PROVE  L!LlmInv'
<1>1. /\ v8 \in L!Call /\ L!Types /\ v8.pc = "open" /\ L!At("open")
      /\ v8.shown \subseteq {<<v8.provider, v8.attempt>>}
      /\ v8.usage = 0
      /\ v8.deltas \in Nat /\ v8.reported \in Nat
      /\ v8.provider \in L!Vendors /\ v8.attempt \in Nat
  BY DEF L!LlmInv, L!Types, L!Answer, L!Delta, L!Finish, L!Leave, L!At,
         L!ShownByThisAttempt, L!UsageIsOfTheAnswer, L!Call
<1>2. ASSUME NEW pc \in {"open", "returned", "left"}, NEW deltas \in Nat,
             NEW shown, shown \in {v8.shown, {<<v8.provider, v8.attempt>>}},
             NEW reported \in Nat, NEW usage \in Nat, NEW more, L!Becomes(more),
             v8' = [pc |-> pc, provider |-> v8.provider,
                    attempt |-> v8.attempt, tried |-> v8.tried,
                    second |-> v8.second, deltas |-> deltas, shown |-> shown,
                    reported |-> reported, usage |-> usage,
                    error |-> v8.error],
             IF pc = "returned" THEN usage = deltas ELSE usage = 0,
             pc # "returned" => v1 = "streamed"
      PROVE  L!LlmInv'
  <2>1. /\ UNCHANGED L!config
        /\ v8'.pc = pc /\ v8'.error = v8.error
        /\ v8'.provider = v8.provider /\ v8'.attempt = v8.attempt
        /\ v8'.tried = v8.tried /\ v8'.second = v8.second
        /\ v8'.shown = shown /\ v8'.usage = usage /\ v8'.deltas = deltas
    BY <1>1, <1>2 DEF L!Becomes, L!Call
  <2>2. shown \in SUBSET (L!Vendors \X Nat) /\ shown \subseteq {<<v8.provider, v8.attempt>>}
    BY <1>1, <1>2 DEF L!Call
  <2>3. v8' \in L!Call
    BY <1>1, <1>2, <2>2 DEF L!Call
  <2>4. /\ UNCHANGED <<v1, v2, v5>> /\ L!Tries' = L!Tries /\ L!Tries \in Nat
    BY <1>1, <2>1, TriesStay DEF L!config
  <2>5. L!Types'
    BY <1>1, <2>3, <2>4 DEF L!Types
  <2>6. L!ShownByThisAttempt' /\ L!ProbeRaises' /\ L!UsageIsOfTheAnswer'
    BY <1>2, <2>1, <2>2, <2>4 DEF L!ShownByThisAttempt, L!ProbeRaises,
                                  L!UsageIsOfTheAnswer, L!At
  <2>7. L!TriesAreBounded'
    BY <2>1, <2>4 DEF L!LlmInv, L!TriesAreBounded
  <2>8. L!AttemptsAreCounted'
    BY <1>1, <1>2, <2>1, <2>4 DEF L!LlmInv, L!AttemptsAreCounted, L!OnFallback, L!At
  <2> QED
    BY <1>2, <2>1, <2>4, <2>5, <2>6, <2>7, <2>8 DEF L!LlmInv, L!At
<1>3. CASE L!Answer
  <2>1. PICK n \in 1..MaxDeltas :
          L!Becomes([pc |-> "returned", deltas |-> n, usage |-> n,
                     shown |-> {<<v8.provider, v8.attempt>>}])
    BY <1>3 DEF L!Answer
  <2> DEFINE more == [pc |-> "returned", deltas |-> n, usage |-> n,
                      shown |-> {<<v8.provider, v8.attempt>>}]
  <2>2. n \in Nat
    BY DEF L!LlmAssumption
  <2>3. v8' = [pc |-> "returned", provider |-> v8.provider,
               attempt |-> v8.attempt, tried |-> v8.tried,
               second |-> v8.second, deltas |-> n,
               shown |-> {<<v8.provider, v8.attempt>>},
               reported |-> v8.reported, usage |-> n, error |-> v8.error]
    BY <1>1, <2>1, BecomesKeeps DEF L!Call
  <2> QED
    BY <1>1, <1>2, <2>1, <2>2, <2>3
<1>4. CASE L!Delta
  <2> DEFINE reported == IF v8.provider = "gemini" THEN v8.deltas + 1
                         ELSE v8.reported
             more == [deltas |-> v8.deltas + 1,
                      shown |-> v8.shown \cup {<<v8.provider, v8.attempt>>},
                      reported |-> reported]
  <2>1. L!Becomes(more) /\ v1 = "streamed"
    BY <1>4 DEF L!Delta
  <2>2. reported \in Nat /\ v8.deltas + 1 \in Nat
    BY <1>1
  <2>3. v8.shown \cup {<<v8.provider, v8.attempt>>} = {<<v8.provider, v8.attempt>>}
    BY <1>1
  <2> HIDE DEF reported
  <2>4. v8' = [pc |-> "open", provider |-> v8.provider,
               attempt |-> v8.attempt, tried |-> v8.tried,
               second |-> v8.second, deltas |-> v8.deltas + 1,
               shown |-> {<<v8.provider, v8.attempt>>},
               reported |-> reported, usage |-> 0, error |-> v8.error]
    BY <1>1, <2>1, <2>3, BecomesKeeps DEF L!Call
  <2> HIDE DEF more
  <2> QED
    BY <1>2, <2>1, <2>2, <2>4
<1>5. CASE L!Finish
  <2> DEFINE more == [pc |-> "returned", reported |-> v8.deltas, usage |-> L!Booked]
  <2>1. L!Becomes(more)
    BY <1>5 DEF L!Finish
  <2>2. v8' = [pc |-> "returned", provider |-> v8.provider,
               attempt |-> v8.attempt, tried |-> v8.tried,
               second |-> v8.second, deltas |-> v8.deltas,
               shown |-> v8.shown, reported |-> v8.deltas,
               usage |-> v8.deltas, error |-> v8.error]
    BY <1>1, <2>1, BecomesKeeps DEF L!Call, L!Booked
  <2> HIDE DEF more
  <2> QED
    BY <1>1, <1>2, <2>1, <2>2
<1>6. CASE L!Leave
  <2> DEFINE more == [pc |-> "left"]
  <2>1. L!Becomes(more) /\ v1 = "streamed"
    BY <1>6 DEF L!Leave
  <2>2. v8' = [pc |-> "left", provider |-> v8.provider,
               attempt |-> v8.attempt, tried |-> v8.tried,
               second |-> v8.second, deltas |-> v8.deltas,
               shown |-> v8.shown, reported |-> v8.reported, usage |-> 0,
               error |-> v8.error]
    BY <1>1, <2>1, BecomesKeeps DEF L!Call
  <2> HIDE DEF more
  <2> QED
    BY <1>1, <1>2, <2>1, <2>2
<1> QED
  BY <1>3, <1>4, <1>5, <1>6

(* Every step keeps the invariant.                                         *)
LEMMA LlmStep ==
  ASSUME L!LlmAssumption
  PROVE  L!LlmInv /\ [L!Next]_(L!vars) => L!LlmInv'
<1> SUFFICES ASSUME L!LlmInv, [L!Next]_(L!vars) PROVE L!LlmInv'
  OBVIOUS
<1>1. CASE UNCHANGED L!vars \/ L!Finished
  <2>1. UNCHANGED <<v1, v2, v3, v4, v5, v6, v7, v8>>
    BY <1>1 DEF L!vars, L!Finished
  <2> QED
    BY <2>1
       DEF L!LlmInv, L!Types, L!ShownByThisAttempt, L!AttemptsAreCounted, L!ProbeRaises,
           L!UsageIsOfTheAnswer, L!TriesAreBounded, L!At, L!OnFallback, L!Tries
<1> QED
  BY <1>1, BuildStep, BreakStep, AnswerStep DEF L!Next

(* A call begins with nothing said and nothing booked.                     *)
LEMMA LlmStart ==
  ASSUME L!LlmAssumption
  PROVE  L!Init => L!LlmInv
<1> SUFFICES ASSUME L!Init PROVE L!LlmInv
  OBVIOUS
<1>1. /\ v8.pc = "build" /\ v8.provider = v2 /\ v8.attempt = 0
      /\ v8.tried = 0 /\ v8.second = 0 /\ v8.shown = {} /\ v8.usage = 0
      /\ v2 \in L!Vendors /\ v1 \in L!Modes /\ v5 \in 0..MaxAttempts
  BY DEF L!Init
<1>2. v8 \in L!Call
  <2>1. {} \in SUBSET (L!Vendors \X Nat) /\ "none" \in L!Errors /\ v2 \in L!Vendors
    BY DEF L!Init, L!Errors
  <2> QED
    BY <2>1 DEF L!Init, L!Call
<1>3. L!Types
  BY <1>1, <1>2 DEF L!Types, L!LlmAssumption
<1>4. L!Tries \in Nat
  BY <1>3 DEF L!Types, L!Tries, L!Modes
<1>5. L!ShownByThisAttempt /\ L!UsageIsOfTheAnswer /\ L!ProbeRaises
  BY <1>1 DEF L!ShownByThisAttempt, L!UsageIsOfTheAnswer, L!ProbeRaises, L!At
<1>6. L!AttemptsAreCounted /\ L!TriesAreBounded
  BY <1>1, <1>4 DEF L!AttemptsAreCounted, L!TriesAreBounded, L!At, L!OnFallback
<1> QED
  BY <1>1, <1>3, <1>5, <1>6 DEF L!LlmInv, L!At

(* From the invariant: answers are whole.                                  *)
LEMMA LlmEnd ==
  L!LlmInv => L!AnswersAreWhole
<1> SUFFICES ASSUME L!LlmInv PROVE L!AnswersAreWhole
  OBVIOUS
<1>1. L!OneAnswer
  BY DEF L!LlmInv, L!ShownByThisAttempt, L!OneAnswer
<1>2. L!ProbeIsAnswered
  <2> SUFFICES ASSUME v1 = "probe", L!HasEnded, L!KeyCheck = "raises"
               PROVE  v2 = "gemini"
    BY DEF L!ProbeIsAnswered
  <2>1. v8.pc = "raised"
    BY DEF L!HasEnded, L!KeyCheck, L!LlmInv, L!At
  <2>2. v8.error \in {"none", "noAttempt", "untranslated"}
    BY <2>1 DEF L!KeyCheck, L!LlmInv, L!Types, L!Call, L!Errors
  <2> QED
    BY <2>1, <2>2 DEF L!LlmInv, L!ProbeRaises, L!At
<1> QED
  BY <1>1, <1>2 DEF L!LlmInv, L!AnswersAreWhole

-----------------------------------------------------------------------------
(* Retrieval.  A call reads the tier, the texts and the ranks in           *)
(* statements of their own; what it concludes from the first holds as long *)
(* as nothing is committed in between.                                     *)

(* The counts of this component are those of the library.                  *)
LEMMA RetrievalCounts ==
  /\ \A S : R!Cardinality(S) = Cardinality(S)
  /\ \A S : R!IsFiniteSet(S) <=> IsFiniteSet(S)
BY DEF R!Cardinality, Cardinality, R!IsFiniteSet, IsFiniteSet

(* Ranked places: t comes before s.                                        *)
Precedes(rank, t, s) ==
  \/ rank[t] > rank[s]
  \/ rank[t] = rank[s] /\ t < s

AheadOf(rank, s, S) == {t \in S : Precedes(rank, t, s)}

(* Who comes before another has fewer before it.                           *)
LEMMA PlacesDiffer ==
  ASSUME NEW S \in SUBSET Nat, IsFiniteSet(S), NEW rank, \A s \in S : rank[s] \in Nat,
         NEW s \in S, NEW t \in S, Precedes(rank, t, s)
  PROVE  /\ Cardinality(AheadOf(rank, t, S)) \in Nat
         /\ Cardinality(AheadOf(rank, s, S)) \in Nat
         /\ Cardinality(AheadOf(rank, t, S)) < Cardinality(AheadOf(rank, s, S))
<1> DEFINE At == AheadOf(rank, t, S)
           As == AheadOf(rank, s, S)
<1>1. IsFiniteSet(At) /\ IsFiniteSet(As)
  BY FS_Subset DEF AheadOf
<1>2. At \subseteq As
  <2>1. ASSUME NEW u \in S, Precedes(rank, u, t) PROVE Precedes(rank, u, s)
    <3>1. /\ rank[u] \in Nat /\ rank[t] \in Nat /\ rank[s] \in Nat
          /\ u \in Nat /\ t \in Nat /\ s \in Nat
      OBVIOUS
    <3> QED
      BY <2>1, <3>1 DEF Precedes
  <2> QED
    BY <2>1 DEF AheadOf
<1>3. t \in As /\ t \notin At
  BY DEF AheadOf, Precedes
<1> HIDE DEF At, As
<1>4. Cardinality(At) <= Cardinality(As) /\ (Cardinality(At) = Cardinality(As) => At = As)
  BY <1>1, <1>2, FS_Subset
<1>5. Cardinality(At) \in Nat /\ Cardinality(As) \in Nat
  BY <1>1, FS_CardinalityType
<1>6. Cardinality(At) # Cardinality(As)
  BY <1>3, <1>4
<1>7. Cardinality(At) < Cardinality(As)
  BY <1>4, <1>5, <1>6
<1> QED
  BY <1>5, <1>7 DEF At, As

(* Two that are not the same: one comes first.                             *)
LEMMA OneComesFirst ==
  ASSUME NEW S \in SUBSET Nat, NEW rank, \A s \in S : rank[s] \in Nat,
         NEW s \in S, NEW t \in S, s # t
  PROVE  Precedes(rank, s, t) \/ Precedes(rank, t, s)
BY DEF Precedes

(* Some one has none before it.                                            *)
LEMMA SomeoneLeads ==
  ASSUME NEW S \in SUBSET Nat, IsFiniteSet(S), S # {},
         NEW rank, \A s \in S : rank[s] \in Nat
  PROVE  \E s \in S : AheadOf(rank, s, S) = {} /\ \A t \in S : rank[t] <= rank[s]
<1> DEFINE place(s) == Cardinality(AheadOf(rank, s, S))
           Places == {place(s) : s \in S}
           Less == {p \in Nat \X Nat : p[1] < p[2]}
<1>1. \A s \in S : place(s) \in Nat
  BY FS_Subset, FS_CardinalityType DEF AheadOf
<1>2. \A s, t \in S : Precedes(rank, t, s) => place(t) < place(s)
  BY PlacesDiffer
<1> HIDE DEF place
<1>3. Places \subseteq Nat /\ Places # {}
  BY <1>1
<1>4. IsWellFoundedOn(Less, Nat)
  BY NatLessThanWellFounded DEF OpToRel
<1> HIDE DEF Places
<1>5. PICK least \in Places : \A n \in Places : ~(<<n, least>> \in Less)
  BY <1>3, <1>4, WFMin
<1>6. PICK s \in S : least = place(s)
  BY <1>5 DEF Places
<1>7. \A t \in S : ~(place(t) < place(s))
  BY <1>1, <1>5, <1>6 DEF Places
<1>8. \A t \in S : ~Precedes(rank, t, s)
  BY <1>2, <1>7
<1>9. AheadOf(rank, s, S) = {}
  BY <1>8 DEF AheadOf
<1>10. \A t \in S : rank[t] <= rank[s]
  BY <1>8 DEF Precedes
<1> QED
  BY <1>9, <1>10

MatesOf(group, s, S) == {t \in S : group[t] = group[s]}

(* The first `share' of each group, beside one group: no more than that    *)
(* for each other group.                                                   *)
LEMMA SharesFit ==
  ASSUME NEW S \in SUBSET Nat, IsFiniteSet(S), NEW rank, \A s \in S : rank[s] \in Nat,
         NEW group, NEW groups, IsFiniteSet(groups), NEW b \in groups,
         \A s \in S : group[s] \in groups,
         NEW share \in Nat, NEW X \in SUBSET S,
         \A s \in X : /\ group[s] # b
                      /\ Cardinality(AheadOf(rank, s, MatesOf(group, s, S))) < share
  PROVE  /\ IsFiniteSet(X)
         /\ Cardinality(X) <= (Cardinality(groups) - 1) * share
<1> DEFINE mates(s) == MatesOf(group, s, S)
           place(s) == Cardinality(AheadOf(rank, s, mates(s)))
           Slots == (groups \ {b}) \X (0..(share - 1))
           f == [s \in X |-> <<group[s], place(s)>>]
<1>1. \A s \in S : IsFiniteSet(mates(s)) /\ mates(s) \in SUBSET Nat
                   /\ IsFiniteSet(AheadOf(rank, s, mates(s)))
  BY FS_Subset DEF AheadOf, MatesOf
<1>2. \A s \in S : place(s) \in Nat
  BY <1>1, FS_CardinalityType
<1>3. \A s \in X : place(s) < share /\ group[s] # b
  OBVIOUS
<1>4. ASSUME NEW s \in X, NEW t \in X, s # t, group[s] = group[t]
      PROVE  place(s) # place(t)
  <2>1. mates(s) = mates(t) /\ s \in mates(s) /\ t \in mates(s)
    BY <1>4 DEF MatesOf
  <2>2. IsFiniteSet(mates(s)) /\ mates(s) \in SUBSET Nat
        /\ \A u \in mates(s) : rank[u] \in Nat
    BY <1>1 DEF MatesOf
  <2>3. place(t) = Cardinality(AheadOf(rank, t, mates(s)))
    BY <2>1
  <2>4. place(s) = Cardinality(AheadOf(rank, s, mates(s)))
    OBVIOUS
  <2> HIDE DEF place, mates
  <2>5. Precedes(rank, s, t) \/ Precedes(rank, t, s)
    BY <1>4, OneComesFirst
  <2>6. CASE Precedes(rank, s, t)
    <3>1. place(s) \in Nat /\ place(t) \in Nat /\ place(s) < place(t)
      BY <2>1, <2>2, <2>3, <2>4, <2>6, PlacesDiffer
    <3> QED
      BY <3>1
  <2>7. CASE Precedes(rank, t, s)
    <3>1. place(s) \in Nat /\ place(t) \in Nat /\ place(t) < place(s)
      BY <2>1, <2>2, <2>3, <2>4, <2>7, PlacesDiffer
    <3> QED
      BY <3>1
  <2> QED
    BY <2>5, <2>6, <2>7
<1>5. IsFiniteSet(groups \ {b}) /\ Cardinality(groups \ {b}) = Cardinality(groups) - 1
  BY FS_RemoveElement
<1>6. IsFiniteSet(0..(share - 1)) /\ Cardinality(0..(share - 1)) = share
  <2>1. CASE share = 0
    <3>1. 0..(share - 1) = {}
      BY <2>1
    <3> QED
      BY <2>1, <3>1, FS_EmptySet
  <2>2. CASE share > 0
    <3>1. 0 \in Int /\ share - 1 \in Int /\ 0 <= share - 1 /\ (share - 1) - 0 + 1 = share
      BY <2>2
    <3> QED
      BY <3>1, FS_Interval
  <2> QED
    BY <2>1, <2>2
<1> HIDE DEF place
<1>7. f \in Injection(X, Slots)
  <2>1. \A s \in X : group[s] \in groups \ {b} /\ place(s) \in 0..(share - 1)
    BY <1>2, <1>3
  <2>2. f \in [X -> Slots]
    BY <2>1
  <2>3. \A s, t \in X : f[s] = f[t] => s = t
    BY <1>4
  <2> QED
    BY <2>2, <2>3 DEF Injection, IsInjective
<1>8. IsFiniteSet(Slots) /\ Cardinality(Slots) = (Cardinality(groups) - 1) * share
  <2> DEFINE others == groups \ {b}
             places == 0..(share - 1)
  <2>1. IsFiniteSet(others) /\ IsFiniteSet(places)
    BY <1>5, <1>6
  <2>2. Cardinality(others) = Cardinality(groups) - 1 /\ Cardinality(places) = share
    BY <1>5, <1>6
  <2>3. Slots = others \X places
    OBVIOUS
  <2> HIDE DEF others, places, Slots
  <2>4. /\ IsFiniteSet(others \X places)
        /\ Cardinality(others \X places) = Cardinality(others) * Cardinality(places)
    BY <2>1, FS_Product
  <2> QED
    BY <2>2, <2>3, <2>4
<1> HIDE DEF Slots, f
<1>9. IsFiniteSet(X) /\ Cardinality(X) <= Cardinality(Slots)
  BY <1>7, <1>8, FS_Injection
<1> QED
  BY <1>8, <1>9

(* The ranks a query gives the sources.                                    *)
RanksFor(q) == [s \in Sources |-> v3[s][q]]

(* They are numbers, and so are the settings.                              *)
LEMMA RanksAreNumbers ==
  ASSUME R!RetrievalAssumption, R!CallTypes, NEW q \in R!Wordings
  PROVE  /\ \A s \in Sources : v3[s][q] \in Nat /\ RanksFor(q)[s] = v3[s][q]
         /\ Sources \in SUBSET Nat /\ IsFiniteSet(Sources)
         /\ Limit \in Nat \ {0} /\ Floor \in Nat \ {0} /\ MinRank \in Nat \ {0}
<1>1. \A s \in Sources : v3[s] \in Texts \cup {R!NoText}
  BY DEF R!CallTypes
<1>2. \A t \in Texts : t["narrow"] \in Nat /\ t["wide"] \in Nat
  BY DEF R!RetrievalAssumption
<1>3. R!NoText["narrow"] \in Nat /\ R!NoText["wide"] \in Nat
  BY DEF R!NoText
<1>4. \A s \in Sources : v3[s][q] \in Nat
  BY <1>1, <1>2, <1>3 DEF R!Wordings
<1>5. Sources \in SUBSET Nat /\ IsFiniteSet(Sources)
  BY RetrievalCounts DEF R!RetrievalAssumption
<1>6. Limit \in Nat \ {0} /\ Floor \in Nat \ {0} /\ MinRank \in Nat \ {0}
  BY DEF R!RetrievalAssumption
<1> QED
  BY <1>4, <1>5, <1>6 DEF RanksFor

(* Who is ahead of a source is who comes before it.                        *)
LEMMA AheadIs ==
  ASSUME R!RetrievalAssumption, R!CallTypes, NEW q \in R!Wordings,
         NEW s \in Sources, NEW among \in SUBSET Sources
  PROVE  R!Ahead(s, among, q) = Cardinality(AheadOf(RanksFor(q), s, among))
<1>1. \A t \in among : R!Before(t, s, q) <=> Precedes(RanksFor(q), t, s)
  BY RanksAreNumbers DEF R!Before, Precedes
<1>2. {t \in among : R!Before(t, s, q)} = AheadOf(RanksFor(q), s, among)
  BY <1>1 DEF AheadOf
<1> QED
  BY <1>2, RetrievalCounts DEF R!Ahead

(* Each base has a slot at least.                                          *)
LEMMA SharesAreSlots ==
  ASSUME NEW l \in Nat \ {0}, NEW n \in Nat
  PROVE  /\ R!share_of(l, n) \in Nat \ {0}
         /\ n # 0 => (n - 1) * R!share_of(l, n) = (n - 1) * ((l + n - 1) \div n)
<1>1. CASE n <= 1
  <2>1. R!share_of(l, n) = l
    BY <1>1 DEF R!share_of
  <2>2. n # 0 => n = 1
    BY <1>1
  <2>3. (1 - 1) * l = 0 /\ (l + 1 - 1) \div 1 = l
    OBVIOUS
  <2> QED
    BY <2>1, <2>2, <2>3
<1>2. CASE n > 1
  <2>1. R!share_of(l, n) = (l + n - 1) \div n
    BY <1>2 DEF R!share_of
  <2>2. (l + n - 1) \div n \in Nat \ {0}
    BY <1>2
  <2> QED
    BY <2>1, <2>2
<1> QED
  BY <1>1, <1>2

(* What is first of its base, and has few enough before it, is a row; and  *)
(* a row that is above the floor and leads the rows of its base is kept.   *)
LEMMA LeaderIsKept ==
  ASSUME R!RetrievalAssumption, R!CallTypes, NEW q \in R!Wordings, NEW n \in Nat,
         n = Cardinality(v5.scope),
         NEW s \in R!Matching(q),
         LET mates == {t \in R!Matching(q) : BaseOf[t] = BaseOf[s]}
             shared == {t \in R!Matching(q) :
               R!Ahead(t, {u \in R!Matching(q) : BaseOf[u] = BaseOf[t]}, q)
                 < R!share_of(Limit, n)}
         IN  /\ AheadOf(RanksFor(q), s, mates) = {}
             /\ \A t \in mates : v3[t][q] <= v3[s][q]
             /\ R!Ahead(s, shared, q) < Limit,
         v3[s][q] >= MinRank
  PROVE  s \in R!Kept(R!Rows(q), q)
<1> DEFINE mates == {t \in R!Matching(q) : BaseOf[t] = BaseOf[s]}
           shared == {t \in R!Matching(q) :
               R!Ahead(t, {u \in R!Matching(q) : BaseOf[u] = BaseOf[t]}, q)
                 < R!share_of(Limit, n)}
<1>1. R!Matching(q) \subseteq Sources
  BY DEF R!Matching, R!Ready
<1>2. R!Ahead(s, mates, q) = 0
  <2>1. R!Ahead(s, mates, q) = Cardinality(AheadOf(RanksFor(q), s, mates))
    BY <1>1, AheadIs
  <2> QED
    BY <2>1, FS_EmptySet
<1>3. R!share_of(Limit, n) \in Nat \ {0}
  BY RanksAreNumbers, SharesAreSlots
<1>4. s \in shared
  BY <1>2, <1>3
<1>5. R!Rows(q) = {t \in shared : R!Ahead(t, shared, q) < Limit}
  BY RetrievalCounts DEF R!Rows
<1>6. s \in R!Rows(q) /\ R!Rows(q) \subseteq R!Matching(q)
  BY <1>4, <1>5
<1> HIDE DEF shared
<1>7. ASSUME NEW t \in R!Rows(q), BaseOf[t] = BaseOf[s] PROVE v3[s][q] * Floor >= v3[t][q]
  <2>1. v3[t][q] <= v3[s][q]
    BY <1>6, <1>7
  <2>2. v3[t][q] \in Nat /\ v3[s][q] \in Nat /\ Floor \in Nat \ {0}
    BY <1>1, <1>6, RanksAreNumbers
  <2>3. v3[s][q] * Floor >= v3[s][q]
    <3>1. \A a \in Nat, f \in Nat \ {0} : a * f >= a
      OBVIOUS
    <3> QED
      BY <2>2, <3>1
  <2>4. v3[s][q] * Floor \in Nat
    BY <2>2
  <2> QED
    BY <2>1, <2>2, <2>3, <2>4
<1> QED
  BY <1>6, <1>7 DEF R!Kept

(* Nothing above the floor is lost.                                        *)
LEMMA NothingAboveTheFloor ==
  ASSUME R!RetrievalAssumption, R!CallTypes, NEW q \in R!Wordings,
         v5.scope \subseteq Bases,
         R!Kept(R!Rows(q), q) = {}, NEW r \in R!Ready
  PROVE  v3[r][q] < MinRank
<1>1. /\ \A s \in Sources : v3[s][q] \in Nat /\ RanksFor(q)[s] = v3[s][q]
      /\ Sources \in SUBSET Nat /\ IsFiniteSet(Sources)
      /\ Limit \in Nat \ {0} /\ MinRank \in Nat \ {0}
  BY RanksAreNumbers
<1> SUFFICES ASSUME v3[r][q] >= MinRank PROVE FALSE
  BY <1>1 DEF R!Ready
<1> DEFINE all == R!Matching(q)
<1>2. all \subseteq Sources /\ IsFiniteSet(all) /\ all \in SUBSET Nat
  BY <1>1, FS_Subset DEF R!Matching, R!Ready
<1>3. r \in all
  BY <1>1 DEF R!Matching, R!Ready
<1>4. \A s \in all : RanksFor(q)[s] \in Nat /\ RanksFor(q)[s] = v3[s][q]
  BY <1>1, <1>2
<1>5. PICK s \in all : /\ AheadOf(RanksFor(q), s, all) = {}
                       /\ \A t \in all : RanksFor(q)[t] <= RanksFor(q)[s]
  BY <1>2, <1>3, <1>4, SomeoneLeads
<1>6. \A t \in all : v3[t][q] <= v3[s][q]
  BY <1>4, <1>5
<1> DEFINE n == Cardinality(v5.scope)
<1>7. n \in Nat
  BY RetrievalCounts, FS_Subset, FS_CardinalityType DEF R!RetrievalAssumption
<1> DEFINE mates == {t \in all : BaseOf[t] = BaseOf[s]}
           shared == {t \in all :
               R!Ahead(t, {u \in all : BaseOf[u] = BaseOf[t]}, q) < R!share_of(Limit, n)}
<1>8. AheadOf(RanksFor(q), s, mates) = {} /\ AheadOf(RanksFor(q), s, shared) = {}
  BY <1>5 DEF AheadOf
<1>9. R!Ahead(s, shared, q) = 0
  <2>1. R!Ahead(s, shared, q) = Cardinality(AheadOf(RanksFor(q), s, shared))
    BY <1>2, AheadIs
  <2> QED
    BY <1>8, <2>1, FS_EmptySet
<1>10. v3[s][q] >= MinRank
  BY <1>1, <1>2, <1>3, <1>6
<1> HIDE DEF n
<1>11. /\ AheadOf(RanksFor(q), s, mates) = {}
       /\ \A t \in mates : v3[t][q] <= v3[s][q]
       /\ R!Ahead(s, shared, q) < Limit
  BY <1>1, <1>6, <1>8, <1>9
<1>12. s \in R!Kept(R!Rows(q), q)
  BY <1>7, <1>10, <1>11, LeaderIsKept DEF n
<1> QED
  BY <1>12

(* No base is starved: the best of it has a slot.                          *)
LEMMA EachBaseHasASlot ==
  ASSUME R!RetrievalAssumption, R!CallTypes, NEW q \in R!Wordings,
         v5.scope \subseteq Bases, NEW n \in Nat, n = Cardinality(v5.scope),
         NEW b \in v5.scope,
         (n - 1) * R!share_of(Limit, n) < Limit,
         NEW r \in R!Ready, BaseOf[r] = b, v3[r][q] >= MinRank
  PROVE  \E s \in R!Kept(R!Rows(q), q) : BaseOf[s] = b
<1>1. /\ \A s \in Sources : v3[s][q] \in Nat /\ RanksFor(q)[s] = v3[s][q]
      /\ Sources \in SUBSET Nat /\ IsFiniteSet(Sources)
      /\ Limit \in Nat \ {0} /\ MinRank \in Nat \ {0}
  BY RanksAreNumbers
<1> DEFINE all == R!Matching(q)
           mine == {t \in all : BaseOf[t] = b}
<1>2. all \subseteq Sources /\ IsFiniteSet(all) /\ all \in SUBSET Nat
  BY <1>1, FS_Subset DEF R!Matching, R!Ready
<1>3. IsFiniteSet(mine) /\ mine \in SUBSET Nat
  BY <1>2, FS_Subset
<1>4. r \in mine
  BY <1>1 DEF R!Matching, R!Ready
<1>5. \A s \in all : RanksFor(q)[s] \in Nat /\ RanksFor(q)[s] = v3[s][q]
  BY <1>1, <1>2
<1>6. \A s \in all : BaseOf[s] \in v5.scope
  BY DEF R!Matching, R!Ready
<1> HIDE DEF all
<1>7. PICK s \in mine : /\ AheadOf(RanksFor(q), s, mine) = {}
                        /\ \A t \in mine : RanksFor(q)[t] <= RanksFor(q)[s]
  BY <1>3, <1>4, <1>5, SomeoneLeads
<1>8. s \in all /\ BaseOf[s] = b /\ \A t \in mine : v3[t][q] <= v3[s][q]
  BY <1>5, <1>7
<1> DEFINE share == R!share_of(Limit, n)
           mates == {t \in all : BaseOf[t] = BaseOf[s]}
           shared == {t \in all :
               R!Ahead(t, {u \in all : BaseOf[u] = BaseOf[t]}, q) < share}
           X == AheadOf(RanksFor(q), s, shared)
<1>9. mates = mine
  BY <1>8
<1>10. share \in Nat
  BY <1>1, SharesAreSlots
<1>11. R!Ahead(s, shared, q) = Cardinality(X)
  BY <1>2, <1>8, AheadIs
<1> HIDE DEF share
<1>12. ASSUME NEW t \in X
       PROVE  /\ BaseOf[t] # b
              /\ Cardinality(AheadOf(RanksFor(q), t, MatesOf(BaseOf, t, all))) < share
  <2>1. t \in all /\ Precedes(RanksFor(q), t, s)
    BY DEF AheadOf
  <2>2. BaseOf[t] # b
    BY <1>7, <2>1 DEF AheadOf
  <2>3. R!Ahead(t, {u \in all : BaseOf[u] = BaseOf[t]}, q)
          = Cardinality(AheadOf(RanksFor(q), t, {u \in all : BaseOf[u] = BaseOf[t]}))
    BY <1>2, <2>1, AheadIs
  <2>4. R!Ahead(t, {u \in all : BaseOf[u] = BaseOf[t]}, q) < share
    BY DEF AheadOf
  <2>5. {u \in all : BaseOf[u] = BaseOf[t]} = MatesOf(BaseOf, t, all)
    BY DEF MatesOf
  <2> QED
    BY <2>2, <2>3, <2>4, <2>5
<1>13. IsFiniteSet(v5.scope)
  BY RetrievalCounts, FS_Subset DEF R!RetrievalAssumption
<1>14. X \in SUBSET all
  BY DEF AheadOf
<1> HIDE DEF X
<1>15. IsFiniteSet(X) /\ Cardinality(X) <= (Cardinality(v5.scope) - 1) * share
  BY <1>2, <1>5, <1>6, <1>10, <1>12, <1>13, <1>14, SharesFit
<1>16. Cardinality(X) < Limit
  <2>1. Cardinality(X) \in Nat /\ (n - 1) * share \in Int
    BY <1>10, <1>15, FS_CardinalityType
  <2>2. (n - 1) * share < Limit
    BY DEF share
  <2> QED
    BY <1>1, <1>15, <2>1, <2>2
<1>17. v3[s][q] >= MinRank
  <2>1. v3[r][q] <= v3[s][q] /\ v3[r][q] \in Nat /\ v3[s][q] \in Nat
    BY <1>1, <1>2, <1>4, <1>8
  <2> QED
    BY <1>1, <2>1
<1>18. /\ AheadOf(RanksFor(q), s, mates) = {}
       /\ \A t \in mates : v3[t][q] <= v3[s][q]
       /\ R!Ahead(s, shared, q) < Limit
  BY <1>7, <1>8, <1>9, <1>11, <1>16
<1>19. s \in R!Kept(R!Rows(q), q)
  BY <1>8, <1>17, <1>18, LeaderIsKept DEF all, share
<1> QED
  BY <1>8, <1>19

(* What a search finds is the same as long as the texts and the scope are. *)
LEMMA SearchStays ==
  ASSUME UNCHANGED <<v1, v3>>, v5'.scope = v5.scope
  PROVE  /\ R!Settings' = R!Settings
         /\ R!Injects' <=> R!Injects
         /\ \A q : R!Kept(R!Rows(q), q)' = R!Kept(R!Rows(q), q)
<1>1. R!Ready' = R!Ready
  BY DEF R!Ready
<1>2. R!Settings' = R!Settings
  <2>1. {v1[b] : b \in v5.scope}' = {v1[b] : b \in v5.scope}
    OBVIOUS
  <2> QED
    BY <2>1 DEF R!Settings
<1>3. R!total_characters' = R!total_characters
  BY <1>1 DEF R!total_characters
<1>4. R!Injects' <=> R!Injects
  BY <1>2, <1>3 DEF R!Injects
<1>5. ASSUME NEW q PROVE R!Kept(R!Rows(q), q)' = R!Kept(R!Rows(q), q)
  <2>1. R!Matching(q)' = R!Matching(q)
    BY <1>1 DEF R!Matching
  <2>2. \A s, t : R!Before(s, t, q)' <=> R!Before(s, t, q)
    BY DEF R!Before
  <2>3. \A s, among : R!Ahead(s, among, q)' = R!Ahead(s, among, q)
    <3> TAKE s, among
    <3>1. {t \in among : R!Before(t, s, q)}' = {t \in among : R!Before(t, s, q)}
      BY <2>2
    <3> QED
      BY <3>1 DEF R!Ahead
  <2> DEFINE share == R!share_of(Limit, R!Cardinality(v5.scope))
             mates(s) == {t \in R!Matching(q) : BaseOf[t] = BaseOf[s]}
             shared == {s \in R!Matching(q) : R!Ahead(s, mates(s), q) < share}
  <2>4. share' = share
    OBVIOUS
  <2>5. \A s : mates(s)' = mates(s)
    BY <2>1
  <2>6. shared' = shared
    BY <2>1, <2>3, <2>4, <2>5
  <2>7. R!Rows(q) = {s \in shared : R!Ahead(s, shared, q) < Limit}
    BY DEF R!Rows
  <2>8. R!Rows(q)' = {s \in shared' : R!Ahead(s, shared, q)' < Limit}
    BY DEF R!Rows
  <2>9. R!Rows(q)' = R!Rows(q)
    BY <2>3, <2>6, <2>7, <2>8
  <2> QED
    BY <2>9 DEF R!Kept
<1> QED
  BY <1>2, <1>4, <1>5

(* What statements and others keep: a call has the fields of its state.    *)
LEMMA CallKinds ==
  ASSUME R!CallTypes
  PROVE  /\ v5.pc = "unsent" => v5 = [pc |-> "unsent"]
         /\ v5.pc \in {"weigh", "direct", "keyword", "widened", "again", "last"} => v5 \in R!Running
         /\ v5.pc = "done" => v5 \in R!Result
BY DEF R!CallTypes, R!Running, R!Result

(* A call that goes on keeps what it read.                                 *)
LEMMA CallGoesOn ==
  ASSUME R!RetrievalInv, R!World' = R!World, v5 \in R!Running,
         NEW pc \in {"direct", "keyword", "widened", "again", "last"},
         v5' = [v5 EXCEPT !.pc = pc],
         pc \in {"widened", "again", "last"} => v4,
         pc = "direct" /\ v5.since = v6 => R!Injects
  PROVE  R!RetrievalInv'
<1>1. /\ v5' \in R!Running /\ v5'.pc = pc /\ v5'.scope = v5.scope
      /\ v5'.since = v5.since /\ v5'.configured = v5.configured
  BY DEF R!Running
<1>2. UNCHANGED <<v1, v2, v3, v4, v6>>
  BY DEF R!World
<1>3. R!CallTypes'
  BY <1>1, <1>2 DEF R!RetrievalInv, R!CallTypes
<1>4. v5.pc # "unsent"
  BY DEF R!Running
<1>5. v5'.since = v6' => R!Relied'
  <2>1. ASSUME v5'.since = v6' PROVE R!Relied'
    <3>1. R!Relied
      BY <1>1, <1>2, <1>4, <2>1 DEF R!RetrievalInv, R!At
    <3>2. v5.configured = R!Settings
      BY <3>1 DEF R!Relied
    <3>3. R!Settings' = R!Settings /\ (R!Injects' <=> R!Injects)
      BY <1>1, <1>2, SearchStays
    <3>4. pc = "direct" => R!Injects
      BY <1>1, <1>2, <2>1
    <3> QED
      BY <1>1, <3>2, <3>3, <3>4 DEF R!Relied, R!At
  <2> QED
    BY <2>1
<1> QED
  BY <1>1, <1>2, <1>3, <1>4, <1>5 DEF R!RetrievalInv, R!At

(* A call that returns says how it came by its passages.                   *)
LEMMA CallReturns ==
  ASSUME R!RetrievalInv, R!World' = R!World, v5 \in R!Running,
         NEW how \in {"direct", "keyword"}, NEW passages \in SUBSET Sources,
         NEW wording \in R!Wordings, R!Return(how, passages, wording),
         how = "direct" /\ v5.since = v6 => R!Injects,
         how = "keyword" =>
           /\ ~v4 => wording = "narrow"
           /\ v4 /\ passages = {} => wording = "wide"
           /\ passages = R!Kept(R!Rows(wording), wording)
  PROVE  R!RetrievalInv'
<1>1. /\ v5' \in R!Result /\ v5'.pc = "done" /\ v5'.scope = v5.scope
      /\ v5'.since = v5.since /\ v5'.tier = how /\ v5'.passages = passages
      /\ v5'.wording = wording
  BY DEF R!Running, R!Result, R!Return
<1>2. UNCHANGED <<v1, v2, v3, v4, v6>>
  BY DEF R!World
<1>3. R!CallTypes'
  BY <1>1, <1>2 DEF R!RetrievalInv, R!CallTypes
<1>4. v5.pc # "unsent" /\ v5.scope # {}
  BY DEF R!Running
<1>5. ASSUME v5'.since = v6' PROVE R!Relied'
  <2>1. /\ R!Injects' <=> R!Injects
        /\ R!Kept(R!Rows(wording), wording)' = R!Kept(R!Rows(wording), wording)
    BY <1>1, <1>2, SearchStays
  <2>2. v5' \notin R!Running
    BY <1>1 DEF R!Running
  <2>3. v5.since = v6
    BY <1>1, <1>2, <1>5
  <2>4. how = "keyword" => passages = R!Kept(R!Rows(wording), wording)'
    BY <2>1
  <2>5. \A q \in R!Wordings : how = "keyword" /\ wording = q => passages = R!Kept(R!Rows(q), q)
    OBVIOUS
  <2>6. \A q \in R!Wordings : R!Kept(R!Rows(q), q)' = R!Kept(R!Rows(q), q)
    BY <1>1, <1>2, SearchStays
  <2>7. \A q \in R!Wordings : how = "keyword" /\ wording = q => passages = R!Kept(R!Rows(q), q)'
    BY <2>5, <2>6
  <2> QED
    BY <1>1, <2>1, <2>2, <2>3, <2>7 DEF R!Relied, R!At
<1>6. v5.since <= v6
  BY <1>4 DEF R!RetrievalInv, R!At
<1> QED
  BY <1>1, <1>2, <1>3, <1>4, <1>5, <1>6 DEF R!RetrievalInv, R!At

(* The tier that _retrieval_scope read is the one that choose_tier takes.  *)
LEMMA AskStep ==
  ASSUME R!RetrievalInv, R!World' = R!World, NEW scope \in SUBSET Bases, R!Scope(scope)
  PROVE  R!RetrievalInv'
<1>1. UNCHANGED <<v1, v2, v3, v4, v6>>
  BY DEF R!World
<1>2. v1 \in [Bases -> R!Tiers] /\ v6 \in Nat
  BY DEF R!RetrievalInv, R!CallTypes
<1>3. CASE scope = {}
  <2>1. v5' = [pc |-> "done", tier |-> "direct", passages |-> {},
               wording |-> "narrow", scope |-> {}, since |-> v6]
    BY <1>3 DEF R!Scope
  <2>2. v5' \in R!Result
    BY <1>2, <2>1 DEF R!Result, R!Wordings
  <2>3. R!CallTypes'
    BY <1>1, <2>2 DEF R!RetrievalInv, R!CallTypes
  <2>4. R!Injects'
    BY <2>1 DEF R!Injects
  <2>5. v5' \notin R!Running
    BY <2>1 DEF R!Running
  <2>6. R!Relied'
    BY <2>1, <2>4, <2>5 DEF R!Relied, R!At
  <2> QED
    BY <1>1, <1>2, <2>1, <2>3, <2>6 DEF R!RetrievalInv, R!At
<1>4. CASE scope # {}
  <2> DEFINE chosen == R!Configured({v1[b] : b \in scope})
  <2>1. v5' = [pc |-> "weigh", scope |-> scope, since |-> v6, configured |-> chosen]
    BY <1>4 DEF R!Scope
  <2>2. chosen \in R!Tiers
    BY DEF R!Configured, R!Tiers
  <2>3. R!Settings' = chosen
    <3>1. {v1[b] : b \in v5.scope}' = {v1[b] : b \in scope}
      BY <1>1, <2>1
    <3> QED
      BY <3>1 DEF R!Settings
  <2> HIDE DEF chosen
  <2>4. v5' \in R!Running
    BY <1>2, <1>4, <2>1, <2>2 DEF R!Running
  <2>5. R!CallTypes'
    BY <1>1, <2>4 DEF R!RetrievalInv, R!CallTypes
  <2>6. R!Relied'
    BY <2>1, <2>3 DEF R!Relied, R!At
  <2> QED
    BY <1>1, <1>2, <2>1, <2>5, <2>6 DEF R!RetrievalInv, R!At
<1> QED
  BY <1>3, <1>4

(* A search that is judged returns what it kept or asks once more.         *)
LEMMA JudgeStep ==
  ASSUME R!RetrievalInv, R!World' = R!World, v5 \in R!Running,
         NEW q \in R!Wordings, NEW again \in BOOLEAN, R!Judge(R!Rows(q), q, again),
         ~v4 => q = "narrow",
         q = "narrow" => again = TRUE
  PROVE  R!RetrievalInv'
<1>1. R!Kept(R!Rows(q), q) \in SUBSET Sources
  BY DEF R!Kept, R!Rows, R!Matching, R!Ready
<1>2. v4 \in BOOLEAN
  BY DEF R!RetrievalInv, R!CallTypes
<1>3. CASE R!Kept(R!Rows(q), q) = {} /\ again /\ v4
  <2>1. v5' = [v5 EXCEPT !.pc = "again"]
    BY <1>3 DEF R!Judge, R!Widens
  <2> QED
    BY <1>3, <2>1, CallGoesOn
<1>4. CASE ~(R!Kept(R!Rows(q), q) = {} /\ again /\ v4)
  <2> DEFINE kept == R!Kept(R!Rows(q), q)
  <2>1. R!Return("keyword", kept, q)
    BY <1>4 DEF R!Judge, R!Widens
  <2>2. q = "narrow" \/ q = "wide"
    BY DEF R!Wordings
  <2>3. v4 /\ kept = {} => q = "wide"
    BY <1>4, <2>2
  <2>4. kept \in SUBSET Sources /\ kept = R!Kept(R!Rows(q), q)
    BY <1>1
  <2> HIDE DEF kept
  <2> QED
    BY <2>1, <2>3, <2>4, CallReturns
<1> QED
  BY <1>3, <1>4

(* Every step keeps the invariant.                                         *)
LEMMA RetrievalStep ==
  ASSUME R!RetrievalAssumption, R!RetrievalInv, [R!Next]_(R!vars)
  PROVE  R!RetrievalInv'
<1>a. /\ v1 \in [Bases -> R!Tiers] /\ v2 \subseteq Bases
      /\ v3 \in [Sources -> Texts \cup {R!NoText}]
      /\ v4 \in BOOLEAN /\ v6 \in 0..MaxChanges /\ MaxChanges \in Nat
      /\ v5 \in {[pc |-> "unsent"]} \cup R!Running \cup R!Result
  BY DEF R!RetrievalInv, R!CallTypes, R!RetrievalAssumption
<1>1. CASE UNCHANGED R!vars
  <2>1. UNCHANGED <<v1, v2, v3, v4, v5, v6>>
    BY <1>1 DEF R!vars
  <2>2. /\ R!Settings' = R!Settings /\ (R!Injects' <=> R!Injects)
        /\ \A q : R!Kept(R!Rows(q), q)' = R!Kept(R!Rows(q), q)
    BY <2>1, SearchStays
  <2>3. R!Relied => R!Relied'
    BY <2>1, <2>2 DEF R!Relied, R!At
  <2>4. R!CallTypes'
    BY <2>1 DEF R!RetrievalInv, R!CallTypes
  <2> QED
    BY <2>1, <2>3, <2>4 DEF R!RetrievalInv, R!At
<1>2. CASE R!Ask
  <2>1. PICK scope \in SUBSET Bases : R!Scope(scope)
    BY <1>2, <1>a DEF R!Ask
  <2>2. R!World' = R!World
    BY <2>1 DEF R!Scope
  <2> QED
    BY <2>1, <2>2, AskStep
<1>3. CASE R!Weigh
  <2>1. v5 \in R!Running /\ v5.pc = "weigh" /\ R!World' = R!World
    BY <1>3, CallKinds DEF R!Weigh, R!At, R!RetrievalInv
  <2> DEFINE pc == R!choose_tier(v5.configured, R!total_characters)
  <2>2. v5' = [v5 EXCEPT !.pc = pc]
    BY <1>3 DEF R!Weigh
  <2>3. v5.configured \in R!Tiers /\ v5.scope # {}
    BY <2>1 DEF R!Running
  <2>4. pc \in {"direct", "keyword"}
    BY <2>3 DEF R!choose_tier, R!Tiers
  <2>5. pc = "direct" /\ v5.since = v6 => R!Injects
    <3>1. ASSUME v5.since = v6 PROVE v5.configured = R!Settings
      BY <2>1, <3>1 DEF R!RetrievalInv, R!Relied, R!At
    <3> QED
      BY <3>1 DEF R!Injects
  <2> HIDE DEF pc
  <2> QED
    BY <2>1, <2>2, <2>4, <2>5, CallGoesOn
<1>4. CASE R!Inject
  <2>1. v5 \in R!Running /\ v5.pc = "direct" /\ R!World' = R!World
    BY <1>4, CallKinds DEF R!Inject, R!At, R!RetrievalInv, R!World, R!vars
  <2>2. R!Return("direct", R!Ready, "narrow")
    BY <1>4 DEF R!Inject
  <2>3. R!Ready \in SUBSET Sources /\ "narrow" \in R!Wordings
    BY DEF R!Ready, R!Wordings
  <2>4. v5.since = v6 => R!Injects
    BY <2>1 DEF R!RetrievalInv, R!Relied, R!At
  <2> QED
    BY <2>1, <2>2, <2>3, <2>4, CallReturns
<1>5. CASE R!Search
  <2>1. v5 \in R!Running /\ R!World' = R!World
    BY <1>5, CallKinds DEF R!Search, R!At, R!RetrievalInv
  <2>2. CASE R!Rows("narrow") = {} /\ v4
    <3>1. v5' = [v5 EXCEPT !.pc = "widened"]
      BY <1>5, <2>2 DEF R!Search
    <3> QED
      BY <2>1, <2>2, <3>1, CallGoesOn
  <2>3. CASE ~(R!Rows("narrow") = {} /\ v4)
    <3>1. R!Judge(R!Rows("narrow"), "narrow", TRUE)
      BY <1>5, <2>3 DEF R!Search
    <3> QED
      BY <2>1, <3>1, JudgeStep DEF R!Wordings
  <2> QED
    BY <2>2, <2>3
<1>6. CASE R!SearchWidened
  <2>1. v5 \in R!Running /\ v4 /\ R!World' = R!World
    BY <1>6, CallKinds DEF R!SearchWidened, R!At, R!RetrievalInv
  <2>2. R!Judge(R!Rows("wide"), "wide", TRUE)
    BY <1>6 DEF R!SearchWidened
  <2> QED
    BY <2>1, <2>2, JudgeStep DEF R!Wordings
<1>7. CASE R!SearchAgain
  <2>1. v5 \in R!Running /\ v4 /\ R!World' = R!World
    BY <1>7, CallKinds DEF R!SearchAgain, R!At, R!RetrievalInv
  <2>2. CASE R!Rows("wide") = {}
    <3>1. v5' = [v5 EXCEPT !.pc = "last"]
      BY <1>7, <2>2 DEF R!SearchAgain
    <3> QED
      BY <2>1, <3>1, CallGoesOn
  <2>3. CASE R!Rows("wide") # {}
    <3>1. R!Judge(R!Rows("wide"), "wide", FALSE)
      BY <1>7, <2>3 DEF R!SearchAgain
    <3> QED
      BY <2>1, <3>1, JudgeStep DEF R!Wordings
  <2> QED
    BY <2>2, <2>3
<1>8. CASE R!SearchLast
  <2>1. v5 \in R!Running /\ v4 /\ R!World' = R!World
    BY <1>8, CallKinds DEF R!SearchLast, R!At, R!RetrievalInv
  <2>2. R!Judge(R!Rows("wide"), "wide", FALSE)
    BY <1>8 DEF R!SearchLast
  <2> QED
    BY <2>1, <2>2, JudgeStep DEF R!Wordings
<1>9. ASSUME R!Changing, v5' = v5, v4' = v4, v1' \in [Bases -> R!Tiers],
             v2' \subseteq Bases, v3' \in [Sources -> Texts \cup {R!NoText}]
      PROVE  R!RetrievalInv'
  <2>1. v6 < MaxChanges /\ v6' = v6 + 1 /\ v5.pc # "done"
    BY <1>9 DEF R!Changing, R!At
  <2>2. R!CallTypes'
    BY <1>9, <1>a, <2>1 DEF R!CallTypes
  <2>3. v5.pc # "unsent" => v5 \in R!Running
    BY <1>a, <2>1 DEF R!Running, R!Result
  <2>4. v5.pc # "unsent" => v5.since <= v6 /\ v5.since \in Nat
    BY <2>3 DEF R!RetrievalInv, R!At, R!Running
  <2>5. v5.pc # "unsent" => v5.since <= v6' /\ v5.since # v6'
    BY <1>a, <2>1, <2>4
  <2> QED
    BY <1>9, <2>1, <2>2, <2>5 DEF R!RetrievalInv, R!At
<1>10. CASE \E s \in Sources : R!SetText(s)
  BY <1>9, <1>10, <1>a DEF R!SetText
<1>11. CASE \E b \in Bases : R!Attach(b)
  BY <1>9, <1>11, <1>a DEF R!Attach
<1>12. CASE \E b \in Bases : R!SetTier(b)
  BY <1>9, <1>12, <1>a DEF R!SetTier
<1>13. CASE \E b \in Bases : R!DeleteBase(b)
  BY <1>9, <1>13, <1>a DEF R!DeleteBase
<1>14. CASE R!Finished
  BY <1>1, <1>14 DEF R!Finished
<1> QED
  BY <1>1, <1>2, <1>3, <1>4, <1>5, <1>6, <1>7, <1>8, <1>10, <1>11, <1>12, <1>13, <1>14
     DEF R!Next, R!Retrieve

(* Nothing is asked in the beginning.                                      *)
LEMMA RetrievalStart ==
  ASSUME R!RetrievalAssumption, R!Init PROVE R!RetrievalInv
BY DEF R!RetrievalAssumption, R!Init, R!RetrievalInv, R!CallTypes, R!At

(* The invariant says what the properties say.                             *)
LEMMA RetrievalEnd ==
  ASSUME R!RetrievalAssumption, R!RetrievalInv
  PROVE  R!InjectionFits /\ R!NothingIsStarved /\ R!SilenceIsHonest
<1>1. R!CallTypes
  BY DEF R!RetrievalInv
<1>2. v5.pc = "done" => v5 \in R!Result
  BY <1>1, CallKinds
<1>3. R!Undisturbed => /\ v5 \in R!Result /\ R!Relied
                       /\ v5.tier = "keyword" =>
                            /\ v5.scope # {} /\ v5.scope \subseteq Bases
                            /\ v5.wording \in R!Wordings
                            /\ v5.passages = R!Kept(R!Rows(v5.wording), v5.wording)
  BY <1>2 DEF R!RetrievalInv, R!Undisturbed, R!At, R!Relied, R!Result
<1>4. R!InjectionFits
  <2>1. SUFFICES ASSUME R!Undisturbed, v5.tier = "direct"
                 PROVE  /\ \A b \in v5.scope : v1[b] # "keyword"
                        /\ \/ \A b \in v5.scope : v1[b] = "direct"
                           \/ R!total_characters <= Budget
    BY DEF R!InjectionFits
  <2>2. R!Injects
    BY <1>3, <2>1 DEF R!Relied, R!Undisturbed
  <2>3. CASE v5.scope = {}
    BY <2>3
  <2>4. CASE R!choose_tier(R!Settings, R!total_characters) = "direct"
    <3> DEFINE tiers == {v1[b] : b \in v5.scope}
    <3>1. R!Settings = R!Configured(tiers)
      BY DEF R!Settings
    <3>2. \/ R!Settings = "direct"
          \/ R!Settings = "auto" /\ R!total_characters <= Budget
      BY <2>4, <3>1 DEF R!choose_tier, R!Configured
    <3>3. "keyword" \notin tiers /\ (R!Settings = "direct" => tiers = {"direct"})
      BY <3>1, <3>2 DEF R!Configured
    <3> QED
      BY <3>2, <3>3
  <2> QED
    BY <2>2, <2>3, <2>4 DEF R!Injects
<1>5. R!NothingIsStarved
  <2> DEFINE n == Cardinality(v5.scope)
             q == v5.wording
  <2>1. SUFFICES ASSUME R!Undisturbed, v5.tier = "keyword", v5.passages # {},
                        (n - 1) * ((Limit + n - 1) \div n) < Limit,
                        NEW b \in v5.scope,
                        NEW s \in R!Ready, BaseOf[s] = b, v3[s][q] >= MinRank
                 PROVE  \E t \in v5.passages : BaseOf[t] = b
    BY RetrievalCounts DEF R!NothingIsStarved
  <2>2. q \in R!Wordings /\ v5.scope \subseteq Bases /\ v5.passages = R!Kept(R!Rows(q), q)
    BY <1>3, <2>1
  <2>3. IsFiniteSet(v5.scope)
    BY <2>2, RetrievalCounts, FS_Subset DEF R!RetrievalAssumption
  <2>4. n \in Nat /\ n # 0
    BY <2>3, FS_CardinalityType, FS_EmptySet
  <2>5. Limit \in Nat \ {0}
    BY <1>1, <2>2, RanksAreNumbers
  <2> HIDE DEF n, q
  <2>6. (n - 1) * R!share_of(Limit, n) < Limit
    BY <2>1, <2>4, <2>5, SharesAreSlots
  <2>7. \E t \in R!Kept(R!Rows(q), q) : BaseOf[t] = b
    BY <1>1, <2>1, <2>2, <2>4, <2>6, EachBaseHasASlot DEF n
  <2> QED
    BY <2>2, <2>7
<1>6. R!SilenceIsHonest
  <2> DEFINE q == v5.wording
  <2>1. SUFFICES ASSUME R!Undisturbed, v5.tier = "keyword", v5.passages = {}, NEW s \in R!Ready
                 PROVE  v3[s][IF v4 THEN "wide" ELSE "narrow"] < MinRank
    BY DEF R!SilenceIsHonest
  <2>2. q \in R!Wordings /\ v5.scope \subseteq Bases /\ v5.passages = R!Kept(R!Rows(q), q)
    BY <1>3, <2>1
  <2>3. q = IF v4 THEN "wide" ELSE "narrow"
    BY <2>1 DEF R!RetrievalInv, R!Undisturbed
  <2> HIDE DEF q
  <2>4. v3[s][q] < MinRank
    BY <1>1, <2>1, <2>2, NothingAboveTheFloor
  <2> QED
    BY <2>3, <2>4
<1> QED
  BY <1>4, <1>5, <1>6

-----------------------------------------------------------------------------
(* What the invariants above do not say of the kinds of things.            *)

(* An agent's are part of AgentInv.                                        *)
LEMMA AgentTypes == ASSUME A!AgentInv PROVE A!TypeOK
BY DEF A!AgentInv, A!Types, A!HistoryOfTheLiving, A!TypeOK

(* A retrieval's are part of RetrievalInv.                                 *)
LEMMA RetrievalTypes == ASSUME R!RetrievalInv PROVE R!TypeOK
BY DEF R!RetrievalInv, R!CallTypes, R!TypeOK, R!Running, R!Result, R!At

(* Calls: the arguments of a call stay what they were, and an entry of the *)
(* cache is of a call's.                                                   *)
LEMMA ToolTypesStep ==
  ASSUME T!ToolAssumption, T!ToolInv, T!TypeOK, [T!Next]_(T!vars)
  PROVE  T!TypeOK'
<1>1. CASE UNCHANGED T!vars
  BY <1>1 DEF T!vars, T!TypeOK
<1>2. CASE T!Update \/ T!Tick \/ T!Finished
  BY <1>2 DEF T!Update, T!Tick, T!Finished, T!vars, T!TypeOK, T!ToolAssumption, T!Tool
<1>3. ASSUME NEW c \in Calls, T!Load(c) \/ T!Lookup(c) \/ T!Fails(c) \/ T!Answers(c)
      PROVE  T!TypeOK'
  <2>1. UNCHANGED <<v1, v3>>
    BY <1>3 DEF T!Load, T!Lookup, T!Fails, T!Answers
  <2>2. \A d \in Calls : v4'[d].args = v4[d].args
    <3>1. DOMAIN v4 = Calls /\ "args" \in DOMAIN v4[c]
      BY DEF T!ToolInv, T!Types
    <3>2. ASSUME NEW how, T!Ended(c, how) PROVE \A d \in Calls : v4'[d].args = v4[d].args
      BY <3>1, <3>2 DEF T!Ended
    <3>3. ASSUME NEW more, "args" \notin DOMAIN more, T!Becomes(c, more)
          PROVE  \A d \in Calls : v4'[d].args = v4[d].args
      BY <3>1, <3>3 DEF T!Becomes, T!With
    <3>4. CASE T!Load(c)
      BY <3>2, <3>3, <3>4 DEF T!Load
    <3>5. CASE T!Lookup(c)
      BY <3>2, <3>3, <3>5 DEF T!Lookup
    <3>6. CASE T!Fails(c)
      BY <3>2, <3>3, <3>6 DEF T!Fails
    <3>7. CASE T!Answers(c)
      BY <3>2, <3>3, <3>7 DEF T!Answers
    <3> QED
      BY <1>3, <3>4, <3>5, <3>6, <3>7
  <2>3. DOMAIN v2' \subseteq DOMAIN v2 \cup {v4[c].args}
    <3>1. CASE T!Load(c) \/ T!Fails(c)
      BY <3>1 DEF T!Load, T!Fails
    <3>2. CASE T!Lookup(c)
      BY <3>2 DEF T!Lookup, T!Without
    <3>3. CASE T!Answers(c)
      BY <3>3 DEF T!Answers, T!Put
    <3> QED
      BY <1>3, <3>1, <3>2, <3>3
  <2> QED
    BY <2>1, <2>2, <2>3 DEF T!TypeOK
<1> QED
  BY <1>1, <1>2, <1>3 DEF T!Next

(* A cache is empty at first.                                              *)
LEMMA ToolTypesStart == ASSUME T!ToolAssumption, T!Init PROVE T!TypeOK
<1>1. v1 \in T!Tool
  BY ToolStart DEF T!ToolInv, T!Types
<1>2. DOMAIN v2 \subseteq Arguments
  BY NothingCached DEF T!Init
<1>3. v3 \in 0..MaxTime
  BY DEF T!ToolAssumption, T!Init
<1>4. \A c \in Calls : v4[c].args \in Arguments
  BY DEF T!Init
<1> QED
  BY <1>1, <1>2, <1>3, <1>4 DEF T!TypeOK

(* Model calls: the configuration is as it was, and an answer has its      *)
(* bounded length.                                                         *)
LlmTypes ==
  /\ v5 \in 0..MaxAttempts /\ v4 \subseteq L!Vendors
  /\ v8.deltas \in 0..MaxDeltas

(* Building, trying, answering, leaving: none changes the configuration.   *)
LEMMA LlmTypesStep ==
  ASSUME L!LlmAssumption, L!LlmInv, LlmTypes, [L!Next]_(L!vars)
  PROVE  LlmTypes'
<1>1. CASE UNCHANGED L!vars
  BY <1>1 DEF L!vars, LlmTypes
<1>2. ASSUME L!Next PROVE UNCHANGED <<v4, v5>>
  BY <1>2 DEF L!Next, L!Build, L!Break, L!Fails, L!Raise, L!Answer, L!Delta, L!Finish, L!Leave,
              L!Finished, L!Becomes, L!config, L!vars
<1>3. "deltas" \in DOMAIN v8
  BY DEF L!LlmInv, L!Types, L!Call
<1>4. ASSUME NEW more, L!Becomes(more),
             "deltas" \in DOMAIN more => more.deltas \in 0..MaxDeltas
      PROVE  LlmTypes'
  BY <1>3, <1>4 DEF L!Becomes, L!config, LlmTypes
<1>5. ASSUME NEW error, L!Fails(error) PROVE LlmTypes'
  BY <1>4, <1>5 DEF L!Fails, L!Raise
<1>6. CASE L!Build
  BY <1>4, <1>6 DEF L!Build, L!Raise, L!LlmAssumption
<1>7. CASE L!Break
  BY <1>5, <1>7 DEF L!Break
<1>8. CASE L!Answer
  BY <1>4, <1>8 DEF L!Answer, L!LlmAssumption
<1>9. CASE L!Delta
  <2>1. v8.deltas + 1 \in 0..MaxDeltas
    BY <1>9 DEF L!Delta, LlmTypes, L!LlmAssumption
  <2> QED
    BY <1>4, <1>9, <2>1 DEF L!Delta
<1>10. CASE L!Finish \/ L!Leave
  BY <1>4, <1>10 DEF L!Finish, L!Leave
<1>11. CASE L!Finished
  BY <1>11 DEF L!Finished, L!vars, LlmTypes
<1> QED
  BY <1>1, <1>6, <1>7, <1>8, <1>9, <1>10, <1>11 DEF L!Next

(* No delta has come when a call begins.                                   *)
LEMMA LlmTypesStart == ASSUME L!LlmAssumption, L!Init PROVE LlmTypes
<1>1. v5 \in 0..MaxAttempts /\ v4 \subseteq L!Vendors
  BY DEF L!Init
<1>2. v8.deltas = 0
  BY DEF L!Init
<1>3. 0 \in 0..MaxDeltas
  BY DEF L!LlmAssumption
<1> QED
  BY <1>1, <1>2, <1>3 DEF LlmTypes

(* The rest is part of LlmInv.                                             *)
LEMMA LlmTypesEnd ==
  ASSUME L!LlmAssumption, L!LlmInv, LlmTypes PROVE L!TypeOK
<1>1. v8.tried \in Nat /\ v8.second \in Nat /\ v8.usage \in 0..MaxDeltas
      /\ v1 \in L!Modes /\ v2 \in L!Vendors /\ v8.provider \in L!Vendors
  BY DEF L!LlmInv, L!Types, L!Call, L!UsageIsOfTheAnswer, LlmTypes, L!LlmAssumption
<1>2. L!Tries \in 0..(MaxAttempts + 1)
  BY <1>1 DEF L!Tries, LlmTypes, L!LlmAssumption, L!Modes
<1> QED
  BY <1>1, <1>2 DEF L!LlmInv, L!TriesAreBounded, LlmTypes, L!TypeOK, L!LlmAssumption

(* Syncs: a task is in the broker or with a worker, and a source that has  *)
(* failed too often is not pulled.                                         *)
Busy == {w \in Requests : v6[w].pc # "idle"}

SyncTypes ==
  /\ v2 \in {"absent", "stored", "deleted"}
  /\ v4 \in Requests \cup {K!NoOne}
  /\ v5 \in Nat /\ IsFiniteSet(Busy) /\ v5 + Cardinality(Busy) <= MaxTasks
  /\ v3.failures <= MaxFailures
  /\ \A w \in Requests : v6[w].pc # "idle" => v6[w].loaded.failures <= MaxFailures

(* The model counts as the library does.                                   *)
LEMMA SyncCounts == \A S : K!Cardinality(S) = Cardinality(S)
BY DEF K!IsFiniteSet, IsFiniteSet, K!Cardinality, Cardinality

(* A worker becomes busy, stays busy or comes to rest.                     *)
LEMMA WorkerBegins ==
  ASSUME K!SyncInv, SyncTypes, NEW w \in Requests, NEW new, v6' = [v6 EXCEPT ![w] = new],
         v6[w].pc = "idle", new.pc # "idle"
  PROVE  IsFiniteSet(Busy') /\ Cardinality(Busy') = Cardinality(Busy) + 1
<1>1. Busy' = Busy \cup {w} /\ w \notin Busy
  BY DEF Busy, K!SyncInv, K!Types
<1>2. IsFiniteSet(Busy)
  BY DEF SyncTypes
<1> QED
  BY <1>1, <1>2, FS_AddElement

(* One that goes on is busy still.                                         *)
LEMMA WorkerStays ==
  ASSUME K!SyncInv, SyncTypes, NEW w \in Requests, NEW new, v6' = [v6 EXCEPT ![w] = new],
         v6[w].pc # "idle", new.pc # "idle"
  PROVE  IsFiniteSet(Busy') /\ Cardinality(Busy') = Cardinality(Busy)
<1>1. Busy' = Busy
  BY DEF Busy, K!SyncInv, K!Types
<1> QED
  BY <1>1 DEF SyncTypes

(* One that has written, or failed, is not.                                *)
LEMMA WorkerRests ==
  ASSUME K!SyncInv, SyncTypes, NEW w \in Requests, v6' = [v6 EXCEPT ![w] = K!Resting],
         v6[w].pc # "idle"
  PROVE  IsFiniteSet(Busy') /\ Cardinality(Busy') = Cardinality(Busy) - 1
<1>1. Busy' = Busy \ {w} /\ w \in Busy
  BY DEF Busy, K!SyncInv, K!Types, K!Resting
<1>2. IsFiniteSet(Busy)
  BY DEF SyncTypes
<1> QED
  BY <1>1, <1>2, FS_RemoveElement

(* The broker takes a task or does not.                                    *)
LEMMA EnqueueStep ==
  ASSUME K!SyncInv, SyncTypes, K!Enqueue, UNCHANGED v6
  PROVE  v5' \in Nat /\ v5' + Cardinality(Busy') <= MaxTasks /\ UNCHANGED Busy
<1>1. Cardinality(Busy) \in Nat
  BY FS_CardinalityType DEF SyncTypes
<1>2. UNCHANGED Busy
  BY DEF Busy
<1>3. \/ v5' = v5
      \/ v5' = v5 + 1 /\ v5 + Cardinality(Busy) < MaxTasks
  BY SyncCounts DEF K!Enqueue, Busy
<1> QED
  BY <1>1, <1>2, <1>3, SyncAssumed DEF SyncTypes, K!SyncAssumption

(* A step of the tenant or of the beat.                                    *)
LEMMA OutsideTypes ==
  ASSUME K!SyncAssumption, K!SyncInv, SyncTypes,
         K!Tenant \/ K!Beat \/ K!SweepFault \/ K!Finished \/ UNCHANGED K!vars
  PROVE  SyncTypes'
<1>1. UNCHANGED <<v4, v6>> /\ UNCHANGED Busy
  BY DEF K!Tenant, K!Add, K!CommitAdd, K!SyncNow, K!ReadSchedule, K!SetSchedule, K!Delete,
         K!Beat, K!Sweep, K!CommitSweep, K!SweepFault, K!Finished, K!vars, Busy
<1>2. v2' \in {"absent", "stored", "deleted"}
  BY DEF K!Tenant, K!Add, K!CommitAdd, K!SyncNow, K!ReadSchedule, K!SetSchedule, K!Delete,
         K!Beat, K!Sweep, K!CommitSweep, K!SweepFault, K!Finished, K!vars, SyncTypes
<1>3. v3'.failures = v3.failures
  <2>1. DOMAIN v3 = {"status", "text", "cursor", "failures", "scheduled", "dated"}
    BY DEF K!SyncInv, K!Types, K!AnyRow
  <2>2. CASE K!SetSchedule
    BY <2>1, <2>2 DEF K!SetSchedule
  <2>3. CASE K!CommitSweep
    BY <2>1, <2>3 DEF K!CommitSweep
  <2>4. CASE ~K!SetSchedule /\ ~K!CommitSweep
    BY <2>4 DEF K!Tenant, K!Add, K!CommitAdd, K!SyncNow, K!ReadSchedule, K!Delete,
                K!Beat, K!Sweep, K!SweepFault, K!Finished, K!vars
  <2> QED
    BY <2>2, <2>3, <2>4
<1>4. v5' \in Nat /\ v5' + Cardinality(Busy') <= MaxTasks
  <2>1. CASE K!Enqueue
    BY <1>1, <2>1, EnqueueStep
  <2>2. CASE UNCHANGED v5
    BY <1>1, <2>2 DEF SyncTypes
  <2> QED
    BY <2>1, <2>2
       DEF K!Tenant, K!Add, K!CommitAdd, K!SyncNow, K!ReadSchedule, K!SetSchedule, K!Delete,
           K!Beat, K!Sweep, K!CommitSweep, K!SweepFault, K!Finished, K!vars
<1> QED
  BY <1>1, <1>2, <1>3, <1>4 DEF SyncTypes

(* A step of a worker.                                                     *)
LEMMA WorkerTypes ==
  ASSUME K!SyncAssumption, K!SyncInv, SyncTypes, NEW w \in Requests,
         K!Work(w) \/ K!Fault(w)
  PROVE  SyncTypes'
<1>1. /\ K!Types /\ MaxTasks \in Nat /\ MaxFailures \in Nat
      /\ v5 \in Nat /\ Cardinality(Busy) \in Nat
  BY FS_CardinalityType DEF K!SyncAssumption, K!SyncInv, SyncTypes
<1>2. CASE K!Load(w)
  <2>1. CASE v2 = "stored"
    <3>1. v6' = [v6 EXCEPT ![w] = [pc |-> "loaded", loaded |-> v3]]
      BY <1>2, <2>1 DEF K!Load
    <3>2. IsFiniteSet(Busy') /\ Cardinality(Busy') = Cardinality(Busy) + 1
      <4>1. [pc |-> "loaded", loaded |-> v3].pc # "idle" /\ v6[w].pc = "idle"
        BY <1>2 DEF K!Load
      <4> QED
        BY <3>1, <4>1, WorkerBegins
    <3>3. \A x \in Requests : v6'[x].pc # "idle" => v6'[x].loaded.failures <= MaxFailures
      BY <1>1, <3>1 DEF SyncTypes, K!Types
    <3> QED
      BY <1>1, <1>2, <3>2, <3>3 DEF K!Load, SyncTypes
  <2>2. CASE v2 # "stored"
    <3>1. UNCHANGED <<v6, Busy>>
      BY <1>2, <2>2 DEF K!Load, Busy
    <3> QED
      BY <1>1, <1>2, <3>1 DEF K!Load, SyncTypes
  <2> QED
    BY <2>1, <2>2
<1>3. CASE K!Mark(w)
  <2>1. v6[w] \in K!Working /\ v6[w].pc = "loaded"
    BY <1>1, <1>3 DEF K!Mark, K!Types, K!Resting
  <2>2. CASE v2 = "stored"
    <3> DEFINE new == [v6[w] EXCEPT !.pc = "marked"]
    <3>1. v6' = [v6 EXCEPT ![w] = new] /\ new.pc = "marked" /\ new.loaded = v6[w].loaded
      BY <1>3, <2>1, <2>2 DEF K!Mark, K!Working
    <3> HIDE DEF new
    <3>2. IsFiniteSet(Busy') /\ Cardinality(Busy') = Cardinality(Busy)
      BY <2>1, <3>1, WorkerStays
    <3>3. \A x \in Requests : v6'[x].pc # "idle" => v6'[x].loaded.failures <= MaxFailures
      BY <1>1, <2>1, <3>1 DEF SyncTypes, K!Types
    <3> QED
      BY <1>1, <1>3, <2>2, <3>2, <3>3 DEF K!Mark, SyncTypes
  <2>3. CASE v2 # "stored"
    <3>1. v6' = [v6 EXCEPT ![w] = K!Resting]
      BY <1>3, <2>3 DEF K!Mark
    <3>2. IsFiniteSet(Busy') /\ Cardinality(Busy') = Cardinality(Busy) - 1
      BY <1>1, <2>1, <3>1, WorkerRests
    <3>3. \A x \in Requests : v6'[x].pc # "idle" => v6'[x].loaded.failures <= MaxFailures
      BY <1>1, <3>1 DEF SyncTypes, K!Types, K!Resting
    <3> QED
      BY <1>1, <1>3, <2>3, <3>2, <3>3 DEF K!Mark, SyncTypes
  <2> QED
    BY <2>2, <2>3
<1>4. ASSUME v6[w].pc = "marked", NEW new \in K!AnyRow, K!Settle(w, new),
             new.failures <= MaxFailures
      PROVE  SyncTypes'
  <2>1. /\ v6' = [v6 EXCEPT ![w] = K!Resting] /\ v4' = K!NoOne
        /\ UNCHANGED <<v2, v5>>
    BY <1>4 DEF K!Settle
  <2>2. IsFiniteSet(Busy') /\ Cardinality(Busy') = Cardinality(Busy) - 1
    BY <1>1, <1>4, <2>1, WorkerRests
  <2>3. \A x \in Requests : v6'[x].pc # "idle" => v6'[x].loaded.failures <= MaxFailures
    BY <1>1, <2>1 DEF SyncTypes, K!Types, K!Resting
  <2>4. v3'.failures \in {v3.failures, new.failures}
    BY <1>4, SettledRow DEF K!Written
  <2> QED
    BY <1>1, <1>4, <2>1, <2>2, <2>3, <2>4 DEF SyncTypes
<1>5. ASSUME v6[w].pc = "marked"
      PROVE  v6[w].loaded \in K!AnyRow /\ v6[w].loaded.failures <= MaxFailures
  BY <1>1, <1>5 DEF K!Types, K!Working, K!Resting, SyncTypes
<1>6. CASE K!Fail(w)
  <2> DEFINE new == K!Failed(v6[w].loaded)
  <2>1. v6[w].pc = "marked" /\ v6[w].loaded.failures < MaxFailures /\ K!Settle(w, new)
    BY <1>6 DEF K!Fail
  <2>3. v6[w].loaded.failures \in Nat /\ v6[w].loaded.failures + 1 \in Nat
    BY <1>5, <2>1 DEF K!AnyRow
  <2>2. new \in K!AnyRow /\ new.failures = v6[w].loaded.failures + 1
    BY <1>5, <2>1, <2>3 DEF K!Failed, K!AnyRow, K!NextAt
  <2> HIDE DEF new
  <2>4. new.failures <= MaxFailures
    BY <1>1, <2>1, <2>2, <2>3
  <2> QED
    BY <1>4, <2>1, <2>2, <2>4
<1>7. CASE K!Pull(w)
  <2>1. v6[w].pc = "marked"
    BY <1>7 DEF K!Pull
  <2>2. PICK p \in Pulls :
          K!Settle(w, IF K!Same(v6[w].loaded, p) THEN K!Unchanged(v6[w].loaded)
                      ELSE K!Pulled(v6[w].loaded, p))
    BY <1>7 DEF K!Pull
  <2>3. /\ K!Unchanged(v6[w].loaded) \in K!AnyRow
        /\ K!Unchanged(v6[w].loaded).failures = 0
    BY <1>5, <2>1 DEF K!Unchanged, K!AnyRow, K!NextAt
  <2>4. /\ K!Pulled(v6[w].loaded, p) \in K!AnyRow
        /\ K!Pulled(v6[w].loaded, p).failures = 0
    BY <1>5, <2>1 DEF K!Pulled, K!AnyRow, K!NextAt, K!SyncAssumption
  <2> QED
    BY <1>1, <1>4, <2>1, <2>2, <2>3, <2>4
<1>8. CASE K!Fault(w)
  <2>1. v6' = [v6 EXCEPT ![w] = K!Resting] /\ v6[w].pc # "idle"
    BY <1>8 DEF K!Fault
  <2>2. IsFiniteSet(Busy') /\ Cardinality(Busy') = Cardinality(Busy) - 1
    BY <1>1, <2>1, WorkerRests
  <2>3. \A x \in Requests : v6'[x].pc # "idle" => v6'[x].loaded.failures <= MaxFailures
    BY <1>1, <2>1 DEF SyncTypes, K!Types, K!Resting
  <2> QED
    BY <1>1, <1>8, <2>2, <2>3 DEF K!Fault, SyncTypes
<1> QED
  BY <1>2, <1>3, <1>6, <1>7, <1>8 DEF K!Work

(* Every step of a sync, a tenant or the beat.                             *)
LEMMA SyncTypesStep ==
  ASSUME K!SyncAssumption, K!SyncInv, SyncTypes, [K!Next]_(K!vars)
  PROVE  SyncTypes'
<1>1. CASE \E w \in Requests : K!Work(w) \/ K!Fault(w)
  BY <1>1, WorkerTypes
<1> QED
  BY <1>1, OutsideTypes DEF K!Next

(* Nobody is busy at first.                                                *)
LEMMA SyncTypesStart == ASSUME K!SyncAssumption, K!Init PROVE SyncTypes
<1>1. \A w \in Requests : v6[w].pc = "idle"
  BY DEF K!Init, K!Resting
<1>2. Busy = {}
  BY <1>1 DEF Busy
<1>3. v3.failures = 0
  BY DEF K!Init, K!Added
<1> QED
  BY <1>1, <1>2, <1>3, FS_EmptySet DEF K!Init, SyncTypes, K!SyncAssumption

(* The columns of a source are part of SyncInv.                            *)
LEMMA SyncTypesEnd == ASSUME K!SyncAssumption, K!SyncInv, SyncTypes PROVE K!TypeOK
<1>1. K!Types /\ MaxTasks \in Nat /\ MaxFailures \in Nat /\ Cardinality(Busy) \in Nat
  BY FS_CardinalityType DEF K!SyncAssumption, K!SyncInv, SyncTypes
<1>2. ASSUME NEW r \in K!AnyRow, r.failures <= MaxFailures PROVE r \in K!Row
  BY <1>1, <1>2 DEF K!AnyRow, K!Row
<1>3. v3 \in K!Row
  BY <1>1, <1>2 DEF K!Types, SyncTypes
<1>4. v5 \in 0..MaxTasks
  BY <1>1 DEF SyncTypes
<1>5. ASSUME NEW w \in Requests
      PROVE  /\ v6[w].pc \in {"idle", "loaded", "marked"}
             /\ v6[w].pc # "idle" => v6[w].loaded \in K!Row
  BY <1>1, <1>2 DEF K!Types, K!Working, K!Resting, SyncTypes
<1> QED
  BY <1>3, <1>4, <1>5 DEF SyncTypes, K!TypeOK

-----------------------------------------------------------------------------
(* The run starts in one part, and that part starts as it does by itself.  *)
LEMMA AgentsBegin ==
  Init => /\ agents => A!Init
          /\ sync => K!Init
          /\ retrieval => R!Init
          /\ tools => T!Init
          /\ llm => L!Init
BY DEF Init, agents, sync, retrieval, connector, access, events, outbound, tools, llm,
       analytics, management, deliveries, users

(* A step is one of the part that runs, or leaves its variables alone.     *)
LEMMA AgentsMove ==
  [Next]_vars =>
    /\ agents' <=> agents
    /\ agents => [A!Next]_(A!vars)
    /\ sync' <=> sync
    /\ sync => [K!Next]_(K!vars)
    /\ retrieval' <=> retrieval
    /\ retrieval => [R!Next]_(R!vars)
    /\ tools' <=> tools
    /\ tools => [T!Next]_(T!vars)
    /\ llm' <=> llm
    /\ llm => [L!Next]_(L!vars)
BY DEF Next, vars, Only_agents, Only_sync, Only_retrieval, Only_connector, Only_access,
       Only_events, Only_outbound, Only_tools, Only_llm, Only_analytics,
       Only_management, Only_deliveries, Only_users, agents, sync, retrieval, connector,
       access, events, outbound, tools, llm, analytics, management, deliveries, users,
       A!vars, K!vars, R!vars, T!vars, L!vars

(* The history of an agent is never rewritten and is complete and faithful *)
(* after every commit, for any number of overlapping edits, roll-backs and *)
(* removals.                                                               *)
THEOREM HistoryStaysFaithful == Spec => HistoryIsFaithful
<1>1. Init => (agents => A!AgentInv)
  BY AgentsAssumed, AgentsBegin, AgentStart
<1>2. (agents => A!AgentInv) /\ [Next]_vars =>
        (agents => A!AgentInv)' /\ (agents => A!FaithfulStep)
  BY AgentsAssumed, AgentsMove, AgentStep
<1>3. (agents => A!AgentInv) => (agents => A!HistoryIsComplete)
  BY AgentEnd
<1>4. [Next]_vars => (agents' <=> agents)
  BY AgentsMove
<1>5. /\ agents' <=> agents
      /\ agents => A!FaithfulStep
      /\ (agents => A!HistoryIsComplete)'
      => (agents => A!FaithfulStep /\ A!HistoryIsComplete')
  OBVIOUS
<1> QED
  BY <1>1, <1>2, <1>3, <1>4, <1>5, PTL DEF Spec, HistoryIsFaithful

(* An edit or a roll-back that commits leaves the configuration it asked   *)
(* for, and a publish, pause or unpublish nothing but the status, though   *)
(* both had read the row before either wrote it.                           *)
THEOREM EditsAreKept == Spec => NoEditIsLost
<1>1. Init => (agents => A!AgentInv)
  BY AgentsAssumed, AgentsBegin, AgentStart
<1>2. (agents => A!AgentInv) /\ [Next]_vars =>
        (agents => A!AgentInv)' /\ (agents => A!EditStep /\ A!ApartStep)
  BY AgentsAssumed, AgentsMove, AgentStep
<1> QED
  BY <1>1, <1>2, PTL DEF Spec, NoEditIsLost

(* Unless a sync has worked with columns written since its load, the text  *)
(* is the one the cursor stands for, the failures are counted exactly, and *)
(* a scheduled source that was pulled has a next date, for any number of   *)
(* workers, redelivered and lost tasks.                                    *)
THEOREM SyncsAreExact == Spec => []UndisturbedSyncsAreExact
<1>1. Init => (sync => K!SyncInv)
  BY SyncAssumed, AgentsBegin, SyncStart
<1>2. (sync => K!SyncInv) /\ [Next]_vars => (sync => K!SyncInv)'
  BY SyncAssumed, AgentsMove, SyncStep
<1>3. (sync => K!SyncInv) => UndisturbedSyncsAreExact
  BY SyncEnd DEF UndisturbedSyncsAreExact
<1> QED
  BY <1>1, <1>2, <1>3, PTL DEF Spec

(* A source that is ready, or whose next pull may be found unchanged, has  *)
(* a text, however syncs, retries and failures overlap.                    *)
THEOREM ReadySourcesHaveText == Spec => []ReadyHasText
<1>1. Init => (sync => K!SyncInv /\ K!TextStays)
  BY SyncAssumed, AgentsBegin, SyncStart
<1>2. (sync => K!SyncInv /\ K!TextStays) /\ [Next]_vars => (sync => K!SyncInv /\ K!TextStays)'
  BY SyncAssumed, AgentsMove, SyncStep, TextStep
<1>3. (sync => K!SyncInv /\ K!TextStays) => ReadyHasText
  BY SyncEnd DEF ReadyHasText
<1> QED
  BY <1>1, <1>2, <1>3, PTL DEF Spec

(* For any numbers of bases, sources, slots and changes, and if nothing is *)
(* committed while a call runs: what is injected fits the budget or was    *)
(* pinned to it, a base with something above the floor is among the        *)
(* passages while the shares of the others leave it a slot, and silence is *)
(* that of the widened query too.                                          *)
THEOREM RetrievalStaysSound == Spec => []RetrievalIsSound
<1>1. Init => (retrieval => R!RetrievalInv)
  BY RetrievalAssumed, AgentsBegin, RetrievalStart
<1>2. (retrieval => R!RetrievalInv) /\ [Next]_vars => (retrieval => R!RetrievalInv)'
  BY RetrievalAssumed, AgentsMove, RetrievalStep
<1>3. (retrieval => R!RetrievalInv) => RetrievalIsSound
  BY RetrievalAssumed, RetrievalEnd DEF RetrievalIsSound
<1> QED
  BY <1>1, <1>2, <1>3, PTL DEF Spec

(* The cache of tool answers is bounded, serves an answer to the same      *)
(* arguments and for less than a time to live only, and a call reaches the *)
(* endpoint 1 + TOOLS_MAX_RETRIES times at most, for any numbers of these. *)
THEOREM ToolCallsStaySound == Spec => []ToolCallsAreSound
<1>1. Init => (tools => T!ToolInv)
  BY ToolsAssumed, AgentsBegin, ToolStart
<1>2. (tools => T!ToolInv) /\ [Next]_vars => (tools => T!ToolInv)'
  BY ToolsAssumed, AgentsMove, ToolStep
<1>3. (tools => T!ToolInv) => ToolCallsAreSound
  BY ToolsAssumed, ToolEnd DEF ToolCallsAreSound
<1> QED
  BY <1>1, <1>2, <1>3, PTL DEF Spec

(* What reaches the caller of the model client is one vendor's answer from *)
(* its beginning, and what is booked is what that vendor reported, for any *)
(* number of attempts and deltas.                                          *)
THEOREM AnswersStayWhole == Spec => []AnswersAreWhole
<1>1. Init => (llm => L!LlmInv)
  BY LlmAssumed, AgentsBegin, LlmStart
<1>2. (llm => L!LlmInv) /\ [Next]_vars => (llm => L!LlmInv)'
  BY LlmAssumed, AgentsMove, LlmStep
<1>3. (llm => L!LlmInv) => AnswersAreWhole
  BY LlmEnd DEF AnswersAreWhole
<1> QED
  BY <1>1, <1>2, <1>3, PTL DEF Spec

(* Everything these components keep is of its kind.                        *)
AgentKinds ==
  /\ agents => A!TypeOK
  /\ sync => K!TypeOK
  /\ retrieval => R!TypeOK
  /\ tools => T!TypeOK
  /\ llm => L!TypeOK

(* By the invariants, a component at a time.                              *)
LEMMA AgentKindsAreKept == Spec => []AgentKinds
<1>1. Spec => [](agents => A!TypeOK)
  <2>1. Init => (agents => A!AgentInv)
    BY AgentsAssumed, AgentsBegin, AgentStart
  <2>2. (agents => A!AgentInv) /\ [Next]_vars =>
          (agents => A!AgentInv)'
    BY AgentsAssumed, AgentsMove, AgentStep
  <2>3. (agents => A!AgentInv) => (agents => A!TypeOK)
    BY AgentsAssumed, AgentTypes
  <2> QED
    BY <2>1, <2>2, <2>3, PTL DEF Spec
<1>2. Spec => [](sync => K!TypeOK)
  <2>1. Init => (sync => K!SyncInv /\ SyncTypes)
    BY SyncAssumed, AgentsBegin, SyncStart, SyncTypesStart
  <2>2. (sync => K!SyncInv /\ SyncTypes) /\ [Next]_vars =>
          (sync => K!SyncInv /\ SyncTypes)'
    BY SyncAssumed, AgentsMove, SyncStep, SyncTypesStep
  <2>3. (sync => K!SyncInv /\ SyncTypes) => (sync => K!TypeOK)
    BY SyncAssumed, SyncTypesEnd
  <2> QED
    BY <2>1, <2>2, <2>3, PTL DEF Spec
<1>3. Spec => [](retrieval => R!TypeOK)
  <2>1. Init => (retrieval => R!RetrievalInv)
    BY RetrievalAssumed, AgentsBegin, RetrievalStart
  <2>2. (retrieval => R!RetrievalInv) /\ [Next]_vars =>
          (retrieval => R!RetrievalInv)'
    BY RetrievalAssumed, AgentsMove, RetrievalStep
  <2>3. (retrieval => R!RetrievalInv) => (retrieval => R!TypeOK)
    BY RetrievalAssumed, RetrievalTypes
  <2> QED
    BY <2>1, <2>2, <2>3, PTL DEF Spec
<1>4. Spec => [](tools => T!TypeOK)
  <2>1. Init => (tools => T!ToolInv /\ T!TypeOK)
    BY ToolsAssumed, AgentsBegin, ToolStart, ToolTypesStart
  <2>2. (tools => T!ToolInv /\ T!TypeOK) /\ [Next]_vars =>
          (tools => T!ToolInv /\ T!TypeOK)'
    BY ToolsAssumed, AgentsMove, ToolStep, ToolTypesStep
  <2>3. (tools => T!ToolInv /\ T!TypeOK) => (tools => T!TypeOK)
    OBVIOUS
  <2> QED
    BY <2>1, <2>2, <2>3, PTL DEF Spec
<1>5. Spec => [](llm => L!TypeOK)
  <2>1. Init => (llm => L!LlmInv /\ LlmTypes)
    BY LlmAssumed, AgentsBegin, LlmStart, LlmTypesStart
  <2>2. (llm => L!LlmInv /\ LlmTypes) /\ [Next]_vars =>
          (llm => L!LlmInv /\ LlmTypes)'
    BY LlmAssumed, AgentsMove, LlmStep, LlmTypesStep
  <2>3. (llm => L!LlmInv /\ LlmTypes) => (llm => L!TypeOK)
    BY LlmAssumed, LlmTypesEnd
  <2> QED
    BY <2>1, <2>2, <2>3, PTL DEF Spec
<1> QED
  BY <1>1, <1>2, <1>3, <1>4, <1>5, PTL DEF AgentKinds
=============================================================================
