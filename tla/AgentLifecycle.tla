--------------------------- MODULE AgentLifecycle ---------------------------
(***************************************************************************)
(* The agents of one tenant under overlapping requests: configuration with *)
(* a version history, roll-back, the status, the provider key and deletion *)
(* (src/src/modules/agents: AgentService, the endpoints that call it, and  *)
(* internal/transitions.py).                                               *)
(*                                                                         *)
(* A request is one transaction (get_session): it reads the agent once,    *)
(* decides on what it read, writes the columns that differ from what it    *)
(* read, and commits.  The database gives it a row lock from its first     *)
(* UPDATE or DELETE on and the unique index on (agent_id, version).  The   *)
(* fields an edit replaces are one configuration here; those in Complete   *)
(* have no publish blocker.  Whether a name is taken is left open.         *)
(* Requests that change nothing or are refused on what they read end where *)
(* they began and have no step.                                            *)
(***************************************************************************)
EXTENDS Naturals, FiniteSets

CONSTANTS
  Agents,      \* agents the tenant may have
  Requests,    \* requests that may overlap
  Configs,     \* configurations: name, persona, rules, model
  Complete,    \* those that may be published
  Keys,        \* provider keys; the model value or string "none" is no key
  MaxVersion   \* bound: the version an agent has come to at the start

NoOne == "no one"

AgentAssumption ==
  /\ NoOne \notin Requests
  /\ Complete \subseteq Configs
  /\ MaxVersion \in Nat \ {0}

Status == {"draft", "published", "paused"}
Row == [status : Status, version : Nat \ {0}, config : Configs,
        key : Keys \cup {"none"}]

VARIABLES
  live,      \* agents whose row is committed
  row,       \* agent -> its committed row
  versions,  \* agent -> committed snapshots, by version number
  lock,      \* agent -> the request that holds the row's lock
  work       \* request -> what it does, read and has written

vars == <<live, row, versions, lock, work>>

(* op, agent: the request; loaded: the columns as it read them; asked: the *)
(* columns it means to set; first: those it sets before; wrote: what its   *)
(* flushed UPDATEs set; snap: its uncommitted snapshot, by version; pc:    *)
(* its next statement.                                                     *)
Unsent == [op |-> "none", pc |-> "unsent", snap |-> <<>>]
Ended(how) == [op |-> "none", pc |-> how, snap |-> <<>>]

(* Mutant: versions are counted from nothing.                              *)
NewRow_Zero(config) ==
  [status |-> "draft", version |-> 0, config |-> config, key |-> "none"]

NewRow(config) ==
  [status |-> "draft", version |-> 1, config |-> config, key |-> "none"]

(* Any agents that earlier requests have left: each is in some status with *)
(* a history of the versions before its own.                               *)
Init ==
  /\ live \in SUBSET Agents
  /\ row \in [Agents -> [status : Status, version : 1..MaxVersion,
                         config : Configs, key : {"none"}]]
  /\ \A a \in Agents \ live : row[a] = NewRow(CHOOSE c \in Configs : TRUE)
  /\ versions \in [Agents -> UNION {[1..n -> Configs] : n \in 0..(MaxVersion - 1)}]
  /\ \A a \in Agents :
       DOMAIN versions[a] = IF a \in live THEN 1..(row[a].version - 1) ELSE {}
  /\ lock = [a \in Agents |-> NoOne]
  /\ work = [p \in Requests |-> Unsent]

-----------------------------------------------------------------------------
(* ALLOWED: the status moves.                                              *)
can_transition(current, target) ==
  target \in CASE current = "draft"     -> {"published"}
               [] current = "published" -> {"paused", "draft"}
               [] current = "paused"    -> {"published", "draft"}

publish_blockers(r) == r.config \notin Complete

(* Mutant: every column is written back as it was read.                    *)
Changed_Whole(loaded, asked) ==
  [f \in DOMAIN loaded |-> IF f \in DOMAIN asked THEN asked[f] ELSE loaded[f]]

(* A flush writes the attributes that differ from what was loaded.         *)
Changed(loaded, asked) ==
  [f \in {g \in DOMAIN asked : asked[g] # loaded[g]} |-> asked[f]]

Over(old, new) ==
  [f \in DOMAIN old \cup DOMAIN new |->
     IF f \in DOMAIN new THEN new[f] ELSE old[f]]

(* Of the answers of the name check, which depend on the other agents.     *)
name_taken == BOOLEAN

At(p, pc) == work[p].pc = pc
Goto(p, pc) == [work EXCEPT ![p].pc = pc]
On(a) == {p \in Requests : work[p].op # "none" /\ work[p].agent = a}

(* The transaction ends: its lock is freed and its own rows are seen by    *)
(* all (commit) or by none (roll-back).                                    *)
Release(p) == lock' = [a \in Agents |-> IF lock[a] = p THEN NoOne ELSE lock[a]]
Rollback(p) ==
  /\ work' = [work EXCEPT ![p] = Ended("failed")]
  /\ Release(p)
  /\ UNCHANGED <<live, row, versions>>

Request(op, a, loaded, asked, first, pc) ==
  [op |-> op, agent |-> a, loaded |-> loaded, asked |-> asked, first |-> first,
   wrote |-> <<>>, snap |-> <<>>, pc |-> pc]

Start(p, op, a, asked, first, pc) ==
  /\ At(p, "unsent")
  /\ a \in live
  /\ work' = [work EXCEPT ![p] = Request(op, a, row[a], asked, first, pc)]
  /\ UNCHANGED <<live, row, versions, lock>>

(* publish, pause, unpublish: decided on the row as it was read.           *)
Transition(p) ==
  \E a \in live, target \in Status :
    /\ can_transition(row[a].status, target)
    /\ target = "published" => ~publish_blockers(row[a])
    /\ Start(p, "transition", a, [status |-> target], <<>>, "write")

(* PATCH: a key that comes with it is stored first, on its own.            *)
Patch(p) ==
  \E a \in live, c \in Configs, key \in Keys \cup {"none"} :
    Start(p, "patch", a, [config |-> c], [key |-> key],
          IF key = "none" THEN "check" ELSE "key")

(* PATCH with a key alone, and DELETE of the key.                          *)
SetKey(p) ==
  \E a \in live, key \in Keys \cup {"none"} :
    Start(p, "key", a, [key |-> key], <<>>, "write")

(* rollback reads the snapshot it restores before it writes its own.       *)
RollBack(p) ==
  \E a \in live : \E v \in DOMAIN versions[a] :
    Start(p, "rollback", a, [config |-> versions[a][v]], <<>>, "snapshot")

Delete(p) ==
  \E a \in live : Start(p, "delete", a, <<>>, <<>>, "delete")

(* create: the name is checked, then the row is inserted and committed.    *)
Create(p) ==
  \E a \in Agents \ live, c \in Configs :
    /\ At(p, "unsent")
    /\ On(a) = {}
    /\ work' = [work EXCEPT ![p] = Request("create", a, NewRow(c), <<>>, <<>>, "commit")]
    /\ UNCHANGED <<live, row, versions, lock>>

-----------------------------------------------------------------------------
(* UPDATE of the row: waits for its lock, fails when the row is gone, and  *)
(* reads the row back with the columns it set.                             *)
Update(p, asked, next) ==
  LET w == work[p]
      set == Changed(w.loaded, asked)
  IN IF w.agent \in live
     THEN /\ lock[w.agent] \in {NoOne, p}
          /\ lock' = IF DOMAIN set = {} THEN lock
                     ELSE [lock EXCEPT ![w.agent] = p]
          /\ work' = [work EXCEPT ![p].wrote = Over(w.wrote, set),
                        ![p].loaded = Over(Over(row[w.agent], w.wrote), set),
                        ![p].pc = next]
          /\ UNCHANGED <<live, row, versions>>
     ELSE Rollback(p)

(* set_model_api_key inside a PATCH.                                       *)
StoreKey(p) == At(p, "key") /\ Update(p, work[p].first, "check")

(* _require_unique_name.                                                   *)
CheckName(p) ==
  /\ At(p, "check")
  /\ \E taken \in name_taken :
       IF taken THEN Rollback(p)
       ELSE work' = Goto(p, "snapshot") /\ UNCHANGED <<live, row, versions, lock>>

(* Whom p's INSERT of its snapshot waits for: one that inserted the same   *)
(* (agent_id, version), or one that deletes the agent, until it ends.      *)
Ahead(p) ==
  {q \in On(work[p].agent) \ {p} :
     \/ work[p].loaded.version \in DOMAIN work[q].snap
     \/ work[q].op = "delete" /\ lock[work[q].agent] = q}

Duplicate(p) == work[p].loaded.version \in DOMAIN versions[work[p].agent]

(* Mutant: what the edit asks for is kept instead of what it replaces.     *)
Superseded_New(w) == w.asked.config

Superseded(w) == w.loaded.config

(* _snapshot of the configuration that was read, at the version read.      *)
Snapshot(p) ==
  LET w == work[p]
  IN /\ At(p, "snapshot")
     /\ Ahead(p) = {}
     /\ IF Duplicate(p) \/ w.agent \notin live
        THEN Rollback(p)
        ELSE /\ work' = [work EXCEPT ![p].pc = "write",
                  ![p].snap = [v \in {w.loaded.version} |-> Superseded(w)]]
             /\ UNCHANGED <<live, row, versions, lock>>

(* update and rollback set version = agent.version + 1 with their columns. *)
Bumped(w) ==
  IF w.snap = <<>> THEN w.asked ELSE Over(w.asked, [version |-> w.loaded.version + 1])

Write(p) == At(p, "write") /\ Update(p, Bumped(work[p]), "commit")

(* Whom a DELETE of the row waits for: its lock's holder and snapshots     *)
(* that reference the row.                                                 *)
Referrers(p) == {q \in On(work[p].agent) \ {p} : DOMAIN work[q].snap # {}}

Remove(p) ==
  LET a == work[p].agent
  IN /\ At(p, "delete")
     /\ lock[a] = NoOne
     /\ Referrers(p) = {}
     /\ lock' = IF a \in live THEN [lock EXCEPT ![a] = p] ELSE lock
     /\ work' = Goto(p, "commit")
     /\ UNCHANGED <<live, row, versions>>

(* get_session commits when the handler returned.                          *)
Commit(p) ==
  LET w == work[p]
  IN /\ At(p, "commit")
     /\ CASE w.op = "delete" ->
               /\ live' = live \ {w.agent}
               /\ versions' = [versions EXCEPT ![w.agent] = <<>>]
               /\ UNCHANGED row
          [] w.op = "create" ->
               /\ live' = live \cup {w.agent}
               /\ row' = [row EXCEPT ![w.agent] = w.loaded]
               /\ UNCHANGED versions
          [] OTHER ->
               /\ row' = [row EXCEPT ![w.agent] = Over(@, w.wrote)]
               /\ versions' = [versions EXCEPT ![w.agent] = Over(@, w.snap)]
               /\ UNCHANGED live
     /\ work' = [work EXCEPT ![p] = Ended("committed")]
     /\ Release(p)

(* The connection is lost, or the response cannot be built: roll-back.     *)
Fail(p) == work[p].op # "none" /\ Rollback(p)

(* Whom p's next statement waits for.                                      *)
Waits(p) ==
  LET holder == {lock[work[p].agent]} \cap (Requests \ {p})
  IN CASE work[p].pc \in {"key", "write"} -> holder
       [] At(p, "snapshot") -> Ahead(p)
       [] At(p, "delete") -> holder \cup Referrers(p)
       [] OTHER -> {}

(* Mutant: nobody looks for deadlocks.                                     *)
Deadlocked_Never(p) == FALSE

(* p waits for one that waits for p.                                       *)
Deadlocked(p) ==
  \E S \in SUBSET Requests :
    /\ p \in S
    /\ \A q \in S : Waits(q) \cap S # {} /\ \E r \in S : q \in Waits(r)

(* The database ends one of the transactions of a deadlock.                *)
BreakDeadlock(p) == Deadlocked(p) /\ Rollback(p)

Begin(p) ==
  \/ Transition(p) \/ Patch(p) \/ SetKey(p) \/ RollBack(p) \/ Delete(p) \/ Create(p)

Step(p) ==
  \/ StoreKey(p) \/ CheckName(p) \/ Snapshot(p) \/ Write(p)
  \/ Remove(p) \/ Commit(p) \/ BreakDeadlock(p)

HasEnded(p) == work[p].pc \in {"committed", "failed"}

Finished == (\A p \in Requests : HasEnded(p)) /\ UNCHANGED vars

Next == (\E p \in Requests : Begin(p) \/ Step(p) \/ Fail(p)) \/ Finished

(* A request's statements get their turn once nothing blocks them.         *)
Fairness == \A p \in Requests : WF_vars(Step(p))

Spec == Init /\ [][Next]_vars /\ Fairness

-----------------------------------------------------------------------------
Committed(a) == a \in live /\ a \in live'

TypeOK ==
  /\ live \subseteq Agents
  /\ row \in [Agents -> Row]
  /\ lock \in [Agents -> Requests \cup {NoOne}]
  /\ \A a \in Agents : \A v \in DOMAIN versions[a] : versions[a][v] \in Configs

(* The history has one snapshot for every version that was superseded and  *)
(* none else, whatever overlapped: versions 1 to version - 1.              *)
HistoryIsComplete ==
  \A a \in live : DOMAIN versions[a] = 1..(row[a].version - 1)

(* History is never rewritten, and the snapshot of a version is the        *)
(* configuration that was current at that version: a configuration changes *)
(* with a new version only, and then the one before is in the history.     *)
FaithfulStep ==
  \A a \in Agents : Committed(a) =>
       /\ \A v \in DOMAIN versions[a] :
            v \in DOMAIN versions'[a] /\ versions'[a][v] = versions[a][v]
       /\ row'[a].config # row[a].config =>
            /\ row'[a].version = row[a].version + 1
            /\ versions'[a][row[a].version] = row[a].config

HistoryIsFaithful == [][FaithfulStep]_vars

(* No edit is lost or half written: when an edit or a roll-back commits,   *)
(* the configuration is the one it asked for, so a roll-back restores      *)
(* exactly its version.                                                    *)
EditStep ==
  \A p \in Requests :
       LET w == work[p]
       IN (w.op \in {"patch", "rollback"} /\ work'[p] = Ended("committed")) =>
            row'[w.agent].config = w.asked.config

NoEditIsLost == [][EditStep]_vars

(* The status and the configuration do not undo each other: an edit or a   *)
(* roll-back commits no status, a status move commits nothing else, even   *)
(* when both had read the row before either wrote it.                      *)
ApartStep ==
  \A a \in Agents : Committed(a) =>
       \/ row'[a].status = row[a].status
       \/ row'[a] = [row[a] EXCEPT !.status = row'[a].status]

EditsAndMovesKeepApart == [][ApartStep]_vars

(* Every request ends: a PATCH with a key holds the row and waits for the  *)
(* snapshot of an edit that waits for the row, and one of them is ended.   *)
EveryRequestEnds ==
  \A p \in Requests : ~At(p, "unsent") ~> HasEnded(p)

-----------------------------------------------------------------------------
(* Why the history is faithful and no edit is lost: the invariant their    *)
(* proof rests on.                                                         *)
Columns == {"status", "version", "config", "key"}
Values(c) == CASE c = "status" -> Status [] c = "version" -> Nat \ {0}
               [] c = "config" -> Configs [] c = "key" -> Keys \cup {"none"}
Sets(f, columns) == DOMAIN f \subseteq columns /\ \A c \in DOMAIN f : f[c] \in Values(c)

Working(w) ==
  /\ DOMAIN w = {"op", "agent", "loaded", "asked", "first", "wrote", "snap", "pc"}
  /\ w.op \in {"transition", "key", "patch", "rollback", "delete", "create"}
  /\ w.agent \in Agents /\ w.loaded \in Row
  /\ Sets(w.asked, {"status", "config", "key"}) /\ Sets(w.first, {"key"})
  /\ Sets(w.wrote, Columns)
Outside(w) == w \in {Unsent, Ended("committed"), Ended("failed")}

Types ==
  /\ live \subseteq Agents
  /\ row \in [Agents -> Row]
  /\ DOMAIN versions = Agents
  /\ lock \in [Agents -> Requests \cup {NoOne}]
  /\ DOMAIN work = Requests
  /\ \A p \in Requests : Working(work[p]) \/ Outside(work[p])

HistoryOfTheLiving ==
  \A a \in Agents :
    /\ DOMAIN versions[a] = IF a \in live THEN 1..(row[a].version - 1) ELSE {}
    /\ \A v \in DOMAIN versions[a] : versions[a][v] \in Configs

(* What a request on the row r has read, wrote and keeps as a snapshot, at *)
(* each of its statements.  A configuration that was read at the current   *)
(* version is the current one.                                             *)
Current(w, r) == w.loaded.version = r.version /\ w.loaded.config = r.config
Read(w, r) == w.loaded.version < r.version \/ Current(w, r)

(* The snapshot is of the row as it is, and the only one.                  *)
Kept(w, r) == DOMAIN w.snap = {r.version} /\ w.snap[r.version] = r.config

Moving(p) ==
  LET w == work[p]
  IN /\ DOMAIN w.asked = {IF w.op = "key" THEN "key" ELSE "status"}
     /\ w.pc \in {"write", "commit"} /\ w.snap = <<>>
     /\ DOMAIN w.wrote \subseteq IF w.pc = "write" THEN {} ELSE DOMAIN w.asked

Editing(p) ==
  LET w == work[p]
      r == row[w.agent]
  IN /\ DOMAIN w.asked = {"config"}
     /\ \/ /\ w.pc \in {"key", "check", "snapshot"} /\ DOMAIN w.snap = {}
           /\ w.agent \in live => Read(w, r)
           /\ DOMAIN w.wrote \subseteq IF w.pc = "key" THEN {} ELSE {"key"}
        \/ /\ w.pc = "write" /\ w.agent \in live /\ Kept(w, r) /\ Current(w, r)
           /\ DOMAIN w.wrote \subseteq {"key"}
        \/ /\ w.pc = "commit" /\ w.agent \in live /\ Kept(w, r)
           /\ DOMAIN w.wrote \subseteq {"key", "config", "version"}
           /\ "version" \in DOMAIN w.wrote /\ w.wrote.version = r.version + 1
           /\ w.asked.config = IF "config" \in DOMAIN w.wrote THEN w.wrote.config
                               ELSE r.config

Deleting(p) ==
  LET w == work[p]
  IN /\ DOMAIN w.snap = {} /\ DOMAIN w.wrote = {}
     /\ \/ w.pc = "delete" /\ lock[w.agent] # p
        \/ w.pc = "commit" /\ (lock[w.agent] = p \/ w.agent \notin live)

Creating(p) ==
  LET w == work[p]
  IN /\ w.pc = "commit" /\ w.agent \notin live
     /\ DOMAIN w.snap = {} /\ DOMAIN w.wrote = {} /\ w.loaded.version = 1

Sound(p) ==
  LET w == work[p]
  IN /\ \A a \in Agents : lock[a] = p => w.op # "none" /\ w.agent = a
     /\ w.op # "none" /\ DOMAIN w.wrote # {} => lock[w.agent] = p
     /\ w.op \in {"transition", "key"} => Moving(p)
     /\ w.op \in {"patch", "rollback"} => Editing(p)
     /\ w.op = "delete" => Deleting(p)
     /\ w.op = "create" => Creating(p)

(* One snapshot of an agent is uncommitted at most, and none while the     *)
(* agent is being deleted; who makes an agent is alone with it.            *)
Apart(p, q) ==
  p # q /\ work[p].op # "none" /\ work[q].op # "none" /\ work[p].agent = work[q].agent =>
    /\ work[p].op # "create"
    /\ DOMAIN work[p].snap # {} =>
         DOMAIN work[q].snap = {} /\ ~(work[q].op = "delete" /\ lock[work[q].agent] = q)

AgentInv ==
  /\ Types /\ HistoryOfTheLiving
  /\ \A p \in Requests : Sound(p)
  /\ \A p, q \in Requests : Apart(p, q)
=============================================================================
