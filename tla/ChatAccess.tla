----------------------------- MODULE ChatAccess -----------------------------
(***************************************************************************)
(* Requests that come in with one API key, and what happens to the key,    *)
(* its agent and its tenant meanwhile                                      *)
(* (src/src/modules/channels/web/presentation: get_api_caller and the chat *)
(* routes; src/src/modules/api_keys, src/src/core/rate_limit.py,           *)
(* src/src/modules/tenants, src/src/modules/admin).                        *)
(*                                                                         *)
(* A request is one transaction of several statements.  Three of them      *)
(* meet others: record_use updates the key's row and so holds its lock     *)
(* until the turn is committed, the turn's own rows refer to the agent and *)
(* the tenant and keep them, and a DELETE of the agent or the tenant holds *)
(* its row while it cascades to the key.  What the turn itself does is     *)
(* ConversationTurns; here it is refused, fails or is written.             *)
(***************************************************************************)
EXTENDS Naturals, FiniteSets

CONSTANTS
  Callers,    \* requests that come in with the key
  Processes,  \* server processes that may answer them
  MaxLimit,   \* bound: rate_limit_per_minute
  MaxWindow,  \* bound: windows of the limiter that pass
  MaxOutages, \* bound: counts the limiter's backend fails to take
  MaxChanges  \* bound: changes made to the key, the agent and the tenant

NoOne == "no one"

AccessAssumption ==
  /\ MaxLimit \in Nat \ {0}
  /\ MaxWindow \in Nat /\ MaxOutages \in Nat /\ MaxChanges \in Nat
  /\ IsFiniteSet(Callers) /\ NoOne \notin Callers

VARIABLES
  shared,   \* whether the limiter counts in Redis or in each process
  key,      \* the committed key: "live", "revoked" or "gone"
  limit,    \* its rate_limit_per_minute
  serving,  \* whether the tenant is active and the agent published
  owner,    \* the agent and the tenant: "there", "leaving" or "gone"
  holder,   \* the request that holds the lock of the key's row
  window,   \* the limiter's current window
  counts,   \* counter -> requests counted
  caller,   \* request -> what it has read and its next statement
  outages,  \* counts that failed
  changes   \* changes made

vars == <<shared, key, limit, serving, owner, holder, window, counts, caller,
          outages, changes>>

Init ==
  /\ shared \in BOOLEAN
  /\ key = "live" /\ limit \in 1..MaxLimit
  /\ serving = [tenant |-> TRUE, agent |-> TRUE]
  /\ owner = "there"
  /\ holder = NoOne
  /\ window = 0
  /\ counts = <<>>
  /\ caller = [p \in Callers |-> [pc |-> "unsent"]]
  /\ outages = 0 /\ changes = 0

At(p, pc) == caller[p].pc = pc
Goto(p, pc) == [caller EXCEPT ![p].pc = pc]
Release(p) == holder' = IF holder = p THEN NoOne ELSE holder
World == <<shared, key, limit, serving, owner, window, changes>>

(* An error envelope: the transaction is rolled back.                      *)
Refused(p) == caller' = [caller EXCEPT ![p] = [pc |-> "refused"]]

-----------------------------------------------------------------------------
(* ApiKeyService.authenticate: the key by its hash, whichever process      *)
(* serves the request.                                                     *)
ReadKey(p) ==
  /\ At(p, "unsent")
  /\ \E w \in Processes :
       caller' = [caller EXCEPT ![p] =
         IF key = "live" THEN [pc |-> "tenant", process |-> w, limit |-> limit]
         ELSE [pc |-> "refused"]]
  /\ UNCHANGED <<World, holder, counts, outages>>

(* ... then its tenant, then its agent, each a statement of its own.       *)
ReadTenant(p) ==
  /\ At(p, "tenant")
  /\ IF owner # "gone" /\ serving.tenant THEN caller' = Goto(p, "agent") ELSE Refused(p)
  /\ UNCHANGED <<World, holder, counts, outages>>

ReadAgent(p) ==
  /\ At(p, "agent")
  /\ IF owner # "gone" /\ serving.agent THEN caller' = Goto(p, "count") ELSE Refused(p)
  /\ UNCHANGED <<World, holder, counts, outages>>

(* Which counter a hit goes to.                                            *)
Counter(p) == <<IF shared THEN "redis" ELSE caller[p].process, window>>

(* Buckets that are kept: the memory backend drops those before the last   *)
(* window, Redis lets them expire.                                         *)
Kept == {c \in DOMAIN counts : c[2] + 1 >= window}

(* Mutant: the total before the hit is compared with the limit.            *)
Used_Before(c) == IF c \in DOMAIN counts THEN counts[c] ELSE 0

(* increment: the total with this hit.                                     *)
Used(c) == IF c \in DOMAIN counts THEN counts[c] + 1 ELSE 1

Hit(c) ==
  [d \in Kept \cup {c} |->
     IF d # c THEN counts[d] ELSE IF c \in DOMAIN counts THEN counts[c] + 1 ELSE 1]

(* RateLimiter.check.                                                      *)
Check(p) ==
  /\ At(p, "count")
  /\ counts' = Hit(Counter(p))
  /\ IF Used(Counter(p)) <= caller[p].limit
     THEN caller' = [caller EXCEPT ![p] =
            [pc |-> "use", process |-> caller[p].process, limit |-> caller[p].limit,
             counter |-> Counter(p)]]
     ELSE Refused(p)
  /\ UNCHANGED <<World, holder, outages>>

(* A backend that cannot be reached lets the request through.              *)
CheckFails(p) ==
  /\ At(p, "count") /\ shared
  /\ outages < MaxOutages /\ outages' = outages + 1
  /\ caller' = Goto(p, "use")
  /\ UNCHANGED <<World, holder, counts>>

-----------------------------------------------------------------------------
(* The UPDATE of last_used_at waits for the row's lock and takes it.       *)
Stamped(p) == holder = NoOne /\ holder' = p

(* record_use: a row that is gone by now is an error.                      *)
RecordUse(p) ==
  /\ At(p, "use")
  /\ IF key = "gone"
     THEN Refused(p) /\ UNCHANGED holder
     ELSE Stamped(p) /\ caller' = Goto(p, "turn")
  /\ UNCHANGED <<World, counts, outages>>

(* The origin, the scope or the channel is refused, or the turn fails.     *)
Refuse(p) ==
  /\ caller[p].pc \in {"turn", "commit"}
  /\ Refused(p) /\ Release(p)
  /\ UNCHANGED <<World, counts, outages>>

(* The turn's first row refers to the agent and the tenant: it waits for   *)
(* one that is deleting them, and fails when they are gone.                *)
WriteTurn(p) ==
  /\ At(p, "turn")
  /\ owner # "leaving"
  /\ IF owner = "there"
     THEN caller' = Goto(p, "commit") /\ UNCHANGED holder
     ELSE Refused(p) /\ Release(p)
  /\ UNCHANGED <<World, counts, outages>>

Commit(p) ==
  /\ At(p, "commit")
  /\ caller' = Goto(p, "served") /\ Release(p)
  /\ UNCHANGED <<World, counts, outages>>

-----------------------------------------------------------------------------
Change == changes < MaxChanges /\ changes' = changes + 1

(* ApiKeyService.revoke, delete and update; each writes the key's row.     *)
ChangeKey ==
  /\ key # "gone" /\ holder = NoOne
  /\ Change
  /\ \/ key' \in {"revoked", "gone"} /\ UNCHANGED limit
     \/ limit' \in 1..MaxLimit /\ UNCHANGED key
  /\ UNCHANGED <<shared, serving, owner, holder, window, counts, caller, outages>>

(* set_enabled of the tenant, publish and pause of the agent: their rows   *)
(* may be referred to meanwhile.                                           *)
Switch ==
  /\ owner = "there"
  /\ Change
  /\ \E which \in DOMAIN serving : serving' = [serving EXCEPT ![which] = ~@]
  /\ UNCHANGED <<shared, key, limit, owner, holder, window, counts, caller, outages>>

(* Mutant: a turn's rows do not keep what they refer to.                   *)
Referring_None == {}

(* Requests whose rows refer to the agent and the tenant.                  *)
Referring == {p \in Callers : At(p, "commit")}

(* AgentService.delete and delete_tenant: first the row itself ...         *)
Delete ==
  /\ owner = "there" /\ Referring = {}
  /\ Change
  /\ owner' = "leaving"
  /\ UNCHANGED <<shared, key, limit, serving, holder, window, counts, caller, outages>>

(* ... then, by cascade, the key and everything else, and the commit.      *)
Cascade ==
  /\ owner = "leaving" /\ holder = NoOne
  /\ owner' = "gone" /\ key' = "gone"
  /\ UNCHANGED <<shared, limit, serving, holder, window, counts, caller, outages, changes>>

(* The turn waits for the deletion, and the deletion for the key's row.    *)
Deadlocked(p) == owner = "leaving" /\ holder = p /\ At(p, "turn")

(* The database ends one of the two.                                       *)
BreakDeadlock(p) ==
  /\ Deadlocked(p)
  /\ \/ Refused(p) /\ Release(p) /\ UNCHANGED owner
     \/ owner' = "there" /\ UNCHANGED <<caller, holder>>
  /\ UNCHANGED <<shared, key, limit, serving, window, counts, outages, changes>>

NextWindow ==
  /\ window < MaxWindow
  /\ window' = window + 1
  /\ UNCHANGED <<shared, key, limit, serving, owner, holder, counts, caller,
                 outages, changes>>

Statement(p) ==
  \/ ReadTenant(p) \/ ReadAgent(p) \/ Check(p) \/ RecordUse(p) \/ WriteTurn(p)
  \/ Commit(p) \/ BreakDeadlock(p)

Console == ChangeKey \/ Switch \/ Delete \/ Cascade

HasEnded(p) == caller[p].pc \in {"served", "refused"}

Finished == (\A p \in Callers : HasEnded(p)) /\ UNCHANGED vars

Next ==
  \/ \E p \in Callers : ReadKey(p) \/ Statement(p) \/ CheckFails(p) \/ Refuse(p)
  \/ Console \/ NextWindow \/ Finished

Fairness == WF_vars(Cascade) /\ \A p \in Callers : WF_vars(Statement(p))

Spec == Init /\ [][Next]_vars /\ Fairness

-----------------------------------------------------------------------------
TypeOK ==
  /\ key \in {"live", "revoked", "gone"} /\ limit \in 1..MaxLimit
  /\ owner \in {"there", "leaving", "gone"}
  /\ holder \in Callers \cup {NoOne}
  /\ \A c \in DOMAIN counts : c \in (Processes \cup {"redis"}) \X (0..MaxWindow)
  /\ \A p \in Callers : At(p, "use") => caller[p].limit \in 1..MaxLimit

Admitted(c) == {p \in Callers : "counter" \in DOMAIN caller[p] /\ caller[p].counter = c}

(* What one counter admits in a window stays within the highest limit that *)
(* its requests came with, however they overlap and whichever of them read *)
(* the limit before it was changed; only requests that an outage let       *)
(* through come on top.  With Redis there is one counter, else one per     *)
(* process.                                                                *)
AllowanceHolds ==
  \A p \in Callers : "counter" \in DOMAIN caller[p] =>
    LET through == Admitted(caller[p].counter)
    IN \E q \in through : Cardinality(through) <= caller[q].limit

(* One turn at a time for all the visitors of a key: the stamp holds the   *)
(* key's row until the turn is committed.  So no revocation, deletion or   *)
(* new limit comes between a turn's stamp and its commit.                  *)
OneTurnPerKey ==
  \A p, q \in Callers :
    {caller[p].pc, caller[q].pc} \subseteq {"turn", "commit"} => p = q

(* A turn is committed only for an agent, a tenant and a key that are      *)
(* there, although it read them long before.                               *)
ServesTheLivingStep ==
  \A p \in Callers :
    At(p, "commit") /\ caller'[p].pc = "served" => owner = "there" /\ key # "gone"

ServesTheLiving == [][ServesTheLivingStep]_vars

(* Every request is answered, also when a deletion and its turn wait for   *)
(* each other.                                                             *)
EveryCallerIsAnswered == \A p \in Callers : ~At(p, "unsent") ~> HasEnded(p)

-----------------------------------------------------------------------------
(* Why they hold: the invariants their proofs rest on.                     *)
Counters == (Processes \cup {"redis"}) \X Nat

Outside == [pc : {"unsent", "refused"}]
Uncounted == [pc : {"tenant", "agent", "count", "use", "turn", "commit", "served"},
              process : Processes, limit : Nat]
Counted == [pc : {"use", "turn", "commit", "served"}, process : Processes,
            limit : Nat, counter : Counters]

Types ==
  /\ caller \in [Callers -> Outside \cup Uncounted \cup Counted]
  /\ limit \in Nat /\ window \in Nat
  /\ \A c \in DOMAIN counts : counts[c] \in Nat

(* The stamp holds the key's row from then to the commit, and the turn's   *)
(* rows keep the agent and the tenant.                                     *)
StampHolds ==
  \A p \in Callers :
    /\ caller[p].pc \in {"turn", "commit"} => holder = p /\ key # "gone"
    /\ At(p, "commit") => owner = "there"

(* However many of the admitted are left, one of them came with a limit    *)
(* that many fit into.                                                     *)
WithinLimit ==
  \A c \in Counters : \A S \in SUBSET Admitted(c) :
    S # {} => \E q \in S : Cardinality(S) <= caller[q].limit

(* The current counters have counted whoever they admitted.                *)
CountedAll ==
  /\ \A p \in Callers : "counter" \in DOMAIN caller[p] => caller[p].counter[2] <= window
  /\ \A c \in Counters : c[2] = window =>
       Cardinality(Admitted(c)) <= IF c \in DOMAIN counts THEN counts[c] ELSE 0

LivingInv == Types /\ StampHolds
AllowanceInv == Types /\ WithinLimit /\ CountedAll
=============================================================================
