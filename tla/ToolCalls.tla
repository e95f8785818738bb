------------------------------ MODULE ToolCalls ------------------------------
(***************************************************************************)
(* Calls of one HTTP tool by the conversations of one process: the shared  *)
(* cache of answers, the attempts at the endpoint, and changes of the tool *)
(* and its policy meanwhile (src/src/modules/tools: ToolService.invoke,    *)
(* update and set_policy, internal/cache.py, internal/http_executor.py).   *)
(*                                                                         *)
(* A call reads the tool, waits for the database, looks into the cache,    *)
(* waits for the endpoint, and puts the answer into the cache; others run  *)
(* wherever it waits.  An answer is known by its arguments, the version of *)
(* the tool that was asked and the time it came.  What the call log and    *)
(* the tool's counters record is ToolTurns.                                *)
(***************************************************************************)
EXTENDS Naturals, FiniteSets

CONSTANTS
  Calls,       \* calls that may overlap
  Arguments,   \* arguments a call may have
  MaxEntries,  \* MAX_ENTRIES
  MaxRetries,  \* TOOLS_MAX_RETRIES
  MaxTtl,      \* bound: cache_ttl_seconds
  MaxTime,     \* bound: seconds that pass
  MaxVersion   \* bound: changes of the tool and its policy

ToolAssumption ==
  /\ MaxEntries \in Nat \ {0}
  /\ {MaxRetries, MaxTtl, MaxTime, MaxVersion} \subseteq Nat

VARIABLES
  tool,     \* [version, ttl, enabled, allowed]: the tool and its policy
  entries,  \* arguments -> the cached answer and when it expires
  now,      \* seconds
  call      \* call -> its arguments, what it read and what came of it

vars == <<tool, entries, now, call>>

Tool == [version : 0..MaxVersion, ttl : 0..MaxTtl, enabled : BOOLEAN, allowed : BOOLEAN]

Init ==
  /\ tool \in [version : {0}, ttl : 0..MaxTtl, enabled : {TRUE}, allowed : {TRUE}]
  /\ entries = <<>>
  /\ now = 0
  /\ call \in [Calls -> [pc : {"unsent"}, args : Arguments]]

At(c, pc) == call[c].pc = pc

Ended(c, how) == call' = [call EXCEPT ![c] = [pc |-> how, args |-> call[c].args]]

(* A new state of the call, with more recorded of it.                      *)
With(c, more) == [f \in DOMAIN call[c] \cup DOMAIN more |->
                    IF f \in DOMAIN more THEN more[f] ELSE call[c][f]]
Becomes(c, more) == call' = [call EXCEPT ![c] = With(c, more)]

-----------------------------------------------------------------------------
(* by_name; one that is disabled by now is refused.                        *)
Load(c) ==
  /\ At(c, "unsent")
  /\ IF tool.enabled
     THEN Becomes(c, [pc |-> "lookup", tool |-> tool, sent |-> 0, waited |-> 0])
     ELSE Ended(c, "refused")
  /\ UNCHANGED <<tool, entries, now>>

Expired(e) == e.expires <= now

(* _from_cache: get, which drops an entry it finds expired.                *)
Hit(c) ==
  /\ call[c].tool.ttl > 0
  /\ call[c].args \in DOMAIN entries
  /\ ~Expired(entries[call[c].args])

Without(keys) == [a \in DOMAIN entries \ keys |-> entries[a]]

(* The policy is read before the cache is, and used after it.              *)
Lookup(c) ==
  /\ At(c, "lookup")
  /\ IF Hit(c)
     THEN /\ Becomes(c, [pc |-> "cached", answer |-> entries[call[c].args], served |-> now])
          /\ UNCHANGED entries
     ELSE /\ IF tool.allowed THEN Becomes(c, [pc |-> "send"]) ELSE Ended(c, "refused")
          /\ entries' = IF call[c].tool.ttl > 0 THEN Without({call[c].args}) ELSE entries
  /\ UNCHANGED <<tool, now>>

-----------------------------------------------------------------------------
(* Mutant: a call that timed out is tried again.                           *)
Retried_Always(c, how) == call[c].sent < MaxRetries

(* A 502, 503 or 504 or a lost connection is tried again while attempts    *)
(* are left; a timeout has used the customer's patience up.                *)
Retried(c, how) == how = "unreachable" /\ call[c].sent < MaxRetries

Fails(c) ==
  /\ At(c, "send")
  /\ \E how \in {"timeout", "unreachable", "rejected"} :
       IF Retried(c, how)
       THEN Becomes(c, [sent |-> call[c].sent + 1,
                        waited |-> call[c].waited + IF how = "timeout" THEN 1 ELSE 0])
       ELSE Becomes(c, [pc |-> "failed", sent |-> call[c].sent + 1,
                        waited |-> call[c].waited + IF how = "timeout" THEN 1 ELSE 0])
  /\ UNCHANGED <<tool, entries, now>>

(* Mutant: only what has expired is dropped.                               *)
Evicted_Expired == {{a \in DOMAIN entries : Expired(entries[a])}}

(* _evict: what has expired, else one that expires first.                  *)
Evicted ==
  LET expired == {a \in DOMAIN entries : Expired(entries[a])}
      soonest == {a \in DOMAIN entries :
                    \A b \in DOMAIN entries : entries[a].expires <= entries[b].expires}
  IN IF expired # {} THEN {expired} ELSE {{a} : a \in soonest}

(* put: room is made when the map is full, also for a key it has.          *)
Put(a, answer) ==
  \E dropped \in IF Cardinality(DOMAIN entries) >= MaxEntries THEN Evicted ELSE {{}} :
    entries' = [b \in (DOMAIN entries \ dropped) \cup {a} |->
                  IF b = a THEN answer ELSE entries[b]]

(* The answer is put with the time to live the call had read.              *)
Answers(c) ==
  LET answer == [of |-> call[c].args, version |-> call[c].tool.version, came |-> now,
                 expires |-> now + call[c].tool.ttl]
  IN /\ At(c, "send")
     /\ Becomes(c, [pc |-> "answered", answer |-> answer, sent |-> call[c].sent + 1])
     /\ IF call[c].tool.ttl > 0 THEN Put(call[c].args, answer) ELSE UNCHANGED entries
     /\ UNCHANGED <<tool, now>>

-----------------------------------------------------------------------------
(* update and set_policy: the cache is not told.                           *)
Update ==
  /\ tool.version < MaxVersion
  /\ tool' \in {t \in Tool : t.version = tool.version + 1}
  /\ UNCHANGED <<entries, now, call>>

Tick ==
  /\ now < MaxTime
  /\ now' = now + 1
  /\ UNCHANGED <<tool, entries, call>>

HasEnded(c) == call[c].pc \in {"refused", "cached", "failed", "answered"}

Finished == (\A c \in Calls : HasEnded(c)) /\ UNCHANGED vars

Next ==
  \/ \E c \in Calls : Load(c) \/ Lookup(c) \/ Fails(c) \/ Answers(c)
  \/ Update \/ Tick \/ Finished

Spec == Init /\ [][Next]_vars

-----------------------------------------------------------------------------
TypeOK ==
  /\ tool \in Tool
  /\ DOMAIN entries \subseteq Arguments
  /\ now \in 0..MaxTime
  /\ \A c \in Calls : call[c].args \in Arguments

(* However calls overlap, the process keeps MAX_ENTRIES answers at most.   *)
CacheIsBounded == Cardinality(DOMAIN entries) <= MaxEntries

(* What is served from the cache was the answer to the same arguments and  *)
(* came less than a time to live ago, which was that of the call that got  *)
(* it; so an answer of an endpoint, a credential or an allowlist that has  *)
(* been changed is served no longer than that.                             *)
AnswersAreFresh ==
  \A c \in Calls : At(c, "cached") =>
    /\ call[c].answer.of = call[c].args
    /\ call[c].served < call[c].answer.expires
    /\ call[c].served - call[c].answer.came < MaxTtl

(* A call reaches the endpoint 1 + TOOLS_MAX_RETRIES times at most, and    *)
(* waits out its timeout only once.                                        *)
PatienceIsSpentOnce ==
  \A c \in Calls : "sent" \in DOMAIN call[c] =>
    call[c].sent <= 1 + MaxRetries /\ call[c].waited <= 1

-----------------------------------------------------------------------------
(* Why they hold: the invariant their proof rests on.                      *)
Timely(answer) ==
  /\ answer.came \in Nat /\ answer.expires \in Nat
  /\ answer.expires <= answer.came + MaxTtl

Types == tool \in Tool /\ now \in Nat /\ DOMAIN call = Calls /\ IsFiniteSet(DOMAIN entries)

EntriesAreTimely ==
  \A a \in DOMAIN entries : entries[a].of = a /\ Timely(entries[a])

Served(c) ==
  At(c, "cached") =>
    /\ call[c].answer.of = call[c].args /\ Timely(call[c].answer)
    /\ call[c].served \in Nat /\ call[c].served < call[c].answer.expires

(* A call that is waiting has attempts left, and has timed out in none.    *)
Waiting(c) ==
  At(c, "lookup") \/ At(c, "send") =>
    /\ {"sent", "waited", "tool"} \subseteq DOMAIN call[c] /\ call[c].tool \in Tool
    /\ call[c].sent \in 0..MaxRetries /\ call[c].waited = 0
Spent(c) ==
  "sent" \in DOMAIN call[c] =>
    /\ "waited" \in DOMAIN call[c]
    /\ call[c].sent \in 0..(MaxRetries + 1) /\ call[c].waited \in {0, 1}

ToolInv ==
  /\ Types /\ EntriesAreTimely /\ CacheIsBounded
  /\ \A c \in Calls :
       {"pc", "args"} \subseteq DOMAIN call[c] /\ Served(c) /\ Waiting(c) /\ Spent(c)
=============================================================================
