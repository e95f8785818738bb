---------------------------- MODULE KnowledgeSync ----------------------------
(***************************************************************************)
(* One URL or API source of a knowledge base: its first pull, syncs asked  *)
(* for and scheduled, the sweep, and the workers that run them             *)
(* (src/src/modules/knowledge_base: KnowledgeBaseService and               *)
(* internal/tasks.py; src/src/core/queue.py with a broker).                *)
(*                                                                         *)
(* A worker loads the row, marks it `processing' (which takes the row's    *)
(* lock), pulls, and writes the columns whose value differs from what it   *)
(* loaded; the lock is free again at commit.  A sync that waited for the   *)
(* lock therefore works with columns another one has written since.  A     *)
(* pull is a fingerprint; pulls with different fingerprints may have the   *)
(* same text, as when only a record's version moved.                       *)
(***************************************************************************)
EXTENDS Naturals, FiniteSets

CONSTANTS
  Workers,      \* worker processes
  Pulls,        \* what a pull may bring, by fingerprint
  Texts,        \* stored texts
  TextOf,       \* pull -> the text made of it
  MaxTasks,     \* bound: tasks queued or running
  MaxRequests,  \* bound: syncs, schedule changes and deletions asked for
  MaxFaults,    \* bound: crashes, unexpected errors and lost enqueues
  MaxFailures   \* bound: failed syncs in a row

NoOne == "no one"

SyncAssumption ==
  /\ NoOne \notin Workers
  /\ "none" \notin Pulls \cup Texts
  /\ TextOf \in [Pulls -> Texts]
  /\ {MaxTasks, MaxFailures} \subseteq Nat

VARIABLES
  kind,      \* "api" or "url"
  stored,    \* "absent", "stored" or "deleted"
  source,    \* the committed row
  holder,    \* the worker that holds the row's lock
  queued,    \* tasks for the source in the broker
  worker,    \* worker -> its state and the columns it loaded
  tenant,    \* what the tenant's open request is about to write
  sweep,     \* whether a sweep has enqueued and not yet committed
  requests,  \* requests made
  faults,    \* faults that happened
  streak,    \* failed syncs committed since the last that succeeded
  stale      \* whether a sync has worked with columns written since its load

vars == <<kind, stored, source, holder, queued, worker, tenant, sweep,
          requests, faults, streak, stale>>

Row == [status : {"pending", "ready", "failed"}, text : Texts \cup {"none"},
        cursor : Pulls \cup {"none"}, failures : 0..MaxFailures,
        scheduled : BOOLEAN, dated : BOOLEAN]

Added(scheduled) ==
  [status |-> "pending", text |-> "none", cursor |-> "none", failures |-> 0,
   scheduled |-> scheduled, dated |-> FALSE]

Resting == [pc |-> "idle"]

Init ==
  /\ kind \in {"api", "url"}
  /\ stored = "absent"
  /\ source \in {Added(s) : s \in BOOLEAN}
  /\ kind = "url" => ~source.scheduled
  /\ holder = NoOne
  /\ queued = 0
  /\ worker = [w \in Workers |-> Resting]
  /\ tenant = Resting
  /\ sweep = FALSE
  /\ requests = 0 /\ faults = 0 /\ streak = 0
  /\ stale = FALSE

-----------------------------------------------------------------------------
(* enqueue: a broker that cannot be reached is logged and no more.         *)
Enqueue ==
  \/ /\ queued + Cardinality({w \in Workers : worker[w].pc # "idle"}) < MaxTasks
     /\ queued' = queued + 1 /\ UNCHANGED faults
  \/ /\ faults < MaxFaults
     /\ faults' = faults + 1 /\ UNCHANGED queued

Ask == requests < MaxRequests /\ requests' = requests + 1

(* add_api_source, add_url_source: the row is flushed, its first pull is   *)
(* enqueued, and then the request commits.                                 *)
Add ==
  /\ stored = "absent" /\ tenant = Resting
  /\ Enqueue
  /\ tenant' = [pc |-> "add"]
  /\ UNCHANGED <<kind, stored, source, holder, worker, sweep, requests, streak, stale>>

CommitAdd ==
  /\ tenant.pc = "add"
  /\ stored' = "stored"
  /\ tenant' = Resting
  /\ UNCHANGED <<kind, source, holder, queued, worker, sweep, requests, faults,
                 streak, stale>>

(* sync_now.                                                               *)
SyncNow ==
  /\ stored = "stored" /\ tenant = Resting
  /\ Ask /\ Enqueue
  /\ UNCHANGED <<kind, stored, source, holder, worker, tenant, sweep, streak, stale>>

(* set_sync_schedule reads the row, and writes once the lock is free.      *)
ReadSchedule ==
  /\ stored = "stored" /\ tenant = Resting
  /\ Ask
  /\ \E on \in BOOLEAN :
       tenant' = [pc |-> "schedule", on |-> on, loaded |-> source]
  /\ UNCHANGED <<kind, stored, source, holder, queued, worker, sweep, faults,
                 streak, stale>>

(* _schedule_next and set_sync_schedule: next_sync_at is an interval from  *)
(* now, or null.  Time is not modelled: a date may always have come.       *)
NextAt(scheduled) == scheduled

(* A column is written when its value differs from the one loaded.         *)
Written(field, new, loaded) ==
  IF new = loaded[field] THEN source[field] ELSE new

(* A new date always differs.                                              *)
Dated(new, loaded) == new \/ Written("dated", new, loaded)

SetSchedule ==
  /\ tenant.pc = "schedule"
  /\ holder = NoOne
  /\ source' = IF stored # "stored" THEN source
               ELSE [source EXCEPT
                 !.scheduled = Written("scheduled", tenant.on, tenant.loaded),
                 !.dated = Dated(NextAt(tenant.on), tenant.loaded)]
  /\ tenant' = Resting
  /\ UNCHANGED <<kind, stored, holder, queued, worker, sweep, requests, faults,
                 streak, stale>>

(* delete_source waits for the lock too.                                   *)
Delete ==
  /\ stored = "stored" /\ tenant = Resting /\ holder = NoOne
  /\ Ask
  /\ stored' = "deleted"
  /\ UNCHANGED <<kind, source, holder, queued, worker, tenant, sweep, faults,
                 streak, stale>>

-----------------------------------------------------------------------------
(* A worker takes a task and loads the row; a source that is not there is  *)
(* nothing to do, and the task is acknowledged.                            *)
Load(w) ==
  /\ worker[w].pc = "idle" /\ queued > 0
  /\ queued' = queued - 1
  /\ worker' = IF stored = "stored"
               THEN [worker EXCEPT ![w] = [pc |-> "loaded", loaded |-> source]]
               ELSE worker
  /\ UNCHANGED <<kind, stored, source, holder, tenant, sweep, requests, faults,
                 streak, stale>>

(* _mark: the UPDATE waits for the lock.  A row deleted meanwhile is an    *)
(* unexpected error, and the task comes back.                              *)
Mark(w) ==
  /\ worker[w].pc = "loaded"
  /\ holder = NoOne
  /\ IF stored = "stored"
     THEN /\ holder' = w
          /\ worker' = [worker EXCEPT ![w].pc = "marked"]
          /\ stale' = (stale \/ worker[w].loaded # source)
          /\ UNCHANGED queued
     ELSE /\ queued' = queued + 1
          /\ worker' = [worker EXCEPT ![w] = Resting]
          /\ UNCHANGED <<holder, stale>>
  /\ UNCHANGED <<kind, stored, source, tenant, sweep, requests, faults, streak>>

(* The row is committed with what a sync sets, and its lock is free.  The  *)
(* status always differs from `processing', which _mark has flushed.       *)
Settle(w, new) ==
  /\ source' = [f \in DOMAIN source |->
                  IF f = "status" THEN new.status
                  ELSE IF f = "dated" THEN Dated(new.dated, worker[w].loaded)
                  ELSE Written(f, new[f], worker[w].loaded)]
  /\ holder' = NoOne
  /\ worker' = [worker EXCEPT ![w] = Resting]
  /\ UNCHANGED <<kind, stored, queued, tenant, sweep, requests, faults, stale>>

(* _fail: the text and the cursor stay.                                    *)
Failed(l) ==
  [l EXCEPT !.status = "failed", !.failures = l.failures + 1,
            !.dated = NextAt(l.scheduled)]

Fail(w) ==
  /\ worker[w].pc = "marked"
  /\ worker[w].loaded.failures < MaxFailures /\ streak < MaxFailures
  /\ Settle(w, Failed(worker[w].loaded))
  /\ streak' = streak + 1

(* Mutant: an unchanged pull does not clear the failures.                  *)
Unchanged_Counts(l) ==
  [l EXCEPT !.status = "ready", !.dated = NextAt(l.scheduled)]

(* The fingerprint is the one loaded: the text is left alone.              *)
Unchanged(l) ==
  [l EXCEPT !.status = "ready", !.failures = 0, !.dated = NextAt(l.scheduled)]

(* Mutant: a source that was never pulled counts as unchanged.             *)
Same_Unpulled(l, p) == kind = "api" /\ l.cursor \in {p, "none"}

Same(l, p) == kind = "api" /\ p = l.cursor

(* extract_source and sync_source with something new.                      *)
Pulled(l, p) ==
  [l EXCEPT !.status = "ready", !.failures = 0, !.text = TextOf[p],
            !.cursor = IF kind = "api" THEN p ELSE @,
            !.dated = NextAt(l.scheduled)]

Pull(w) ==
  /\ worker[w].pc = "marked"
  /\ \E p \in Pulls :
       LET l == worker[w].loaded
       IN Settle(w, IF Same(l, p) THEN Unchanged(l)
                    ELSE Pulled(l, p))
  /\ streak' = 0

(* A crash, or an error nobody expected: the transaction is rolled back    *)
(* and the task comes back, until its retries are used up.                 *)
Fault(w) ==
  /\ worker[w].pc # "idle"
  /\ faults < MaxFaults /\ faults' = faults + 1
  /\ worker' = [worker EXCEPT ![w] = Resting]
  /\ holder' = IF holder = w THEN NoOne ELSE holder
  /\ queued' \in {queued, queued + 1}
  /\ UNCHANGED <<kind, stored, source, tenant, sweep, requests, streak, stale>>

-----------------------------------------------------------------------------
(* Mutant: only what is ready is swept.                                    *)
Due_Ready == stored = "stored" /\ kind = "api" /\ source.scheduled /\ source.dated
  /\ source.status = "ready"

(* due_sources.                                                            *)
Due == stored = "stored" /\ kind = "api" /\ source.scheduled /\ source.dated

(* sweep_due_sources enqueues what is due; the new dates are flushed after *)
(* that, once the lock is free, and committed.                             *)
Sweep ==
  /\ ~sweep /\ Due
  /\ Enqueue
  /\ sweep' = TRUE
  /\ UNCHANGED <<kind, stored, source, holder, worker, tenant, requests, streak, stale>>

CommitSweep ==
  /\ sweep /\ holder = NoOne
  /\ sweep' = FALSE
  /\ source' = IF stored = "stored" THEN [source EXCEPT !.dated = TRUE] ELSE source
  /\ UNCHANGED <<kind, stored, holder, queued, worker, tenant, requests, faults,
                 streak, stale>>

SweepFault ==
  /\ sweep /\ faults < MaxFaults
  /\ faults' = faults + 1
  /\ sweep' = FALSE
  /\ UNCHANGED <<kind, stored, source, holder, queued, worker, tenant, requests,
                 streak, stale>>

Tenant == Add \/ CommitAdd \/ SyncNow \/ ReadSchedule \/ SetSchedule \/ Delete
Work(w) == Load(w) \/ Mark(w) \/ Fail(w) \/ Pull(w)
Beat == Sweep \/ CommitSweep

(* Nothing is queued, running or due: the tenant may leave it at that.     *)
Rests == queued = 0 /\ (\A w \in Workers : worker[w] = Resting)

Finished ==
  /\ Rests /\ tenant = Resting /\ stored # "absent" /\ ~Due
  /\ UNCHANGED vars

Next ==
  \/ Tenant \/ Beat \/ SweepFault \/ Finished
  \/ \E w \in Workers : Work(w) \/ Fault(w)

Spec ==
  /\ Init /\ [][Next]_vars
  /\ WF_vars(CommitAdd) /\ WF_vars(SetSchedule) /\ WF_vars(Beat)
  /\ \A w \in Workers : WF_vars(Work(w))

-----------------------------------------------------------------------------
TypeOK ==
  /\ stored \in {"absent", "stored", "deleted"}
  /\ source \in Row
  /\ holder \in Workers \cup {NoOne}
  /\ queued \in 0..MaxTasks
  /\ \A w \in Workers : worker[w].pc \in {"idle", "loaded", "marked"}
  /\ \A w \in Workers : worker[w].pc # "idle" => worker[w].loaded \in Row

Scheduled == stored = "stored" /\ kind = "api" /\ source.scheduled
HasDate == source.dated

(* As long as no sync has worked with columns another one wrote after it   *)
(* had loaded them, the stored text is the one the cursor stands for, so   *)
(* an unchanged pull may leave it alone, and consecutive_failures counts   *)
(* the failures since the last success, and a scheduled source that was    *)
(* pulled has a date for the next pull, through redelivered tasks, lost    *)
(* ones, sweeps and schedule changes.                                      *)
UndisturbedSyncsAreExact ==
  ~stale => /\ source.cursor # "none" => source.text = TextOf[source.cursor]
            /\ source.failures = streak
            /\ Scheduled /\ source.status # "pending" => source.dated

(* What is offered to retrieval as ready has a text, however syncs,        *)
(* retries and failures overlap.                                           *)
ReadyHasText ==
  /\ source.status = "ready" => source.text # "none"
  /\ source.cursor # "none" => source.text # "none"

Pulling == \E w \in Workers : worker[w] # Resting

(* A source with a schedule and a next date is pulled again: after a       *)
(* failed sync, a lost enqueue, a crashed worker or a failed sweep.        *)
ScheduledIsPulled ==
  Scheduled /\ HasDate ~> Pulling \/ ~Scheduled
-----------------------------------------------------------------------------
(* Why the two hold: the invariant their proof rests on.  A row, its count *)
(* of failures without a bound.                                            *)
AnyRow == [status : {"pending", "ready", "failed"}, text : Texts \cup {"none"},
           cursor : Pulls \cup {"none"}, failures : Nat,
           scheduled : BOOLEAN, dated : BOOLEAN]

Working == [pc : {"loaded", "marked"}, loaded : AnyRow]
Adding == [pc : {"add"}]
Scheduling == [pc : {"schedule"}, on : BOOLEAN, loaded : AnyRow]

Types ==
  /\ source \in AnyRow
  /\ streak \in Nat
  /\ stale \in BOOLEAN
  /\ worker \in [Workers -> Working \cup {Resting}]
  /\ tenant \in Scheduling \cup Adding \cup {Resting}

(* A worker that has marked the row holds its lock, and unless some sync   *)
(* has worked with old columns, it loaded what the row still is.           *)
Marked ==
  \A w \in Workers : worker[w].pc = "marked" =>
    /\ holder = w
    /\ ~stale => worker[w].loaded = source

(* Only one request of the tenant is open: a schedule is as it was read.   *)
ScheduleAsRead ==
  tenant.pc = "schedule" => tenant.loaded.scheduled = source.scheduled

(* Only a sync of an API source moves the cursor.                          *)
CursorOfApi == kind # "api" => source.cursor = "none"

Exact ==
  ~stale => /\ source.cursor # "none" => source.text = TextOf[source.cursor]
            /\ source.failures = streak
            /\ kind = "api" /\ source.scheduled /\ source.status # "pending"
                 => source.dated

SyncInv == Types /\ Marked /\ ScheduleAsRead /\ CursorOfApi /\ Exact

(* A row that is ready or has a cursor has a text, ...                     *)
HasText(r) == r.status = "ready" \/ r.cursor # "none" => r.text # "none"

(* ... also as a worker has loaded it, and no text ever goes again.        *)
TextStays ==
  /\ HasText(source)
  /\ \A w \in Workers : worker[w].pc # "idle" =>
       /\ HasText(worker[w].loaded)
       /\ worker[w].loaded.text # "none" => source.text # "none"

=============================================================================
