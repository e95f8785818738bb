---------------------------- MODULE UserSessions ----------------------------
(***************************************************************************)
(* The sign-ins of one user: log-in, refresh, change of the password,      *)
(* log-out and the purge of dead tokens, overlapping                       *)
(* (src/src/modules/auth: AuthService, TokenRepository and                 *)
(* internal/token_cleanup.py).                                             *)
(*                                                                         *)
(* An access and a refresh token are issued, revoked and deleted together  *)
(* and are one pair here.  A request is one READ COMMITTED transaction:    *)
(* its UPDATEs and DELETEs see what was committed when they begin, wait    *)
(* for the rows others have changed and then look at those again.          *)
(***************************************************************************)
EXTENDS Naturals, FiniteSets

CONSTANTS
  Requests,  \* requests that may overlap; each may issue one pair
  Old        \* pairs that were issued before

Pairs == Requests \cup Old

NoOne == "no one"

(* A pair is issued by the request it is named after, once, or is old.     *)
SessionAssumption == NoOne \notin Requests /\ Requests \cap Old = {}

VARIABLES
  stored,    \* committed pairs
  status,    \* pair -> "live", "revoked" or "expired"
  locked,    \* pair -> the request that has changed it and not committed
  account,   \* the request that has changed the user's row
  work       \* request -> its operation, next step and what it has seen

vars == <<stored, status, locked, account, work>>

Unsent == [op |-> "none", pc |-> "unsent"]

Init ==
  /\ stored = Old
  /\ status \in [Pairs -> {"live", "expired"}]
  /\ \A p \in Requests : status[p] = "live"
  /\ locked = [p \in Pairs |-> NoOne]
  /\ account = NoOne
  /\ work = [r \in Requests |-> Unsent]

At(r, pc) == work[r].pc = pc
Goto(r, pc) == [work EXCEPT ![r].pc = pc]
Live == {p \in stored : status[p] = "live"}

Begun(r, op, pc) ==
  work' = [work EXCEPT ![r] =
    [op |-> op, pc |-> pc, before |-> {}, rows |-> {}]]

Release(r) ==
  /\ locked' = [p \in Pairs |-> IF locked[p] = r THEN NoOne ELSE locked[p]]
  /\ account' = IF account = r THEN NoOne ELSE account

Rollback(r) ==
  /\ work' = [work EXCEPT ![r] = [op |-> "none", pc |-> "failed"]]
  /\ Release(r)
  /\ UNCHANGED <<stored, status>>

-----------------------------------------------------------------------------
(* login, once the password is verified and the account enabled.           *)
LogIn(r) ==
  /\ At(r, "unsent")
  /\ Begun(r, "login", "purge")
  /\ UNCHANGED <<stored, status, locked, account>>

(* _load_usable of the token presented, which stays as it is.              *)
Present(r, op, pc) ==
  /\ At(r, "unsent")
  /\ Live # {}
  /\ Begun(r, op, pc)
  /\ UNCHANGED <<stored, status, locked, account>>

Refresh(r) == Present(r, "refresh", "see")
LogOut(r) == Present(r, "logout", "see")

(* change_password verifies the current password on the row it read.       *)
ChangePassword(r) == Present(r, "change", "account")

(* The new hash is flushed, once the user's row is free.                   *)
WriteHash(r) ==
  /\ At(r, "account") /\ account = NoOne
  /\ account' = r
  /\ work' = Goto(r, "see")
  /\ UNCHANGED <<stored, status, locked>>

-----------------------------------------------------------------------------
(* A token that can never authenticate again.                              *)
Dead(p) == p \in stored /\ status[p] # "live"

(* purge_dead_tokens begins: the snapshot of the DELETE.                   *)
Purge(r) ==
  /\ At(r, "purge")
  /\ work' = [work EXCEPT ![r].pc = "delete", ![r].rows = {p \in stored : Dead(p)}]
  /\ UNCHANGED <<stored, status, locked, account>>

(* revoke_all_for_user: whatever is not revoked.                           *)
Revocable(p) == status[p] # "revoked"

(* ... and begins: the snapshot of the UPDATE.                             *)
See(r) ==
  /\ At(r, "see")
  /\ work' = [work EXCEPT ![r].pc = "revoke", ![r].before = Live,
                          ![r].rows = {p \in stored : Revocable(p)}]
  /\ UNCHANGED <<stored, status, locked, account>>

(* The rows are changed in some order, each after whoever changed it has   *)
(* ended; one that is gone or revoked by then is passed over.              *)
Take(r, pc, next, matching) ==
  /\ At(r, pc)
  /\ IF work[r].rows = {} THEN work' = Goto(r, next) /\ UNCHANGED locked
     ELSE \E p \in work[r].rows :
            /\ locked[p] \in {NoOne, r}
            /\ work' = [work EXCEPT ![r].rows = @ \ {p}]
            /\ locked' = IF p \in matching THEN [locked EXCEPT ![p] = r]
                         ELSE locked
  /\ UNCHANGED <<stored, status, account>>

DeleteDead(r) == Take(r, "delete", "see", {p \in stored : Dead(p)})

(* After it, log-out is done, and the others insert their pair.            *)
RevokeAll(r) == Take(r, "revoke", "commit", {p \in stored : Revocable(p)})

(* Mutant: issuing a pair leaves the earlier ones alone.                   *)
Revokes_Logout(r, p) ==
  work[r].op = "logout" /\ locked[p] = r /\ status[p] # "revoked"

Revokes(r, p) == locked[p] = r /\ status[p] # "revoked"

Purges(r, p) == work[r].op = "login" /\ locked[p] = r /\ Dead(p)

Commit(r) ==
  /\ At(r, "commit")
  /\ stored' = {p \in stored : ~Purges(r, p)} \cup (IF work[r].op = "logout" THEN {} ELSE {r})
  /\ status' = [p \in Pairs |-> IF Revokes(r, p) THEN "revoked" ELSE status[p]]
  /\ work' = Goto(r, "done")
  /\ Release(r)

(* Time passes: a pair expires.                                            *)
Expire(p) ==
  /\ p \in Live
  /\ status' = [status EXCEPT ![p] = "expired"]
  /\ UNCHANGED <<stored, locked, account, work>>

Fail(r) == work[r].op # "none" /\ ~At(r, "done") /\ Rollback(r)

-----------------------------------------------------------------------------
Waits(r) ==
  CASE work[r].pc \in {"delete", "revoke"} /\ work[r].rows # {} ->
         IF \A p \in work[r].rows : locked[p] \notin {NoOne, r}
         THEN {locked[p] : p \in work[r].rows} ELSE {}
    [] At(r, "account") -> {account} \ {NoOne}
    [] OTHER -> {}

(* r waits for one that waits for r.                                       *)
Deadlocked(r) ==
  \E S \in SUBSET Requests :
    r \in S /\ \A q \in S : Waits(q) \cap S # {} /\ \E t \in S : q \in Waits(t)

BreakDeadlock(r) == Deadlocked(r) /\ Rollback(r)

Begin(r) == LogIn(r) \/ Refresh(r) \/ LogOut(r) \/ ChangePassword(r)

Statement(r) ==
  \/ WriteHash(r) \/ Purge(r) \/ DeleteDead(r) \/ See(r) \/ RevokeAll(r)
  \/ Commit(r) \/ BreakDeadlock(r)

HasEnded(r) == work[r].pc \in {"done", "failed"}

Finished == (\A r \in Requests : HasEnded(r)) /\ UNCHANGED vars

Next ==
  \/ \E r \in Requests : Begin(r) \/ Statement(r) \/ Fail(r)
  \/ \E p \in Pairs : Expire(p)
  \/ Finished

Fairness == \A r \in Requests : WF_vars(Statement(r))

Spec == Init /\ [][Next]_vars /\ Fairness

-----------------------------------------------------------------------------
TypeOK ==
  /\ stored \subseteq Pairs
  /\ status \in [Pairs -> {"live", "revoked", "expired"}]
  /\ locked \in [Pairs -> Requests \cup {NoOne}]
  /\ account \in Requests \cup {NoOne}

(* Issuing a pair, changing the password and logging out end every sign-in *)
(* that was committed before they began to revoke, whatever overlaps; what *)
(* is issued meanwhile, by a request that overlaps, may live on.           *)
EarlierPairsEnd ==
  \A r \in Requests : At(r, "done") => Live \cap work[r].before = {}

(* Every request ends, though a purge and a revocation may wait for each   *)
(* other's rows.                                                           *)
EveryRequestEnds == \A r \in Requests : ~At(r, "unsent") ~> HasEnded(r)
-----------------------------------------------------------------------------
(* Why EarlierPairsEnd holds: the invariant its proof rests on.            *)
Working == [op : {"login", "refresh", "logout", "change"},
            pc : {"purge", "delete", "account", "see", "revoke", "commit",
                  "done"},
            before : SUBSET Pairs, rows : SUBSET Pairs]
Outside == [op : {"none"}, pc : {"unsent", "failed"}]

Types == TypeOK /\ work \in [Requests -> Working \cup Outside]

(* Only a request that has committed has issued its pair.                  *)
IssuedByCommit == \A p \in stored \cap Requests : At(p, "done")

(* What was live when r began to revoke is not issued again, and is dead,  *)
(* or changed by r and not committed, or still to be looked at.            *)
Ends(r) ==
  work[r].pc \in {"revoke", "commit", "done"} =>
    \A p \in work[r].before :
      /\ p \in Requests => At(p, "done")
      /\ \/ p \notin Live
         \/ work[r].pc # "done" /\ locked[p] = r
         \/ work[r].pc = "revoke" /\ p \in work[r].rows

RevokeInv == Types /\ IssuedByCommit /\ \A r \in Requests : Ends(r)
=============================================================================
