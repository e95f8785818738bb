------------------------ MODULE PlatformAccess_proofs -----------------------
(***************************************************************************)
(* Proofs about who is let in and to what: sign-ins (U), API keys and      *)
(* their allowance (C), and the scope of the management API (M), each for  *)
(* any values of the constants and any interleaving of requests.           *)
(* At the end, what this module and the two it extends prove of the kinds  *)
(* of things is put together.                                              *)
(*                                                                         *)
(* The lemmas are about the instances of MCPlatform, whose variables are   *)
(* slots:                                                                  *)
(*   U  UserSessions: v1 stored, v2 status, v3 locked, v4 account, v5 work *)
(*   C  ChatAccess: v1 shared, v2 key, v3 limit, v4 serving, v5 owner, v6  *)
(*      holder, v7 window, v8 counts, v9 caller, v10 outages, v11 changes  *)
(*   M  ManagementApi: v1 rows, v2 enabled, v3 caller, v4 call, v5 changes *)
(***************************************************************************)
EXTENDS PlatformAgents_proofs, PlatformChannels_proofs

-----------------------------------------------------------------------------
(* Sign-ins.  What a request has marked for revoking is dead or locked by  *)
(* it until it commits, and a pair is alive only once its issuer           *)
(* committed; so no earlier pair outlives the commit.                      *)

(* What the other requests have seen stays so, as long as no pair comes    *)
(* to life but a new one and nobody takes their rows.                      *)
LEMMA OthersKept ==
  ASSUME U!Types, NEW r \in Requests, U!Ends(r), v5'[r] = v5[r],
         \A p \in U!Live' : p \in U!Live \/ (p \in Requests /\ ~U!At(p, "done")),
         \A p \in U!Pairs : v3[p] = r => v3'[p] = r,
         \A p \in Requests : U!At(p, "done") => U!At(p, "done")'
  PROVE  U!Ends(r)'
<1>1. v5[r].pc \in {"revoke", "commit", "done"} => v5[r].before \subseteq U!Pairs
  BY DEF U!Types, U!TypeOK, U!Working, U!Outside
<1> QED
  BY <1>1 DEF U!Ends

(* A step of r that ends nothing: it touches its own record, and locks at  *)
(* most rows that were free.                                               *)
LEMMA QuietStep ==
  ASSUME U!SessionAssumption, U!RevokeInv, NEW r \in Requests, ~U!At(r, "done"),
         UNCHANGED <<v1, v2>>,
         v4' \in Requests \cup {U!NoOne},
         v3' \in [U!Pairs -> Requests \cup {U!NoOne}],
         \A p \in U!Pairs : v3[p] # r => v3'[p] \in {v3[p], r},
         \A p \in U!Pairs : v3[p] \notin {U!NoOne, r} => v3'[p] = v3[p],
         NEW w \in U!Working \cup U!Outside, v5' = [v5 EXCEPT ![r] = w],
         w.pc # "done", U!Ends(r)'
  PROVE  U!RevokeInv'
<1>1. v5' \in [Requests -> U!Working \cup U!Outside]
  BY DEF U!RevokeInv, U!Types, U!TypeOK
<1>2. U!Types'
  BY <1>1 DEF U!RevokeInv, U!Types, U!TypeOK
<1>3. \A p \in Requests : U!At(p, "done") => U!At(p, "done")'
  BY DEF U!RevokeInv, U!Types, U!TypeOK, U!At
<1>4. U!Live' = U!Live
  BY DEF U!Live
<1>5. ASSUME NEW q \in Requests \ {r} PROVE U!Ends(q)'
  <2>1. v5'[q] = v5[q] /\ U!Ends(q) /\ U!Types
    BY DEF U!RevokeInv, U!Types, U!TypeOK
  <2>2. \A p \in U!Pairs : v3[p] = q => v3'[p] = q
    BY DEF U!SessionAssumption
  <2> QED
    BY <1>3, <1>4, <2>1, <2>2, OthersKept
<1>6. U!IssuedByCommit'
  BY <1>3 DEF U!RevokeInv, U!IssuedByCommit
<1> QED
  BY <1>2, <1>5, <1>6 DEF U!RevokeInv

(* Beginning, the hash, and the snapshots of the DELETE and the UPDATE.    *)
LEMMA SeeStep ==
  ASSUME U!SessionAssumption, U!RevokeInv, NEW r \in Requests,
         U!Begin(r) \/ U!WriteHash(r) \/ U!Purge(r) \/ U!See(r)
  PROVE  U!RevokeInv'
<1>1. U!Types /\ v5[r] \in U!Working \cup U!Outside
  BY DEF U!RevokeInv, U!Types, U!TypeOK
<1>2. CASE U!Begin(r)
  <2>1. PICK op \in {"login", "refresh", "logout", "change"},
             pc \in {"purge", "see", "account"} : U!Begun(r, op, pc)
    BY <1>2 DEF U!Begin, U!LogIn, U!Refresh, U!LogOut, U!ChangePassword, U!Present
  <2> DEFINE w == [op |-> op, pc |-> pc, before |-> {}, rows |-> {}]
  <2>2. w \in U!Working
    BY <2>1 DEF U!Working
  <2>3. v5' = [v5 EXCEPT ![r] = w] /\ v5'[r] = w
    BY <1>1, <2>1 DEF U!Begun, U!Types, U!TypeOK
  <2>4. U!Ends(r)' /\ w.pc # "done"
    BY <2>3 DEF U!Ends
  <2>5. /\ UNCHANGED <<v1, v2, v3, v4>>
        /\ ~U!At(r, "done")
    BY <1>2 DEF U!Begin, U!LogIn, U!Refresh, U!LogOut, U!ChangePassword, U!Present, U!At
  <2> HIDE DEF w
  <2> QED
    BY <1>1, <2>2, <2>3, <2>4, <2>5, QuietStep DEF U!Types, U!TypeOK
<1>3. CASE U!WriteHash(r)
  <2> DEFINE w == [v5[r] EXCEPT !.pc = "see"]
  <2>1. w \in U!Working /\ w.pc = "see"
    BY <1>1, <1>3 DEF U!WriteHash, U!At, U!Working, U!Outside
  <2>2. v5' = [v5 EXCEPT ![r] = w] /\ v5'[r] = w
    BY <1>1, <1>3 DEF U!WriteHash, U!Goto, U!Types, U!TypeOK
  <2>3. U!Ends(r)' /\ w.pc # "done"
    BY <2>1, <2>2 DEF U!Ends
  <2>4. /\ UNCHANGED <<v1, v2, v3>> /\ v4' = r
        /\ ~U!At(r, "done")
    BY <1>3 DEF U!WriteHash, U!At
  <2> HIDE DEF w
  <2> QED
    BY <1>1, <2>1, <2>2, <2>3, <2>4, QuietStep DEF U!Types, U!TypeOK
<1>4. CASE U!Purge(r)
  <2> DEFINE dead == {p \in v1 : U!Dead(p)}
             w == [v5[r] EXCEPT !.pc = "delete", !.rows = dead]
  <2>1. dead \subseteq U!Pairs /\ v5[r] \in U!Working
    BY <1>1, <1>4 DEF U!Types, U!TypeOK, U!Purge, U!At, U!Outside
  <2>2. w \in U!Working /\ w.pc = "delete"
    BY <2>1 DEF U!Working
  <2>3. v5' = [v5 EXCEPT ![r] = w] /\ v5'[r] = w
    BY <1>1, <1>4 DEF U!Purge, U!Types, U!TypeOK
  <2>4. U!Ends(r)' /\ w.pc # "done"
    BY <2>2, <2>3 DEF U!Ends
  <2>5. /\ UNCHANGED <<v1, v2, v3, v4>>
        /\ ~U!At(r, "done")
    BY <1>4 DEF U!Purge, U!At
  <2> HIDE DEF w
  <2> QED
    BY <1>1, <2>2, <2>3, <2>4, <2>5, QuietStep DEF U!Types, U!TypeOK
<1>5. CASE U!See(r)
  <2> DEFINE revocable == {p \in v1 : U!Revocable(p)}
             w == [v5[r] EXCEPT !.pc = "revoke", !.before = U!Live,
                                !.rows = revocable]
  <2>1. /\ revocable \subseteq U!Pairs /\ U!Live \subseteq revocable
        /\ U!Live \subseteq v1 /\ v5[r] \in U!Working
    BY <1>1, <1>5 DEF U!Types, U!TypeOK, U!See, U!At, U!Outside, U!Live, U!Revocable
  <2>2. /\ w \in U!Working /\ w.pc = "revoke"
        /\ w.before = U!Live /\ w.rows = revocable
    BY <2>1 DEF U!Working
  <2>3. v5' = [v5 EXCEPT ![r] = w] /\ v5'[r] = w
    BY <1>1, <1>5 DEF U!See, U!Types, U!TypeOK
  <2>4. /\ UNCHANGED <<v1, v2, v3, v4>>
        /\ ~U!At(r, "done")
    BY <1>5 DEF U!See, U!At
  <2>5. \A p \in U!Live \cap Requests : U!At(p, "done") /\ p # r
    BY <2>1, <2>4 DEF U!RevokeInv, U!IssuedByCommit
  <2>6. \A p \in U!Live \cap Requests : U!At(p, "done")'
    BY <1>1, <2>3, <2>5 DEF U!At, U!Types, U!TypeOK
  <2> HIDE DEF w
  <2>7. U!Ends(r)' /\ w.pc # "done"
    BY <2>1, <2>2, <2>3, <2>6 DEF U!Ends
  <2> QED
    BY <1>1, <2>2, <2>3, <2>4, <2>7, QuietStep DEF U!Types, U!TypeOK
<1> QED
  BY <1>2, <1>3, <1>4, <1>5

(* The rows of the DELETE and of the UPDATE, one by one.                   *)
LEMMA TakeStep ==
  ASSUME U!SessionAssumption, U!RevokeInv, NEW r \in Requests,
         U!DeleteDead(r) \/ U!RevokeAll(r)
  PROVE  U!RevokeInv'
<1>1. U!Types /\ U!Ends(r) /\ v5[r] \in U!Working \cup U!Outside
  BY DEF U!RevokeInv, U!Types, U!TypeOK
<1>2. PICK pc \in {"delete", "revoke"}, next \in {"see", "commit"},
           matching \in SUBSET v1 :
        /\ U!Take(r, pc, next, matching)
        /\ pc = "delete" <=> next = "see"
        /\ pc = "revoke" => matching = {p \in v1 : U!Revocable(p)}
  BY DEF U!DeleteDead, U!RevokeAll
<1>3. /\ UNCHANGED <<v1, v2, v4>> /\ ~U!At(r, "done")
      /\ U!At(r, pc) /\ v5[r] \in U!Working
  BY <1>1, <1>2 DEF U!Take, U!At, U!Outside
<1>d. \A p \in Requests \ {r} : U!At(p, "done")' <=> U!At(p, "done")
  BY <1>1, <1>2 DEF U!Take, U!Goto, U!At, U!Types, U!TypeOK
<1>4. CASE v5[r].rows = {}
  <2> DEFINE w == [v5[r] EXCEPT !.pc = next]
  <2>1. w \in U!Working /\ w.pc = next /\ w.before = v5[r].before
    BY <1>2, <1>3 DEF U!Working
  <2>2. v5' = [v5 EXCEPT ![r] = w] /\ v5'[r] = w /\ UNCHANGED v3
    BY <1>1, <1>2, <1>4 DEF U!Take, U!Goto, U!Types, U!TypeOK
  <2> HIDE DEF w
  <2>3. U!Ends(r)' /\ w.pc # "done"
    <3>1. CASE next = "see"
      BY <2>1, <2>2, <3>1 DEF U!Ends
    <3>2. CASE next = "commit"
      <4>1. U!At(r, "revoke")
        BY <1>2, <1>3, <3>2
      <4>2. \A p \in v5[r].before :
              /\ p \in Requests => U!At(p, "done") /\ p # r
              /\ p \notin U!Live \/ v3[p] = r
        BY <1>1, <1>3, <1>4, <4>1 DEF U!Ends, U!At
      <4>3. U!Live' = U!Live
        BY <1>3 DEF U!Live
      <4> QED
        BY <1>d, <2>1, <2>2, <3>2, <4>2, <4>3 DEF U!Ends
    <3> QED
      BY <1>2, <3>1, <3>2
  <2> QED
    BY <1>1, <1>3, <2>1, <2>2, <2>3, QuietStep DEF U!Types, U!TypeOK
<1>5. CASE v5[r].rows # {}
  <2>1. PICK p \in v5[r].rows :
          /\ v3[p] \in {U!NoOne, r}
          /\ v5' = [v5 EXCEPT ![r].rows = @ \ {p}]
          /\ v3' = IF p \in matching THEN [v3 EXCEPT ![p] = r]
                   ELSE v3
    BY <1>2, <1>5 DEF U!Take
  <2> DEFINE w == [v5[r] EXCEPT !.rows = @ \ {p}]
  <2>2. p \in U!Pairs
    BY <1>3, <2>1 DEF U!Working
  <2>3. /\ w \in U!Working /\ w.pc = pc /\ w.before = v5[r].before
        /\ w.rows = v5[r].rows \ {p}
    BY <1>3 DEF U!Working, U!At
  <2>4. v5' = [v5 EXCEPT ![r] = w] /\ v5'[r] = w
    BY <1>1, <2>1 DEF U!Types, U!TypeOK
  <2> HIDE DEF w
  <2>5. /\ v3' \in [U!Pairs -> Requests \cup {U!NoOne}]
        /\ \A q \in U!Pairs \ {p} : v3'[q] = v3[q]
        /\ v3'[p] \in {v3[p], r}
        /\ p \in matching => v3'[p] = r
    BY <1>1, <2>1, <2>2 DEF U!Types, U!TypeOK
  <2>6. U!Ends(r)'
    <3>1. CASE pc = "delete"
      BY <2>3, <2>4, <3>1 DEF U!Ends
    <3>2. CASE pc = "revoke"
      <4>1. \A q \in v5[r].before :
              /\ q \in Requests => U!At(q, "done") /\ q # r
              /\ \/ q \notin U!Live
                 \/ v3[q] = r
                 \/ q \in v5[r].rows
        BY <1>1, <1>3, <3>2 DEF U!Ends, U!At
      <4>2. p \in U!Live => p \in matching
        BY <1>2, <3>2 DEF U!Live, U!Revocable
      <4>3. U!Live' = U!Live /\ v5[r].before \subseteq U!Pairs
        BY <1>3 DEF U!Live, U!Working
      <4>4. \A q \in v5[r].before :
              q \notin U!Live \/ v3'[q] = r \/ q \in w.rows
        BY <2>1, <2>3, <2>5, <4>1, <4>2, <4>3
      <4>5. \A q \in v5[r].before : q \in Requests => U!At(q, "done")'
        BY <1>d, <4>1
      <4> QED
        BY <2>3, <2>4, <3>2, <4>3, <4>4, <4>5 DEF U!Ends
    <3> QED
      BY <1>2, <3>1, <3>2
  <2>7. w.pc # "done"
    BY <1>2, <2>3
  <2>8. /\ \A q \in U!Pairs : v3[q] # r => v3'[q] \in {v3[q], r}
        /\ \A q \in U!Pairs : v3[q] \notin {U!NoOne, r} => v3'[q] = v3[q]
    BY <2>1, <2>5
  <2> QED
    BY <1>1, <1>3, <2>3, <2>4, <2>5, <2>6, <2>7, <2>8, QuietStep DEF U!Types, U!TypeOK
<1> QED
  BY <1>4, <1>5

(* What a request holds is given back, and nobody else's.                  *)
LEMMA ReleaseGivesBack ==
  ASSUME U!SessionAssumption, U!Types, NEW r \in Requests, U!Release(r)
  PROVE  /\ v3' \in [U!Pairs -> Requests \cup {U!NoOne}]
         /\ v4' \in Requests \cup {U!NoOne}
         /\ \A q \in Requests \ {r}, p \in U!Pairs :
              v3[p] = q => v3'[p] = q
BY DEF U!SessionAssumption, U!Types, U!TypeOK, U!Release

(* The end of a request that has not committed.                            *)
LEMMA SessionRollbackStep ==
  ASSUME U!SessionAssumption, U!RevokeInv, NEW r \in Requests, ~U!At(r, "done"),
         U!Rollback(r)
  PROVE  U!RevokeInv'
<1> DEFINE w == [op |-> "none", pc |-> "failed"]
<1>1. v5' = [v5 EXCEPT ![r] = w] /\ U!Types /\ w \in U!Outside
  BY DEF U!Rollback, U!RevokeInv, U!Outside
<1>2. v5' \in [Requests -> U!Working \cup U!Outside] /\ v5'[r] = w
  BY <1>1 DEF U!Types, U!TypeOK
<1>3. UNCHANGED <<v1, v2>> /\ U!Release(r)
  BY DEF U!Rollback
<1>4. U!Types'
  BY <1>1, <1>2, <1>3, ReleaseGivesBack DEF U!Types, U!TypeOK
<1>5. \A p \in Requests : U!At(p, "done") => U!At(p, "done")'
  BY <1>1 DEF U!Types, U!TypeOK, U!At
<1>6. U!Live' = U!Live
  BY <1>3 DEF U!Live
<1>7. ASSUME NEW q \in Requests \ {r} PROVE U!Ends(q)'
  <2>1. v5'[q] = v5[q] /\ U!Ends(q)
    BY <1>1 DEF U!RevokeInv, U!Types, U!TypeOK
  <2>2. \A p \in U!Pairs : v3[p] = q => v3'[p] = q
    BY <1>1, <1>3, ReleaseGivesBack
  <2> QED
    BY <1>1, <1>5, <1>6, <2>1, <2>2, OthersKept
<1>8. U!Ends(r)'
  BY <1>2 DEF U!Ends
<1>9. U!IssuedByCommit'
  BY <1>3, <1>5 DEF U!RevokeInv, U!IssuedByCommit
<1> QED
  BY <1>4, <1>7, <1>8, <1>9 DEF U!RevokeInv

(* The end of one that has.                                                *)
LEMMA SessionCommitStep ==
  ASSUME U!SessionAssumption, U!RevokeInv, NEW r \in Requests, U!Commit(r)
  PROVE  U!RevokeInv'
<1> DEFINE w == [v5[r] EXCEPT !.pc = "done"]
<1>1. U!Types /\ U!Ends(r) /\ U!At(r, "commit") /\ v5[r] \in U!Working /\ U!Release(r)
  BY DEF U!RevokeInv, U!Types, U!TypeOK, U!Commit, U!At, U!Outside
<1>2. w \in U!Working /\ w.pc = "done" /\ w.before = v5[r].before
      /\ w.before \subseteq U!Pairs
  BY <1>1 DEF U!Working
<1>3. v5' = [v5 EXCEPT ![r] = w] /\ v5'[r] = w
      /\ v5' \in [Requests -> U!Working \cup U!Outside]
  BY <1>1, <1>2 DEF U!Commit, U!Goto, U!Types, U!TypeOK
<1> HIDE DEF w
<1>4. /\ v1' \subseteq v1 \cup {r}
      /\ \A p \in U!Pairs : v2'[p] \in {v2[p], "revoked"}
      /\ \A p \in U!Pairs : v3[p] = r => v2'[p] = "revoked"
      /\ v2' \in [U!Pairs -> {"live", "revoked", "expired"}]
  BY <1>1 DEF U!Commit, U!Types, U!TypeOK, U!Revokes
<1>5. U!Types'
  BY <1>1, <1>3, <1>4, ReleaseGivesBack DEF U!Types, U!TypeOK, U!Pairs
<1>6. /\ \A p \in Requests : U!At(p, "done") => U!At(p, "done")'
      /\ U!At(r, "done")' /\ ~U!At(r, "done")
  BY <1>1, <1>2, <1>3 DEF U!Types, U!TypeOK, U!At
<1>7. \A p \in U!Live' : p \in U!Live \/ (p \in Requests /\ ~U!At(p, "done"))
  BY <1>1, <1>4, <1>6 DEF U!Live, U!Types, U!TypeOK, U!Pairs
<1>8. ASSUME NEW q \in Requests \ {r} PROVE U!Ends(q)'
  <2>1. v5'[q] = v5[q] /\ U!Ends(q)
    BY <1>3, <1>1 DEF U!RevokeInv, U!Types, U!TypeOK
  <2>2. \A p \in U!Pairs : v3[p] = q => v3'[p] = q
    BY <1>1, ReleaseGivesBack
  <2> QED
    BY <1>1, <1>6, <1>7, <2>1, <2>2, OthersKept
<1>9. U!Ends(r)'
  <2>1. \A p \in w.before :
          /\ p \in Requests => U!At(p, "done")
          /\ p \notin U!Live \/ v3[p] = r
    BY <1>1, <1>2 DEF U!Ends, U!At
  <2>2. \A p \in w.before : v3[p] = r => p \notin U!Live'
    BY <1>2, <1>4 DEF U!Live
  <2>3. \A p \in w.before : p \notin U!Live'
    BY <1>7, <2>1, <2>2
  <2> QED
    BY <1>2, <1>3, <1>6, <2>1, <2>3 DEF U!Ends
<1>10. U!IssuedByCommit'
  BY <1>4, <1>6 DEF U!RevokeInv, U!IssuedByCommit
<1> QED
  BY <1>5, <1>8, <1>9, <1>10 DEF U!RevokeInv

(* A request that waits has not ended.                                     *)
LEMMA WaitersRun ==
  ASSUME NEW r \in Requests, U!Deadlocked(r)
  PROVE  ~U!At(r, "done")
<1>1. U!Waits(r) # {}
  BY DEF U!Deadlocked
<1> QED
  BY <1>1 DEF U!Waits, U!At

(* Every step keeps the invariant.                                         *)
LEMMA RevokeStep ==
  ASSUME U!SessionAssumption
  PROVE  U!RevokeInv /\ [U!Next]_(U!vars) => U!RevokeInv'
<1> SUFFICES ASSUME U!RevokeInv, [U!Next]_(U!vars) PROVE U!RevokeInv'
  OBVIOUS
<1>1. CASE UNCHANGED U!vars
  BY <1>1
     DEF U!vars, U!RevokeInv, U!Types, U!TypeOK, U!IssuedByCommit, U!Ends, U!At, U!Live
<1>2. ASSUME NEW r \in Requests, U!Begin(r) \/ U!Statement(r) \/ U!Fail(r)
      PROVE  U!RevokeInv'
  <2>1. CASE U!BreakDeadlock(r) \/ U!Fail(r)
    BY <2>1, WaitersRun, SessionRollbackStep DEF U!BreakDeadlock, U!Fail
  <2> QED
    BY <1>2, <2>1, SeeStep, TakeStep, SessionCommitStep DEF U!Statement
<1>3. ASSUME NEW p \in U!Pairs, U!Expire(p) PROVE U!RevokeInv'
  <2>1. /\ v2' \in [U!Pairs -> {"live", "revoked", "expired"}]
        /\ U!Live' \subseteq U!Live
        /\ UNCHANGED <<v1, v3, v4, v5>>
    BY <1>3 DEF U!Expire, U!RevokeInv, U!Types, U!TypeOK, U!Live
  <2>2. ASSUME NEW r \in Requests PROVE U!Ends(r)'
    BY <2>1, OthersKept DEF U!RevokeInv, U!At
  <2> QED
    BY <2>1, <2>2 DEF U!RevokeInv, U!Types, U!TypeOK, U!IssuedByCommit, U!At
<1>4. CASE U!Finished
  BY <1>1, <1>4 DEF U!Finished
<1> QED
  BY <1>1, <1>2, <1>3, <1>4 DEF U!Next

(* In the beginning no request has begun.                                  *)
LEMMA RevokeStart == ASSUME U!SessionAssumption, U!Init PROVE U!RevokeInv
BY DEF U!SessionAssumption, U!Init, U!RevokeInv, U!Types, U!TypeOK, U!IssuedByCommit,
       U!Ends, U!Unsent, U!Outside, U!Pairs

(* From the invariant: what was committed before has ended.                *)
LEMMA RevokeEnd == ASSUME U!RevokeInv PROVE U!EarlierPairsEnd
BY DEF U!RevokeInv, U!Ends, U!At, U!EarlierPairsEnd

-----------------------------------------------------------------------------
(* API keys.  A counter's requests are at most what Redis has counted, and *)
(* what they were admitted with is below the limit they read; and a commit *)
(* holds the row its stamp updated.                                        *)

(* Its own way of counting is the one of the library.                      *)
LEMMA AccessCounts ==
  \A S : /\ C!IsFiniteSet(S) <=> IsFiniteSet(S)
         /\ C!Cardinality(S) = Cardinality(S)
BY DEF C!IsFiniteSet, IsFiniteSet, C!Cardinality, Cardinality


(* A request that is refused has nothing any more.                         *)
LEMMA RefusedRecord ==
  ASSUME C!Types, NEW p \in Requests, C!Refused(p)
  PROVE  /\ v9' \in [Requests -> C!Outside \cup C!Uncounted \cup C!Counted]
         /\ v9'[p].pc = "refused" /\ "counter" \notin DOMAIN v9'[p]
         /\ \A q \in Requests \ {p} : v9'[q] = v9[q]
<1>1. [pc |-> "refused"] \in C!Outside
  BY DEF C!Outside
<1>2. v9' = [v9 EXCEPT ![p] = [pc |-> "refused"]]
  BY DEF C!Refused
<1> QED
  BY <1>1, <1>2 DEF C!Types

(* One that goes on keeps its limit and its counter.                       *)
LEMMA MovedRecord ==
  ASSUME C!Types, NEW p \in Requests, NEW pc, v9' = C!Goto(p, pc),
         \/ /\ v9[p].pc \in {"tenant", "agent", "count"}
            /\ pc \in {"agent", "count", "use"}
         \/ /\ v9[p].pc \in {"use", "turn", "commit"}
            /\ pc \in {"turn", "commit", "served"}
  PROVE  /\ v9' \in [Requests -> C!Outside \cup C!Uncounted \cup C!Counted]
         /\ v9'[p].pc = pc
         /\ "counter" \in DOMAIN v9'[p] =>
              /\ "counter" \in DOMAIN v9[p]
              /\ v9'[p].counter = v9[p].counter
              /\ v9'[p].limit = v9[p].limit
         /\ \A q \in Requests \ {p} : v9'[q] = v9[q]
<1> DEFINE x == [v9[p] EXCEPT !.pc = pc]
<1>1. v9' = [v9 EXCEPT ![p] = x] /\ v9[p] \in C!Uncounted \cup C!Counted
  BY DEF C!Goto, C!Types, C!Outside
<1>2. CASE v9[p] \in C!Uncounted
  <2>1. x \in C!Uncounted /\ x.pc = pc /\ "counter" \notin DOMAIN x
    BY <1>2 DEF C!Uncounted
  <2> HIDE DEF x
  <2> QED
    BY <1>1, <2>1 DEF C!Types
<1>3. CASE v9[p] \in C!Counted
  <2>1. /\ x \in C!Counted /\ x.pc = pc /\ "counter" \in DOMAIN v9[p]
        /\ x.counter = v9[p].counter /\ x.limit = v9[p].limit
    BY <1>3 DEF C!Counted
  <2> HIDE DEF x
  <2> QED
    BY <1>1, <2>1 DEF C!Types
<1> QED
  BY <1>1, <1>2, <1>3

(* What a request does besides being counted, and what it may touch.       *)
Uncounting(p) ==
  \/ C!ReadKey(p) \/ C!ReadTenant(p) \/ C!ReadAgent(p) \/ C!CheckFails(p)
  \/ C!RecordUse(p) \/ C!Refuse(p) \/ C!WriteTurn(p) \/ C!Commit(p) \/ C!BreakDeadlock(p)

(* A caller that moves on leaves the others where they are.                *)
LEMMA CallerMoves ==
  ASSUME C!AccessAssumption, C!Types, NEW p \in Requests, Uncounting(p)
  PROVE  /\ C!Types'
         /\ UNCHANGED <<v2, v8, v7>>
         /\ "counter" \in DOMAIN v9'[p] =>
              /\ "counter" \in DOMAIN v9[p]
              /\ v9'[p].counter = v9[p].counter
              /\ v9'[p].limit = v9[p].limit
         /\ \A q \in Requests \ {p} : v9'[q] = v9[q]
         /\ v9'[p].pc \in {"turn", "commit"} =>
              \/ C!At(p, "use") /\ v9'[p].pc = "turn" /\ v6' = p /\ v2 # "gone"
              \/ C!At(p, "turn") /\ v6' = v6 /\ v5 = "there" /\ v5' = "there"
              \/ v9'[p] = v9[p] /\ v6' = v6 /\ v5' = "there"
         /\ \A q \in Requests \ {p} : v6 = q => v6' = q
         /\ v5 = "there" => v5' = "there"
<1> USE DEF Uncounting
<1>1. /\ v9 \in [Requests -> C!Outside \cup C!Uncounted \cup C!Counted]
      /\ v3 \in Nat /\ v7 \in Nat
      /\ \A c \in DOMAIN v8 : v8[c] \in Nat
      /\ C!NoOne \notin Requests
  BY DEF C!Types, C!AccessAssumption
<1>2. /\ UNCHANGED <<v2, v8, v7, v3>>
      /\ v5 = "there" => v5' = "there"
  BY DEF C!ReadKey, C!ReadTenant, C!ReadAgent, C!CheckFails, C!RecordUse, C!Refuse,
         C!WriteTurn, C!Commit, C!BreakDeadlock, C!World
<1>3. \A q \in Requests \ {p} : v6 = q => v6' = q
  BY <1>1 DEF C!ReadKey, C!ReadTenant, C!ReadAgent, C!CheckFails, C!RecordUse, C!Refuse,
              C!WriteTurn, C!Commit, C!BreakDeadlock, C!Release, C!Stamped, C!Deadlocked
<1>4. CASE C!Refused(p)
  BY <1>1, <1>2, <1>3, <1>4, RefusedRecord DEF C!Types
<1>5. CASE C!ReadKey(p) /\ v2 = "live"
  <2>1. PICK w \in Processes :
          v9' = [v9 EXCEPT ![p] = [pc |-> "tenant", process |-> w, limit |-> v3]]
    BY <1>5 DEF C!ReadKey
  <2> DEFINE x == [pc |-> "tenant", process |-> w, limit |-> v3]
  <2>2. x \in C!Uncounted /\ x.pc = "tenant" /\ "counter" \notin DOMAIN x
    BY <1>1 DEF C!Uncounted
  <2> HIDE DEF x
  <2>3. v9' = [v9 EXCEPT ![p] = x]
    BY <2>1 DEF x
  <2> QED
    BY <1>1, <1>2, <1>3, <2>2, <2>3 DEF C!Types
<1>6. CASE (C!ReadTenant(p) \/ C!ReadAgent(p) \/ C!CheckFails(p)) /\ ~C!Refused(p)
  <2>1. PICK pc \in {"agent", "count", "use"} : v9' = C!Goto(p, pc)
    BY <1>6 DEF C!ReadTenant, C!ReadAgent, C!CheckFails
  <2>2. v9[p].pc \in {"tenant", "agent", "count"}
    BY <1>6 DEF C!ReadTenant, C!ReadAgent, C!CheckFails, C!At
  <2> QED
    BY <1>1, <1>2, <1>3, <2>1, <2>2, MovedRecord DEF C!Types
<1>7. CASE C!RecordUse(p) /\ v2 # "gone"
  <2>1. v9' = C!Goto(p, "turn") /\ C!At(p, "use") /\ v6' = p
    BY <1>7 DEF C!RecordUse, C!Stamped
  <2> QED
    BY <1>1, <1>2, <1>3, <1>7, <2>1, MovedRecord DEF C!Types, C!At
<1>8. CASE C!WriteTurn(p) /\ v5 = "there"
  <2>1. v9' = C!Goto(p, "commit") /\ C!At(p, "turn") /\ v6' = v6
    BY <1>8 DEF C!WriteTurn
  <2> QED
    BY <1>1, <1>2, <1>3, <1>8, <2>1, MovedRecord DEF C!Types, C!At
<1>9. CASE C!Commit(p)
  <2>1. v9' = C!Goto(p, "served") /\ C!At(p, "commit")
    BY <1>9 DEF C!Commit
  <2> QED
    BY <1>1, <1>2, <1>3, <2>1, MovedRecord DEF C!Types, C!At
<1>10. CASE C!BreakDeadlock(p) /\ ~C!Refused(p)
  <2>1. UNCHANGED <<v9, v6>> /\ v5' = "there"
    BY <1>10 DEF C!BreakDeadlock
  <2> QED
    BY <1>1, <1>2, <1>3, <2>1 DEF C!Types
<1> QED
  BY <1>4, <1>5, <1>6, <1>7, <1>8, <1>9, <1>10
     DEF C!ReadKey, C!ReadTenant, C!ReadAgent, C!RecordUse, C!Refuse, C!WriteTurn, C!Refused

(* A hit counts one more, and keeps the current counters.                  *)
LEMMA HitCounts ==
  ASSUME C!Types, NEW p \in Requests, v8' = C!Hit(C!Counter(p))
  PROVE  /\ \A c \in DOMAIN v8' : v8'[c] \in Nat
         /\ C!Counter(p) \in DOMAIN v8' /\ v8'[C!Counter(p)] = C!Used(C!Counter(p))
         /\ \A c \in DOMAIN v8 : c # C!Counter(p) /\ c[2] = v7 =>
              c \in DOMAIN v8' /\ v8'[c] = v8[c]
<1> DEFINE k == C!Counter(p)
           used == C!Used(k)
<1>1. used \in Nat
  BY DEF C!Used, C!Types
<1>2. v8' = [d \in C!Kept \cup {k} |-> IF d # k THEN v8[d] ELSE used]
  BY DEF C!Hit, C!Used
<1>3. C!Kept \subseteq DOMAIN v8
  BY DEF C!Kept
<1> HIDE DEF k, used
<1>4. /\ DOMAIN v8' = C!Kept \cup {k} /\ v8'[k] = used
      /\ \A d \in C!Kept : d # k => v8'[d] = v8[d]
  BY <1>2
<1>5. \A c \in DOMAIN v8 : c[2] = v7 => c \in C!Kept
  BY DEF C!Kept, C!Types
<1> QED
  BY <1>1, <1>3, <1>4, <1>5 DEF C!Types, k, used

(* Being counted changes the request and the counters and nothing else.    *)
LEMMA CheckMoves ==
  ASSUME C!AccessAssumption, C!Types, NEW p \in Requests, C!Check(p)
  PROVE  /\ C!Types'
         /\ UNCHANGED <<v2, v7, v6, v5>>
         /\ v9'[p].pc \in {"use", "refused"}
         /\ \A q \in Requests \ {p} : v9'[q] = v9[q]
         /\ "counter" \in DOMAIN v9'[p] =>
              /\ v9'[p].counter = C!Counter(p) /\ v9'[p].limit = v9[p].limit
              /\ C!Used(C!Counter(p)) <= v9[p].limit
         /\ C!Counter(p) \in C!Counters /\ C!Counter(p)[2] = v7
<1>1. /\ v9[p] \in C!Uncounted
      /\ UNCHANGED <<v2, v7, v6, v5, v3>>
      /\ v8' = C!Hit(C!Counter(p))
  BY DEF C!Check, C!At, C!World, C!Types, C!Outside, C!Counted
<1>2. C!Counter(p) \in C!Counters /\ C!Counter(p)[2] = v7
  BY <1>1 DEF C!Counter, C!Counters, C!Uncounted, C!Types
<1>3. \A c \in DOMAIN v8' : v8'[c] \in Nat
  BY <1>1, HitCounts
<1>4. CASE C!Used(C!Counter(p)) <= v9[p].limit
  <2> DEFINE x == [pc |-> "use", process |-> v9[p].process,
                   limit |-> v9[p].limit, counter |-> C!Counter(p)]
  <2>1. v9' = [v9 EXCEPT ![p] = x]
    BY <1>4 DEF C!Check
  <2>2. x \in C!Counted
    BY <1>1, <1>2 DEF C!Uncounted, C!Counted
  <2>3. x.pc = "use" /\ x.counter = C!Counter(p) /\ x.limit = v9[p].limit
    OBVIOUS
  <2> HIDE DEF x
  <2>4. /\ v9' \in [Requests -> C!Outside \cup C!Uncounted \cup C!Counted]
        /\ v9'[p] = x /\ \A q \in Requests \ {p} : v9'[q] = v9[q]
    BY <2>1, <2>2 DEF C!Types
  <2> QED
    BY <1>1, <1>2, <1>3, <1>4, <2>3, <2>4 DEF C!Types
<1>5. CASE ~(C!Used(C!Counter(p)) <= v9[p].limit)
  <2>1. C!Refused(p)
    BY <1>5 DEF C!Check
  <2> QED
    BY <1>1, <1>2, <1>3, <2>1, RefusedRecord DEF C!Types
<1> QED
  BY <1>4, <1>5

(* The console, the windows and what stands still.                         *)
LEMMA ConsoleMoves ==
  ASSUME C!AccessAssumption, C!Types,
         C!Console \/ C!NextWindow \/ C!Finished \/ UNCHANGED C!vars
  PROVE  /\ C!Types' /\ UNCHANGED <<v9, v8, v6>>
         /\ v7' # v7 => C!NextWindow
         /\ v6 # C!NoOne => v2' = v2
         /\ (\E p \in Requests : C!At(p, "commit")) /\ v5 = "there" => v5' = "there"
<1>1. UNCHANGED <<v9, v8, v6>>
  BY DEF C!Console, C!ChangeKey, C!Switch, C!Delete, C!Cascade, C!NextWindow,
         C!Finished, C!vars
<1>2. v3' \in Nat /\ v7' \in Nat
  BY DEF C!Console, C!ChangeKey, C!Switch, C!Delete, C!Cascade, C!NextWindow,
         C!Finished, C!vars, C!AccessAssumption, C!Types
<1>3. C!Types'
  BY <1>1, <1>2 DEF C!Types
<1>4. /\ v7' # v7 => C!NextWindow
      /\ v6 # C!NoOne => v2' = v2
  BY DEF C!Console, C!ChangeKey, C!Switch, C!Delete, C!Cascade, C!Finished, C!vars,
         C!NextWindow
<1>5. ASSUME NEW p \in Requests, C!At(p, "commit"), v5 = "there"
      PROVE  v5' = "there"
  BY <1>5
     DEF C!Console, C!ChangeKey, C!Switch, C!Delete, C!Cascade, C!NextWindow,
         C!Finished, C!vars, C!Referring
<1> QED
  BY <1>1, <1>3, <1>4, <1>5

(* Every step keeps the invariant of the stamp, and commits a turn only    *)
(* under it.                                                               *)
LEMMA LivingStep ==
  ASSUME C!AccessAssumption
  PROVE  C!LivingInv /\ [C!Next]_(C!vars) => C!LivingInv' /\ C!ServesTheLivingStep
<1> SUFFICES ASSUME C!LivingInv, [C!Next]_(C!vars)
             PROVE  C!LivingInv' /\ C!ServesTheLivingStep
  OBVIOUS
<1>1. C!ServesTheLivingStep
  BY DEF C!LivingInv, C!StampHolds, C!ServesTheLivingStep, C!At
<1>2. C!Types /\ C!StampHolds /\ C!NoOne \notin Requests
  BY DEF C!LivingInv, C!AccessAssumption
<1>3. ASSUME NEW p \in Requests, Uncounting(p) PROVE C!LivingInv'
  <2>1. /\ C!Types' /\ UNCHANGED v2
        /\ \A q \in Requests \ {p} : v9'[q] = v9[q]
        /\ \A q \in Requests \ {p} : v6 = q => v6' = q
        /\ v5 = "there" => v5' = "there"
    BY <1>2, <1>3, CallerMoves
  <2>2. v9'[p].pc \in {"turn", "commit"} =>
          \/ C!At(p, "use") /\ v9'[p].pc = "turn" /\ v6' = p /\ v2 # "gone"
          \/ C!At(p, "turn") /\ v6' = v6 /\ v5 = "there" /\ v5' = "there"
          \/ v9'[p] = v9[p] /\ v6' = v6 /\ v5' = "there"
    BY <1>2, <1>3, CallerMoves
  <2>3. /\ v9'[p].pc \in {"turn", "commit"} => v6' = p /\ v2' # "gone"
        /\ v9'[p].pc = "commit" => v5' = "there"
    BY <1>2, <2>1, <2>2 DEF C!StampHolds, C!At
  <2>4. ASSUME NEW q \in Requests \ {p}
        PROVE  /\ v9'[q].pc \in {"turn", "commit"} => v6' = q /\ v2' # "gone"
               /\ v9'[q].pc = "commit" => v5' = "there"
    BY <1>2, <2>1 DEF C!StampHolds, C!At
  <2> QED
    BY <2>1, <2>3, <2>4 DEF C!LivingInv, C!StampHolds, C!At
<1>4. ASSUME NEW p \in Requests, C!Check(p) PROVE C!LivingInv'
  <2>1. /\ C!Types' /\ UNCHANGED <<v2, v6, v5>>
        /\ v9'[p].pc \in {"use", "refused"}
        /\ \A q \in Requests \ {p} : v9'[q] = v9[q]
    BY <1>2, <1>4, CheckMoves
  <2> QED
    BY <1>2, <2>1 DEF C!LivingInv, C!StampHolds, C!At
<1>5. CASE C!Console \/ C!NextWindow \/ C!Finished \/ UNCHANGED C!vars
  <2>1. /\ C!Types' /\ UNCHANGED <<v9, v6>>
        /\ v6 # C!NoOne => v2' = v2
        /\ (\E p \in Requests : C!At(p, "commit")) /\ v5 = "there" => v5' = "there"
    BY <1>2, <1>5, ConsoleMoves
  <2>2. ASSUME NEW q \in Requests
        PROVE  /\ v9[q].pc \in {"turn", "commit"} => v6 = q /\ v2' # "gone"
               /\ v9[q].pc = "commit" => v5' = "there"
    <3>1. CASE v9[q].pc \in {"turn", "commit"}
      <4>1. v6 = q /\ q # C!NoOne /\ v2 # "gone"
        BY <1>2, <3>1 DEF C!StampHolds
      <4>2. v9[q].pc = "commit" => v5 = "there"
        BY <1>2 DEF C!StampHolds, C!At
      <4> QED
        BY <2>1, <4>1, <4>2 DEF C!At
    <3> QED
      BY <3>1
  <2>3. C!StampHolds'
    BY <2>1, <2>2 DEF C!StampHolds, C!At
  <2> QED
    BY <1>1, <2>1, <2>3 DEF C!LivingInv
<1> QED
  BY <1>1, <1>3, <1>4, <1>5 DEF C!Next, C!Statement, Uncounting

(* A set of requests has a cardinality, and one more at most has one more. *)
LEMMA AdmittedIsFinite ==
  ASSUME C!AccessAssumption, NEW S \in SUBSET Requests
  PROVE  IsFiniteSet(S) /\ Cardinality(S) \in Nat
BY FS_Subset, FS_CardinalityType, AccessCounts DEF C!AccessAssumption

(* As long as no counter and no window moves, fewer requests are admitted. *)
LEMMA FewerAdmitted ==
  ASSUME C!AccessAssumption, C!AllowanceInv, C!Types', UNCHANGED <<v8, v7>>,
         \A p \in Requests : "counter" \in DOMAIN v9'[p] =>
           /\ "counter" \in DOMAIN v9[p]
           /\ v9'[p].counter = v9[p].counter
           /\ v9'[p].limit = v9[p].limit
  PROVE  C!AllowanceInv'
<1>1. \A c \in C!Counters : C!Admitted(c)' \subseteq C!Admitted(c)
  BY DEF C!Admitted
<1>2. C!WithinLimit'
  <2> SUFFICES ASSUME NEW c \in C!Counters, NEW S \in SUBSET C!Admitted(c)', S # {}
               PROVE  \E q \in S : Cardinality(S) <= v9'[q].limit
    BY AccessCounts DEF C!WithinLimit
  <2>1. PICK q \in S : Cardinality(S) <= v9[q].limit
    BY <1>1, AccessCounts DEF C!AllowanceInv, C!WithinLimit
  <2>2. v9'[q].limit = v9[q].limit
    BY DEF C!Admitted
  <2> QED
    BY <2>1, <2>2
<1>3. C!CountedAll'
  <2>1. \A p \in Requests : "counter" \in DOMAIN v9'[p] =>
          v9'[p].counter[2] <= v7'
    BY DEF C!AllowanceInv, C!CountedAll
  <2>2. ASSUME NEW c \in C!Counters, c[2] = v7
        PROVE  Cardinality(C!Admitted(c)') <= IF c \in DOMAIN v8 THEN v8[c] ELSE 0
    <3>1. /\ C!Admitted(c) \in SUBSET Requests /\ C!Admitted(c)' \in SUBSET Requests
          /\ Cardinality(C!Admitted(c)) <= IF c \in DOMAIN v8 THEN v8[c] ELSE 0
          /\ c \in DOMAIN v8 => v8[c] \in Nat
      BY <2>2, AccessCounts DEF C!AllowanceInv, C!CountedAll, C!Admitted, C!Types
    <3>2. Cardinality(C!Admitted(c)') <= Cardinality(C!Admitted(c))
      BY <1>1, <3>1, AdmittedIsFinite, FS_Subset
    <3>3. Cardinality(C!Admitted(c)') \in Nat /\ Cardinality(C!Admitted(c)) \in Nat
      BY <3>1, AdmittedIsFinite
    <3> QED
      BY <3>1, <3>2, <3>3
  <2> QED
    BY <2>1, <2>2, AccessCounts DEF C!CountedAll
<1> QED
  BY <1>2, <1>3 DEF C!AllowanceInv

(* One more is admitted only within its own limit.                         *)
LEMMA CheckStep ==
  ASSUME C!AccessAssumption, C!AllowanceInv, NEW p \in Requests, C!Check(p)
  PROVE  C!AllowanceInv'
<1> DEFINE k == C!Counter(p)
           used == C!Used(k)
           count(c) == IF c \in DOMAIN v8 THEN v8[c] ELSE 0
           count2(c) == IF c \in DOMAIN v8' THEN v8'[c] ELSE 0
<1>1. /\ C!Types /\ C!WithinLimit /\ C!CountedAll
      /\ v8' = C!Hit(k) /\ v9[p] \in C!Uncounted
  BY DEF C!AllowanceInv, C!Check, C!Types, C!At, C!Outside, C!Counted
<1>2. /\ C!Types' /\ UNCHANGED v7
      /\ \A q \in Requests \ {p} : v9'[q] = v9[q]
      /\ "counter" \in DOMAIN v9'[p] =>
           /\ v9'[p].counter = k /\ v9'[p].limit = v9[p].limit
           /\ used <= v9[p].limit
      /\ k \in C!Counters /\ k[2] = v7
  BY <1>1, CheckMoves
<1>3. /\ k \in DOMAIN v8' /\ v8'[k] = used /\ used = count(k) + 1
      /\ \A c \in DOMAIN v8 : c # k /\ c[2] = v7 =>
           c \in DOMAIN v8' /\ v8'[c] = v8[c]
      /\ \A c \in DOMAIN v8' : v8'[c] \in Nat
      /\ \A c \in DOMAIN v8 : v8[c] \in Nat
  BY <1>1, HitCounts DEF C!Used, C!Types
<1>4. "counter" \notin DOMAIN v9[p]
  BY <1>1 DEF C!Uncounted
<1> HIDE DEF k, used
<1>5. ASSUME NEW c \in C!Counters
      PROVE  /\ C!Admitted(c) \in SUBSET Requests /\ p \notin C!Admitted(c)
             /\ C!Admitted(c)' \subseteq C!Admitted(c) \cup {p}
             /\ p \in C!Admitted(c)' => c = k /\ used <= v9'[p].limit
  BY <1>2, <1>4 DEF C!Admitted
<1>6. ASSUME NEW c \in C!Counters, NEW S \in SUBSET C!Admitted(c)'
      PROVE  /\ IsFiniteSet(S) /\ Cardinality(S) \in Nat
             /\ Cardinality(C!Admitted(c)) \in Nat
             /\ p \in S => Cardinality(S) <= Cardinality(C!Admitted(c)) + 1
             /\ p \notin S => Cardinality(S) <= Cardinality(C!Admitted(c))
  <2>1. /\ IsFiniteSet(C!Admitted(c)) /\ Cardinality(C!Admitted(c)) \in Nat
        /\ S \subseteq C!Admitted(c) \cup {p}
    BY <1>5, AdmittedIsFinite
  <2>2. /\ IsFiniteSet(C!Admitted(c) \cup {p})
        /\ Cardinality(C!Admitted(c) \cup {p}) = Cardinality(C!Admitted(c)) + 1
    BY <1>5, <2>1, FS_AddElement
  <2>3. IsFiniteSet(S) /\ Cardinality(S) <= Cardinality(C!Admitted(c) \cup {p})
    BY <2>1, <2>2, FS_Subset
  <2>4. Cardinality(S) \in Nat
    BY <2>3, FS_CardinalityType
  <2>5. ASSUME p \notin S PROVE Cardinality(S) <= Cardinality(C!Admitted(c))
    <3>1. S \subseteq C!Admitted(c)
      BY <2>1, <2>5
    <3> QED
      BY <2>1, <3>1, FS_Subset
  <2> QED
    BY <2>1, <2>2, <2>3, <2>4, <2>5
<1>7. C!WithinLimit'
  <2> SUFFICES ASSUME NEW c \in C!Counters, NEW S \in SUBSET C!Admitted(c)', S # {}
               PROVE  \E q \in S : Cardinality(S) <= v9'[q].limit
    BY AccessCounts DEF C!WithinLimit
  <2>1. CASE p \notin S
    <3>1. S \in SUBSET C!Admitted(c)
      BY <1>5, <2>1
    <3>2. PICK q \in S : Cardinality(S) <= v9[q].limit
      BY <1>1, <3>1, AccessCounts DEF C!WithinLimit
    <3>3. q \in Requests \ {p}
      BY <1>5, <2>1, <3>1
    <3> QED
      BY <1>2, <3>2, <3>3
  <2>2. CASE p \in S
    <3>1. c = k /\ used <= v9'[p].limit
      BY <1>5, <2>2
    <3>2. Cardinality(C!Admitted(c)) <= count(c)
      BY <1>1, <1>2, <3>1, AccessCounts DEF C!CountedAll
    <3>3. /\ Cardinality(S) \in Nat /\ Cardinality(C!Admitted(c)) \in Nat
          /\ Cardinality(S) <= Cardinality(C!Admitted(c)) + 1
      BY <1>6, <2>2
    <3>4. count(c) \in Nat /\ used = count(c) + 1
      BY <1>3, <3>1
    <3>5. v9'[p].limit \in Nat
      <4>1. "counter" \in DOMAIN v9'[p]
        BY <2>2 DEF C!Admitted
      <4>2. v9'[p] \in C!Outside \cup C!Uncounted \cup C!Counted
        BY <1>2 DEF C!Types
      <4> QED
        BY <4>1, <4>2 DEF C!Outside, C!Uncounted, C!Counted
    <3> HIDE DEF count
    <3> QED
      BY <2>2, <3>1, <3>2, <3>3, <3>4, <3>5
  <2> QED
    BY <2>1, <2>2
<1>8. C!CountedAll'
  <2>1. \A q \in Requests : "counter" \in DOMAIN v9'[q] =>
          v9'[q].counter[2] <= v7'
    BY <1>1, <1>2 DEF C!CountedAll, C!Types
  <2>2. ASSUME NEW c \in C!Counters, c[2] = v7
        PROVE  Cardinality(C!Admitted(c)') <= count2(c)
    <3>1. /\ Cardinality(C!Admitted(c)) <= count(c)
          /\ count(c) \in Nat /\ count2(c) \in Nat
      BY <1>1, <1>3, <2>2, AccessCounts DEF C!CountedAll
    <3>2. /\ Cardinality(C!Admitted(c)') \in Nat /\ Cardinality(C!Admitted(c)) \in Nat
          /\ p \in C!Admitted(c)' => Cardinality(C!Admitted(c)') <= Cardinality(C!Admitted(c)) + 1
          /\ p \notin C!Admitted(c)' => Cardinality(C!Admitted(c)') <= Cardinality(C!Admitted(c))
      BY <1>6
    <3>3. CASE c = k
      <4>1. count2(c) = count(c) + 1
        BY <1>3, <3>3
      <4> HIDE DEF count, count2
      <4> QED
        BY <3>1, <3>2, <4>1
    <3>4. CASE c # k
      <4>1. p \notin C!Admitted(c)'
        BY <1>5, <3>4
      <4>2. count(c) <= count2(c)
        BY <1>3, <2>2, <3>1, <3>4
      <4> HIDE DEF count, count2
      <4> QED
        BY <3>1, <3>2, <4>1, <4>2
    <3> QED
      BY <3>3, <3>4
  <2> QED
    BY <1>2, <2>1, <2>2, AccessCounts DEF C!CountedAll
<1> QED
  BY <1>2, <1>7, <1>8 DEF C!AllowanceInv

(* The counters of a new window have admitted nobody.                      *)
LEMMA WindowStep ==
  ASSUME C!AccessAssumption, C!AllowanceInv, C!NextWindow
  PROVE  C!AllowanceInv'
<1>1. /\ C!Types /\ C!WithinLimit /\ C!CountedAll
      /\ UNCHANGED <<v9, v8>> /\ v7' = v7 + 1 /\ v7 \in Nat
  BY DEF C!AllowanceInv, C!NextWindow, C!Types
<1>2. C!Types'
  BY <1>1, ConsoleMoves
<1>3. \A c : C!Admitted(c)' = C!Admitted(c)
  BY <1>1 DEF C!Admitted
<1>4. C!WithinLimit'
  BY <1>1, <1>3 DEF C!WithinLimit
<1>5. ASSUME NEW c \in C!Counters, c[2] = v7'
      PROVE  C!Admitted(c) = {}
  BY <1>1, <1>5 DEF C!Admitted, C!CountedAll
<1>6. ASSUME NEW q \in Requests, "counter" \in DOMAIN v9[q]
      PROVE  v9[q].counter[2] <= v7'
  <2>1. v9[q] \in C!Counted
    BY <1>1, <1>6 DEF C!Types, C!Outside, C!Uncounted
  <2>2. v9[q].counter[2] \in Nat
    BY <2>1 DEF C!Counted, C!Counters
  <2>3. v9[q].counter[2] <= v7
    BY <1>1, <1>6 DEF C!CountedAll
  <2> QED
    BY <1>1, <2>2, <2>3
<1>7. C!CountedAll'
  <2>1. Cardinality({}) = 0
    BY FS_EmptySet
  <2>2. \A c \in DOMAIN v8 : v8[c] \in Nat
    BY <1>1 DEF C!Types
  <2>3. ASSUME NEW c \in C!Counters, c[2] = v7'
        PROVE  Cardinality(C!Admitted(c)') <= IF c \in DOMAIN v8' THEN v8'[c] ELSE 0
    <3>1. Cardinality(C!Admitted(c)') = 0
      BY <1>3, <1>5, <2>1, <2>3
    <3>2. c \in DOMAIN v8' => v8'[c] \in Nat
      BY <1>1, <2>2
    <3> QED
      BY <3>1, <3>2
  <2>4. \A q \in Requests : "counter" \in DOMAIN v9'[q] =>
          v9'[q].counter[2] <= v7'
    BY <1>1, <1>6
  <2> QED
    BY <2>3, <2>4, AccessCounts DEF C!CountedAll
<1> QED
  BY <1>2, <1>4, <1>7 DEF C!AllowanceInv

(* Every step keeps the invariant of the counters.                         *)
LEMMA AllowanceStep ==
  ASSUME C!AccessAssumption
  PROVE  C!AllowanceInv /\ [C!Next]_(C!vars) => C!AllowanceInv'
<1> SUFFICES ASSUME C!AllowanceInv, [C!Next]_(C!vars) PROVE C!AllowanceInv'
  OBVIOUS
<1>1. C!Types
  BY DEF C!AllowanceInv
<1>2. ASSUME NEW p \in Requests, Uncounting(p) PROVE C!AllowanceInv'
  <2>1. /\ C!Types' /\ UNCHANGED <<v8, v7>>
        /\ "counter" \in DOMAIN v9'[p] =>
             /\ "counter" \in DOMAIN v9[p]
             /\ v9'[p].counter = v9[p].counter
             /\ v9'[p].limit = v9[p].limit
        /\ \A q \in Requests \ {p} : v9'[q] = v9[q]
    BY <1>1, <1>2, CallerMoves
  <2> QED
    BY <2>1, FewerAdmitted
<1>3. CASE C!Console \/ C!NextWindow \/ C!Finished \/ UNCHANGED C!vars
  <2>1. C!Types' /\ UNCHANGED <<v9, v8>> /\ (v7' # v7 => C!NextWindow)
    BY <1>1, <1>3, ConsoleMoves
  <2> QED
    BY <2>1, FewerAdmitted, WindowStep
<1> QED
  BY <1>2, <1>3, CheckStep DEF C!Next, C!Statement, Uncounting

(* In the beginning nobody has been admitted and nothing is counted.       *)
LEMMA AccessStart ==
  ASSUME C!AccessAssumption
  PROVE  C!Init => C!LivingInv /\ C!AllowanceInv
<1> SUFFICES ASSUME C!Init PROVE C!LivingInv /\ C!AllowanceInv
  OBVIOUS
<1>1. [pc |-> "unsent"] \in C!Outside
  BY DEF C!Outside
<1>2. C!Types
  BY <1>1 DEF C!Init, C!Types, C!AccessAssumption
<1>3. C!StampHolds
  BY DEF C!Init, C!StampHolds, C!At
<1>4. \A c : C!Admitted(c) = {}
  BY DEF C!Init, C!Admitted
<1>5. Cardinality({}) = 0
  BY FS_EmptySet
<1>6. C!WithinLimit
  BY <1>4 DEF C!WithinLimit
<1>7. C!CountedAll
  <2>1. \A p \in Requests : "counter" \notin DOMAIN v9[p]
    BY DEF C!Init
  <2>2. v8 = <<>> /\ DOMAIN v8 = {}
    BY DEF C!Init
  <2>3. \A c \in C!Counters : Cardinality(C!Admitted(c)) <= IF c \in DOMAIN v8 THEN v8[c] ELSE 0
    BY <1>4, <1>5, <2>2
  <2> QED
    BY <2>1, <2>3, AccessCounts DEF C!CountedAll
<1> QED
  BY <1>2, <1>3, <1>6, <1>7 DEF C!LivingInv, C!AllowanceInv

(* From the invariant: the allowance holds.                                *)
LEMMA AccessEnd ==
  C!AllowanceInv => C!AllowanceHolds
<1> SUFFICES ASSUME C!AllowanceInv, NEW p \in Requests, "counter" \in DOMAIN v9[p]
             PROVE  \E q \in C!Admitted(v9[p].counter) :
                      Cardinality(C!Admitted(v9[p].counter)) <= v9[q].limit
  BY AccessCounts DEF C!AllowanceHolds
<1>1. v9[p] \in C!Counted
  BY DEF C!AllowanceInv, C!Types, C!Outside, C!Uncounted
<1>2. v9[p].counter \in C!Counters /\ p \in C!Admitted(v9[p].counter)
  BY <1>1 DEF C!Counted, C!Admitted
<1> QED
  BY <1>2, AccessCounts DEF C!AllowanceInv, C!WithinLimit

-----------------------------------------------------------------------------
(* The management API.  Whatever is found, listed, made, altered or        *)
(* removed belongs to the tenant the request is scoped to, because rows    *)
(* refer to rows of their own tenant only, and every handler looks up what *)
(* it touches.                                                             *)

(* The kinds of rows.                                                      *)
LEMMA KindsAre ==
  /\ M!Kinds = {"tenant", "user", "token", "agent", "version", "kb", "source", "link",
                "tool", "policy", "call", "conversation", "message", "key", "webhook",
                "config", "wa"}
  /\ \A k \in M!Kinds : M!Parents[k] \subseteq M!Kinds
  /\ \A k \in M!Kinds : "user" \in M!Parents[k] => k = "token"
BY DEF M!Kinds, M!Parents

(* The paths of all handlers but those of personal access tokens.          *)
Paths == {looks \in Seq(M!Kinds) : \A n \in 1..Len(looks) : looks[n] # "token"}

(* Paths of up to two kinds, and the one of three.                         *)
LEMMA PathsAre ==
  /\ <<>> \in Paths
  /\ \A j \in M!Kinds \ {"token"} : <<j>> \in Paths /\ Len(<<j>>) > 0
  /\ \A j, k \in M!Kinds \ {"token"} : <<j, k>> \in Paths /\ Len(<<j, k>>) > 0
  /\ <<"kb", "agent", "link">> \in Paths /\ Len(<<"kb", "agent", "link">>) > 0
<1>1. <<>> \in Paths
  BY DEF Paths
<1>2. ASSUME NEW j \in M!Kinds \ {"token"} PROVE <<j>> \in Paths /\ Len(<<j>>) > 0
  BY DEF Paths
<1>3. ASSUME NEW j \in M!Kinds \ {"token"}, NEW k \in M!Kinds \ {"token"}
      PROVE  <<j, k>> \in Paths /\ Len(<<j, k>>) > 0
  <2>1. <<j, k>> \in Seq(M!Kinds) /\ Len(<<j, k>>) = 2
    OBVIOUS
  <2>2. \A n \in 1..2 : <<j, k>>[n] = IF n = 1 THEN j ELSE k
    OBVIOUS
  <2> QED
    BY <2>1, <2>2 DEF Paths
<1>4. <<"kb", "agent", "link">> \in Paths /\ Len(<<"kb", "agent", "link">>) > 0
  <2> DEFINE looks == <<"kb", "agent", "link">>
  <2>1. looks \in Seq(M!Kinds) /\ Len(looks) = 3
    BY KindsAre
  <2>2. \A n \in 1..3 : looks[n] \in {"kb", "agent", "link"}
    OBVIOUS
  <2> HIDE DEF looks
  <2>3. looks \in Paths /\ Len(looks) > 0
    BY <2>1, <2>2 DEF Paths
  <2> QED
    BY <2>3 DEF looks
<1> QED
  BY <1>1, <1>2, <1>3, <1>4

(* A handler that reads or lists is one behind every door.                 *)
LEMMA ReadersAre ==
  ASSUME NEW door, NEW looks \in Paths, NEW kinds, "token" \notin kinds
  PROVE  M!Handled(door, M!Read(looks)) /\ M!Handled(door, M!List(looks, kinds))
<1>1. looks \in Seq(M!Kinds) /\ \A n \in 1..Len(looks) : looks[n] # "token"
  BY DEF Paths
<1>2. /\ M!Read(looks).looks = looks /\ M!Read(looks).lists = {} /\ ~M!Read(looks).alters
      /\ ~M!Read(looks).removes /\ M!Read(looks).makes = {} /\ M!Read(looks).ensures = {}
  BY DEF M!Read
<1>3. /\ M!List(looks, kinds).looks = looks /\ M!List(looks, kinds).lists = kinds
      /\ ~M!List(looks, kinds).alters /\ ~M!List(looks, kinds).removes
      /\ M!List(looks, kinds).makes = {} /\ M!List(looks, kinds).ensures = {}
  BY DEF M!Read, M!List
<1> QED
  BY <1>1, <1>2, <1>3 DEF M!Handled

(* One that alters or removes a row it found is behind every door but that *)
(* of readers.                                                             *)
LEMMA ChangersAre ==
  ASSUME NEW door, door # "read", NEW looks \in Paths, Len(looks) > 0
  PROVE  M!Handled(door, M!Change(looks)) /\ M!Handled(door, M!Remove(looks))
<1>1. looks \in Seq(M!Kinds) /\ \A n \in 1..Len(looks) : looks[n] # "token"
  BY DEF Paths
<1>2. /\ M!Change(looks).looks = looks /\ M!Change(looks).lists = {}
      /\ M!Change(looks).alters /\ ~M!Change(looks).removes
      /\ M!Change(looks).makes = {} /\ M!Change(looks).ensures = {}
  BY DEF M!Read, M!Change
<1>3. /\ M!Remove(looks).looks = looks /\ M!Remove(looks).lists = {}
      /\ ~M!Remove(looks).alters /\ M!Remove(looks).removes
      /\ M!Remove(looks).makes = {} /\ M!Remove(looks).ensures = {}
  BY DEF M!Read, M!Remove
<1> QED
  BY <1>1, <1>2, <1>3 DEF M!Handled

(* One that makes rows, also while it alters or ensures another.           *)
LEMMA MakersAre ==
  ASSUME NEW door \in {"tenant", "user", "write"}, NEW looks \in Paths,
         NEW kinds, kinds \subseteq M!Kinds \ {"token"}
  PROVE  /\ M!Handled(door, M!Make(looks, kinds))
         /\ Len(looks) > 0 => M!Handled(door, [M!Change(looks) EXCEPT !.makes = kinds])
<1>1. looks \in Seq(M!Kinds) /\ \A n \in 1..Len(looks) : looks[n] # "token"
  BY DEF Paths
<1>2. /\ M!Make(looks, kinds).looks = looks /\ M!Make(looks, kinds).lists = {}
      /\ ~M!Make(looks, kinds).alters /\ ~M!Make(looks, kinds).removes
      /\ M!Make(looks, kinds).makes = kinds /\ M!Make(looks, kinds).ensures = {}
  BY DEF M!Read, M!Make
<1> DEFINE h == [M!Change(looks) EXCEPT !.makes = kinds]
<1>3. /\ h.looks = looks /\ h.lists = {} /\ h.alters /\ ~h.removes
      /\ h.makes = kinds /\ h.ensures = {}
  BY DEF M!Read, M!Change
<1> HIDE DEF h
<1>4. M!Handled(door, M!Make(looks, kinds))
  BY <1>1, <1>2 DEF M!Handled
<1>5. Len(looks) > 0 => M!Handled(door, h)
  BY <1>1, <1>3 DEF M!Handled
<1> QED
  BY <1>4, <1>5 DEF h

(* One that makes the row it needs, unless it is there.                    *)
LEMMA EnsurersAre ==
  /\ \A door \in {"tenant", "read", "write"} :
       M!Handled(door, M!Ensure(<<"agent">>, {"policy"}))
  /\ \A door \in {"tenant", "write"} :
       /\ M!Handled(door, M!Ensure(<<"agent">>, {"config"}))
       /\ M!Handled(door, M!Ensure(<<"kb", "agent">>, {"link"}))
       /\ M!Handled(door, M!MakeTool)
<1>1. \A k \in {"policy", "config", "link"} : "agent" \in M!Parents[k] /\ k \in M!Kinds
  BY KindsAre DEF M!Parents
<1>2. "tool" \in M!Kinds
  BY KindsAre
<1>3. /\ <<"agent">> \in Seq(M!Kinds) /\ Len(<<"agent">>) = 1 /\ <<"agent">>[1] = "agent"
      /\ \A n \in 1..1 : <<"agent">>[n] # "token"
  BY KindsAre
<1>4. /\ <<"kb", "agent">> \in Seq(M!Kinds) /\ Len(<<"kb", "agent">>) = 2
      /\ <<"kb", "agent">>[2] = "agent"
      /\ \A n \in 1..2 : <<"kb", "agent">>[n] # "token"
  BY KindsAre
<1>5. ASSUME NEW door \in {"tenant", "read", "write"}, NEW k \in {"policy", "config"},
             door = "read" => k = "policy"
      PROVE  M!Handled(door, M!Ensure(<<"agent">>, {k}))
  <2> DEFINE looks == <<"agent">>
             h == M!Ensure(looks, {k})
  <2>1. /\ h.looks = looks /\ h.lists = {} /\ ~h.alters /\ ~h.removes
        /\ h.makes = {} /\ h.ensures = {k}
    BY DEF M!Read, M!Ensure
  <2>2. /\ looks \in Seq(M!Kinds) /\ Len(looks) = 1 /\ looks[1] = "agent"
        /\ \A n \in 1..1 : looks[n] # "token"
    BY <1>3
  <2> HIDE DEF h, looks
  <2>3. M!Handled(door, h)
    BY <1>1, <1>5, <2>1, <2>2 DEF M!Handled
  <2> QED
    BY <2>3 DEF h, looks
<1>6. ASSUME NEW door \in {"tenant", "write"}
      PROVE  M!Handled(door, M!Ensure(<<"kb", "agent">>, {"link"}))
  <2> DEFINE looks == <<"kb", "agent">>
             h == M!Ensure(looks, {"link"})
  <2>1. /\ h.looks = looks /\ h.lists = {} /\ ~h.alters /\ ~h.removes
        /\ h.makes = {} /\ h.ensures = {"link"}
    BY DEF M!Read, M!Ensure
  <2>2. /\ looks \in Seq(M!Kinds) /\ Len(looks) = 2 /\ looks[2] = "agent"
        /\ \A n \in 1..2 : looks[n] # "token"
    BY <1>4
  <2> HIDE DEF h, looks
  <2>3. M!Handled(door, h)
    BY <1>1, <1>6, <2>1, <2>2 DEF M!Handled
  <2> QED
    BY <2>3 DEF h, looks
<1>7. ASSUME NEW door \in {"tenant", "write"} PROVE M!Handled(door, M!MakeTool)
  <2> DEFINE looks == <<"agent">>
             h == M!MakeTool
  <2>1. /\ h.looks = looks /\ h.lists = {} /\ ~h.alters /\ ~h.removes
        /\ h.makes = {"tool"} /\ h.ensures = {"policy"}
    BY DEF M!Read, M!Make, M!MakeTool
  <2>2. /\ looks \in Seq(M!Kinds) /\ Len(looks) = 1 /\ looks[1] = "agent"
        /\ \A n \in 1..1 : looks[n] # "token"
    BY <1>3
  <2> HIDE DEF h, looks
  <2>3. M!Handled(door, h)
    BY <1>1, <1>2, <1>7, <2>1, <2>2 DEF M!Handled
  <2> QED
    BY <2>3 DEF h
<1> QED
  BY <1>5, <1>6, <1>7

(* The handlers, by what they serve.                                       *)
NamedPaths == {<<"agent">>, <<"kb">>, <<"tool">>, <<"conversation">>, <<"webhook">>, <<"key">>,
          <<"tenant">>, <<"user">>, <<"kb", "source">>, <<"kb", "agent">>,
          <<"agent", "conversation">>, <<"agent", "key">>, <<"agent", "config">>,
          <<"kb", "agent", "link">>}

(* They are such paths, and not empty.                                     *)
LEMMA NamedAre ==
  /\ <<>> \in Paths
  /\ \A looks \in NamedPaths : looks \in Paths /\ Len(looks) > 0
BY KindsAre, PathsAre DEF NamedPaths

(* What is said of handlers above, for the paths by name.                  *)
LEMMA Handlers ==
  /\ \A door \in {"tenant", "user", "admin", "read", "write"} :
       /\ \A looks \in NamedPaths \cup {<<>>} : M!Handled(door, M!Read(looks))
       /\ \A looks \in NamedPaths \cup {<<>>} : \A kinds : "token" \notin kinds =>
            M!Handled(door, M!List(looks, kinds))
  /\ \A door \in {"tenant", "user", "admin", "write"} : \A looks \in NamedPaths :
       M!Handled(door, M!Change(looks)) /\ M!Handled(door, M!Remove(looks))
  /\ \A door \in {"tenant", "user", "write"} :
       /\ \A looks \in NamedPaths \cup {<<>>} : \A kinds \in SUBSET (M!Kinds \ {"token"}) :
            M!Handled(door, M!Make(looks, kinds))
       /\ \A looks \in NamedPaths : \A kinds \in SUBSET (M!Kinds \ {"token"}) :
            M!Handled(door, [M!Change(looks) EXCEPT !.makes = kinds])
<1>1. ASSUME NEW door, NEW looks \in NamedPaths \cup {<<>>}, NEW kinds, "token" \notin kinds
      PROVE  M!Handled(door, M!List(looks, kinds))
  <2>1. looks \in Paths
    BY NamedAre
  <2> QED
    BY <1>1, <2>1, ReadersAre
<1>2. ASSUME NEW door \in {"tenant", "user", "admin", "write"}, NEW looks \in NamedPaths
      PROVE  M!Handled(door, M!Change(looks)) /\ M!Handled(door, M!Remove(looks))
  BY NamedAre, ChangersAre
<1>3. ASSUME NEW door \in {"tenant", "user", "write"}, NEW looks \in NamedPaths \cup {<<>>},
             NEW kinds \in SUBSET (M!Kinds \ {"token"})
      PROVE  M!Handled(door, M!Make(looks, kinds))
  BY NamedAre, MakersAre
<1>4. ASSUME NEW door \in {"tenant", "user", "write"}, NEW looks \in NamedPaths,
             NEW kinds \in SUBSET (M!Kinds \ {"token"})
      PROVE  M!Handled(door, [M!Change(looks) EXCEPT !.makes = kinds])
  BY NamedAre, MakersAre
<1>5. ASSUME NEW door, NEW looks \in NamedPaths \cup {<<>>}
      PROVE  M!Handled(door, M!Read(looks))
  <2>1. looks \in Paths
    BY NamedAre
  <2>2. "token" \notin {}
    OBVIOUS
  <2> QED
    BY <2>1, <2>2, ReadersAre
<1> QED
  BY <1>1, <1>2, <1>3, <1>4, <1>5

(* The paths and the kinds of rows made, by name.                          *)
LEMMA NamesAre ==
  /\ <<"agent">> \in NamedPaths /\ <<"kb">> \in NamedPaths /\ <<"tool">> \in NamedPaths
  /\ <<"conversation">> \in NamedPaths /\ <<"webhook">> \in NamedPaths
  /\ <<"key">> \in NamedPaths
  /\ <<"tenant">> \in NamedPaths /\ <<"user">> \in NamedPaths
  /\ <<"kb", "source">> \in NamedPaths
  /\ <<"kb", "agent">> \in NamedPaths /\ <<"agent", "conversation">> \in NamedPaths
  /\ <<"agent", "key">> \in NamedPaths /\ <<"agent", "config">> \in NamedPaths
  /\ <<"kb", "agent", "link">> \in NamedPaths
  /\ {{"agent"}, {"version"}, {"kb"}, {"source"}, {"call"}, {"message"}, {"webhook"},
      {"wa"}, {"key"}, {"conversation", "message"}} \subseteq SUBSET (M!Kinds \ {"token"})
BY KindsAre DEF NamedPaths

(* Those of the agents,                                                    *)
LEMMA AgentHandlers ==
  \A h \in M!AgentConfiguration \cup M!AgentHistory \cup M!AgentModelKey : M!Handled("tenant", h)
<1>1. M!Handled("tenant", M!EditAgent)
  BY NamesAre, Handlers DEF M!EditAgent
<1>2. /\ M!Handled("tenant", M!Make(<<>>, {"agent"})) /\ M!Handled("tenant", M!Read(<<>>))
      /\ M!Handled("tenant", M!List(<<>>, {"agent"}))
      /\ M!Handled("tenant", M!Read(<<"agent">>))
      /\ M!Handled("tenant", M!Remove(<<"agent">>))
      /\ M!Handled("tenant", M!Change(<<"agent">>))
      /\ M!Handled("tenant", M!List(<<"agent">>, {"version"}))
  BY NamesAre, Handlers
<1> QED
  BY <1>1, <1>2 DEF M!AgentConfiguration, M!AgentHistory, M!AgentModelKey

(* of knowledge bases, sources and attachments,                            *)
LEMMA KnowledgeHandlers ==
  \A h \in UNION {M!KnowledgeBases, M!RetrievalExplained, M!KnowledgeBase, M!SourcesAdded,
                  M!SourcesKept, M!Attachments} : M!Handled("tenant", h)
<1>1. /\ M!Handled("tenant", M!Make(<<>>, {"kb"}))
      /\ M!Handled("tenant", M!List(<<>>, {"kb"}))
      /\ M!Handled("tenant", M!List(<<"agent">>, {"kb"}))
      /\ M!Handled("tenant", M!List(<<>>, {"source"}))
  BY NamesAre, Handlers
<1>2. /\ M!Handled("tenant", M!List(<<"agent">>, {"kb", "source"}))
      /\ M!Handled("tenant", M!List(<<"kb">>, {"source"}))
      /\ M!Handled("tenant", M!List(<<"kb">>, {"source", "link"}))
      /\ M!Handled("tenant", M!Change(<<"kb">>)) /\ M!Handled("tenant", M!Remove(<<"kb">>))
  BY NamesAre, Handlers
<1>3. /\ M!Handled("tenant", M!Make(<<"kb">>, {"source"}))
      /\ M!Handled("tenant", M!Change(<<"kb", "source">>))
      /\ M!Handled("tenant", M!Read(<<"kb", "source">>))
      /\ M!Handled("tenant", M!Remove(<<"kb", "source">>))
  BY NamesAre, Handlers
<1>4. /\ M!Handled("tenant", M!List(<<"kb">>, {"link"}))
      /\ M!Handled("tenant", M!Ensure(<<"kb", "agent">>, {"link"}))
      /\ M!Handled("tenant", M!Remove(<<"kb", "agent", "link">>))
  BY NamesAre, Handlers, EnsurersAre
<1>5. \A h \in M!KnowledgeBases \cup M!RetrievalExplained : M!Handled("tenant", h)
  BY <1>1, <1>2 DEF M!KnowledgeBases, M!RetrievalExplained
<1>6. \A h \in M!KnowledgeBase \cup M!SourcesAdded \cup M!SourcesKept : M!Handled("tenant", h)
  BY <1>2, <1>3 DEF M!KnowledgeBase, M!SourcesAdded, M!SourcesKept
<1>7. \A h \in M!Attachments : M!Handled("tenant", h)
  BY <1>4 DEF M!Attachments
<1> QED
  BY <1>5, <1>6, <1>7

(* of tools, their calls and policies,                                     *)
LEMMA ToolHandlers ==
  \A h \in UNION {M!ToolDefinitions, M!ToolCallsMade, M!ToolPolicies} : M!Handled("tenant", h)
<1>1. M!Handled("tenant", M!TryTool)
  BY NamesAre, Handlers DEF M!TryTool
<1>2. /\ M!Handled("tenant", M!MakeTool)
      /\ M!Handled("tenant", M!Ensure(<<"agent">>, {"policy"}))
  BY EnsurersAre
<1>3. /\ M!Handled("tenant", M!List(<<"agent">>, {"tool"}))
      /\ M!Handled("tenant", M!Read(<<"tool">>))
      /\ M!Handled("tenant", M!Change(<<"tool">>))
      /\ M!Handled("tenant", M!Remove(<<"tool">>))
      /\ M!Handled("tenant", M!List(<<"tool">>, {"call"}))
  BY NamesAre, Handlers
<1> QED
  BY <1>1, <1>2, <1>3 DEF M!ToolDefinitions, M!ToolCallsMade, M!ToolPolicies

(* of previews, transcripts and guides,                                    *)
LEMMA ConversationHandlers ==
  \A h \in UNION {M!Previews, M!Transcripts, M!ConversationEnds, M!IntegrationGuides} :
    M!Handled("tenant", h)
<1>1. /\ M!Handled("tenant", M!Make(<<"agent">>, {"conversation", "message"}))
      /\ M!Handled("tenant", [M!Change(<<"agent", "conversation">>) EXCEPT !.makes = {"message"}])
      /\ M!Handled("tenant", M!Change(<<"conversation">>))
  BY NamesAre, Handlers
<1>2. /\ M!Handled("tenant", M!List(<<>>, {"conversation"}))
      /\ M!Handled("tenant", M!List(<<"agent">>, {"conversation"}))
      /\ M!Handled("tenant", M!List(<<"conversation">>, {"message"}))
      /\ M!Handled("tenant", M!Read(<<"agent">>))
      /\ M!Handled("tenant", M!Read(<<"agent", "key">>))
  BY NamesAre, Handlers
<1> QED
  BY <1>1, <1>2 DEF M!Previews, M!Transcripts, M!ConversationEnds, M!IntegrationGuides

(* of channels, webhooks and WhatsApp,                                     *)
LEMMA ChannelHandlers ==
  \A h \in UNION {M!ChannelConfigs, M!WebhookEndpoints, M!WebhookEdits, M!WhatsAppConnections,
                  M!WhatsAppMessages} : M!Handled("tenant", h)
<1>1. M!Handled("tenant", M!Ensure(<<"agent">>, {"config"}))
  BY EnsurersAre
<1>2. /\ M!Handled("tenant", M!List(<<"agent">>, {"config"}))
      /\ M!Handled("tenant", M!Make(<<>>, {"webhook"}))
      /\ M!Handled("tenant", M!Make(<<"agent">>, {"webhook"}))
      /\ M!Handled("tenant", M!Read(<<"webhook">>))
      /\ M!Handled("tenant", M!List(<<>>, {"webhook"}))
  BY NamesAre, Handlers
<1>3. /\ M!Handled("tenant", M!Change(<<"webhook">>))
      /\ M!Handled("tenant", M!Remove(<<"webhook">>))
      /\ M!Handled("tenant", M!Read(<<"agent", "config">>))
      /\ M!Handled("tenant", M!Remove(<<"agent", "config">>))
  BY NamesAre, Handlers
<1>4. /\ M!Handled("tenant", M!Make(<<"agent", "config">>, {"wa"}))
      /\ M!Handled("tenant", M!List(<<"agent", "config">>, {"wa"}))
  BY NamesAre, Handlers
<1> QED
  BY <1>1, <1>2, <1>3, <1>4
     DEF M!ChannelConfigs, M!WebhookEndpoints, M!WebhookEdits, M!WhatsAppConnections,
         M!WhatsAppMessages

(* of API keys, the account and reports.                                   *)
LEMMA AccountHandlers ==
  \A h \in UNION {M!ApiKeys, M!ApiKeyEdits, M!Account, M!Reports} : M!Handled("tenant", h)
<1>1. /\ M!Handled("tenant", M!Make(<<"agent">>, {"key"}))
      /\ M!Handled("tenant", M!List(<<>>, {"key"}))
      /\ M!Handled("tenant", M!List(<<"agent">>, {"key"}))
      /\ M!Handled("tenant", M!Read(<<"key">>))
      /\ M!Handled("tenant", M!Change(<<"key">>))
      /\ M!Handled("tenant", M!Remove(<<"key">>))
  BY NamesAre, Handlers
<1>2. /\ M!Handled("tenant", M!List(<<>>, {"tenant"}))
      /\ M!Handled("tenant", M!Change(<<"tenant">>))
      /\ M!Handled("tenant", M!List(<<>>, {"user"}))
  BY NamesAre, Handlers
<1>3. /\ M!Handled("tenant", M!List(<<>>, {"conversation", "message"}))
      /\ M!Handled("tenant", M!List(<<"agent">>, {"conversation", "message"}))
      /\ M!Handled("tenant", M!List(<<"conversation">>, {"message"}))
      /\ M!Handled("tenant", M!List(<<>>, {"source", "webhook", "call", "wa"}))
  BY NamesAre, Handlers
<1> QED
  BY <1>1, <1>2, <1>3 DEF M!ApiKeys, M!ApiKeyEdits, M!Account, M!Reports

(* The tokens of a user are found, listed and made behind his door only.   *)
LEMMA UserHandlers ==
  \A h \in M!PersonalTokens \cup M!Profile : M!Handled("user", h)
<1>1. M!Handled("user", M!Change(<<"user">>))
  BY NamesAre, Handlers
<1>2. <<>> \in Seq(M!Kinds) /\ Len(<<>>) = 0
  OBVIOUS
<1>3. <<"token">> \in Seq(M!Kinds) /\ Len(<<"token">>) = 1
  BY KindsAre
<1>4. M!Handled("user", M!Make(<<>>, {"token"})) /\ M!Handled("user", M!List(<<>>, {"token"}))
  BY <1>2, KindsAre DEF M!Handled, M!Make, M!List, M!Read
<1>5. /\ M!Handled("user", M!Read(<<"token">>)) /\ M!Handled("user", M!Change(<<"token">>))
      /\ M!Handled("user", M!Remove(<<"token">>))
  BY <1>3 DEF M!Handled, M!Read, M!Change, M!Remove
<1> QED
  BY <1>1, <1>4, <1>5 DEF M!PersonalTokens, M!Profile

(* The administration makes nothing.                                       *)
LEMMA AdminHandlers ==
  \A h \in M!Administration \cup M!AdministrationWide : M!Handled("admin", h)
<1>1. /\ M!Handled("admin", M!List(<<>>, {"tenant", "user"}))
      /\ M!Handled("admin", M!List(<<"tenant">>, {"user", "agent", "conversation"}))
      /\ M!Handled("admin", M!List(<<"user">>, {"user"}))
      /\ M!Handled("admin", M!Change(<<"tenant">>))
      /\ M!Handled("admin", M!Remove(<<"tenant">>))
      /\ M!Handled("admin", M!List(<<>>, {"tenant", "user", "agent", "conversation", "message"}))
  BY NamesAre, Handlers
<1> QED
  BY <1>1 DEF M!Administration, M!AdministrationWide

(* The tools of the MCP server.                                            *)
LEMMA McpReaders ==
  \A e \in UNION {M!AccountTools, M!AgentReadTools, M!ToolReadTools, M!ReportTools,
                  M!KnowledgeReadTools} : M!Handled(e[1], e[2])
<1>1. \A looks \in NamedPaths \cup {<<>>} : \A kinds : "token" \notin kinds =>
        M!Handled("read", M!List(looks, kinds))
  BY Handlers
<1>2. \A looks \in NamedPaths \cup {<<>>} : M!Handled("read", M!Read(looks))
  BY Handlers
<1>3. /\ M!Handled("read", M!List(<<>>, {"tenant"}))
      /\ M!Handled("read", M!List(<<>>, {"agent"}))
      /\ M!Handled("read", M!Read(<<"agent">>))
      /\ M!Handled("read", M!List(<<"agent">>, {"version"}))
      /\ M!Handled("read", M!List(<<"agent">>, {"tool"}))
      /\ M!Handled("read", M!List(<<"tool">>, {"call"}))
  BY <1>1, <1>2, NamesAre
<1>4. /\ M!Handled("read", M!List(<<>>, {"conversation", "message"}))
      /\ M!Handled("read", M!List(<<"agent">>, {"conversation", "message"}))
      /\ M!Handled("read", M!List(<<>>, {"source", "webhook", "call", "wa"}))
  BY <1>1, NamesAre
<1>5. /\ M!Handled("read", M!List(<<>>, {"kb"}))
      /\ M!Handled("read", M!List(<<"agent">>, {"kb"}))
      /\ M!Handled("read", M!List(<<"kb">>, {"source", "link"}))
      /\ M!Handled("read", M!Read(<<"kb", "source">>))
      /\ M!Handled("read", M!List(<<"agent">>, {"kb", "source"}))
      /\ M!Handled("read", M!List(<<"kb">>, {"source"}))
  BY <1>1, <1>2, NamesAre
<1>6. M!Handled("read", M!Ensure(<<"agent">>, {"policy"}))
  BY EnsurersAre
<1>7. \A e \in M!AccountTools \cup M!AgentReadTools \cup M!ToolReadTools : M!Handled(e[1], e[2])
  BY <1>3, <1>6 DEF M!AccountTools, M!AgentReadTools, M!ToolReadTools
<1>8. \A e \in M!ReportTools : M!Handled(e[1], e[2])
  BY <1>4 DEF M!ReportTools
<1>9. \A e \in M!KnowledgeReadTools : M!Handled(e[1], e[2])
  BY <1>5 DEF M!KnowledgeReadTools, M!RetrievalExplained
<1> QED
  BY <1>7, <1>8, <1>9

(* Those that take the write scope,                                        *)
LEMMA McpWriters ==
  \A e \in M!AgentWriteTools \cup M!ToolWriteTools \cup M!KnowledgeWriteTools :
    M!Handled(e[1], e[2])
<1>1. /\ M!Handled("write", M!Make(<<>>, {"agent"}))
      /\ M!Handled("write", M!Change(<<"agent">>))
      /\ M!Handled("write", M!Change(<<"tool">>))
  BY NamesAre, Handlers
<1>2. M!Handled("write", M!EditAgent) /\ M!Handled("write", M!TryTool)
  BY NamesAre, Handlers DEF M!EditAgent, M!TryTool
<1>3. /\ M!Handled("write", M!MakeTool)
      /\ M!Handled("write", M!Ensure(<<"agent">>, {"policy"}))
      /\ M!Handled("write", M!Ensure(<<"kb", "agent">>, {"link"}))
  BY EnsurersAre
<1>4. /\ M!Handled("write", M!Make(<<>>, {"kb"})) /\ M!Handled("write", M!Change(<<"kb">>))
      /\ M!Handled("write", M!Remove(<<"kb">>))
      /\ M!Handled("write", M!Change(<<"kb", "source">>))
      /\ M!Handled("write", M!Remove(<<"kb", "source">>))
      /\ M!Handled("write", M!Make(<<"kb">>, {"source"}))
      /\ M!Handled("write", M!Remove(<<"kb", "agent", "link">>))
  BY NamesAre, Handlers
<1>5. \A h \in M!Attachments \ {M!List(<<"kb">>, {"link"})} : M!Handled("write", h)
  BY <1>3, <1>4 DEF M!Attachments
<1>6. \A e \in M!KnowledgeWriteTools : M!Handled(e[1], e[2])
  BY <1>4, <1>5 DEF M!KnowledgeWriteTools, M!SourcesAdded
<1>7. \A e \in M!AgentWriteTools \cup M!ToolWriteTools : M!Handled(e[1], e[2])
  BY <1>1, <1>2, <1>3 DEF M!AgentWriteTools, M!ToolWriteTools
<1> QED
  BY <1>6, <1>7

(* and those of channels and conversations, of either scope.               *)
LEMMA McpChannels ==
  \A e \in M!ChannelTools \cup M!ConversationTools : M!Handled(e[1], e[2])
<1>1. /\ M!Handled("read", M!Read(<<"agent">>))
      /\ M!Handled("read", M!List(<<"agent">>, {"config"}))
      /\ M!Handled("read", M!List(<<>>, {"key"}))
      /\ M!Handled("read", M!List(<<"agent">>, {"key"}))
  BY NamesAre, Handlers
<1>2. M!Handled("write", M!Ensure(<<"agent">>, {"config"}))
  BY EnsurersAre
<1>3. /\ M!Handled("read", M!List(<<>>, {"conversation"}))
      /\ M!Handled("read", M!List(<<"agent">>, {"conversation"}))
      /\ M!Handled("read", M!List(<<"conversation">>, {"message"}))
  BY NamesAre, Handlers
<1>4. /\ M!Handled("write", M!Make(<<"agent">>, {"conversation", "message"}))
      /\ M!Handled("write", [M!Change(<<"agent", "conversation">>) EXCEPT !.makes = {"message"}])
  BY NamesAre, Handlers
<1>5. \A e \in M!ChannelTools : M!Handled(e[1], e[2])
  BY <1>1, <1>2 DEF M!ChannelTools
<1>6. \A h \in M!Transcripts : M!Handled("read", h)
  BY <1>3 DEF M!Transcripts
<1>7. \A h \in M!Previews : M!Handled("write", h)
  BY <1>4 DEF M!Previews
<1>8. \A e \in M!ConversationTools : M!Handled(e[1], e[2])
  BY <1>6, <1>7 DEF M!ConversationTools
<1> QED
  BY <1>5, <1>8

(* So is every endpoint.                                                   *)
LEMMA EndpointsAre ==
  \A e \in M!Endpoints : /\ e[1] \in {"tenant", "user", "admin", "read", "write"}
                         /\ M!Handled(e[1], e[2])
<1> DEFINE tenantHandlers ==
             UNION {M!AgentConfiguration, M!AgentHistory, M!AgentModelKey,
                    M!KnowledgeBases, M!RetrievalExplained, M!KnowledgeBase,
                    M!SourcesAdded, M!SourcesKept, M!Attachments,
                    M!ToolDefinitions, M!ToolCallsMade, M!ToolPolicies,
                    M!Previews, M!Transcripts, M!ConversationEnds,
                    M!IntegrationGuides, M!ChannelConfigs, M!WebhookEndpoints,
                    M!WebhookEdits, M!WhatsAppConnections, M!WhatsAppMessages,
                    M!ApiKeys, M!ApiKeyEdits, M!Account, M!Reports}
           mcpTools ==
             UNION {M!AccountTools, M!AgentReadTools, M!AgentWriteTools,
                    M!ToolReadTools, M!ToolWriteTools, M!ReportTools,
                    M!ChannelTools, M!ConversationTools, M!KnowledgeReadTools,
                    M!KnowledgeWriteTools}
           userHandlers == M!PersonalTokens \cup M!Profile
           adminHandlers == M!Administration \cup M!AdministrationWide
<1>1. \A h \in tenantHandlers : M!Handled("tenant", h)
  BY AgentHandlers, KnowledgeHandlers, ToolHandlers, ConversationHandlers,
     ChannelHandlers, AccountHandlers
<1>2. \A e \in mcpTools : M!Handled(e[1], e[2])
  BY McpReaders, McpWriters, McpChannels
<1>3. \A e \in mcpTools : e[1] \in {"read", "write"}
  BY DEF M!AccountTools, M!AgentReadTools, M!AgentWriteTools, M!ToolReadTools,
         M!ToolWriteTools, M!ReportTools, M!ChannelTools, M!ConversationTools,
         M!KnowledgeReadTools, M!KnowledgeWriteTools
<1>4. /\ \A h \in userHandlers : M!Handled("user", h)
      /\ \A h \in adminHandlers : M!Handled("admin", h)
  BY UserHandlers, AdminHandlers
<1>5. M!Endpoints = (({"tenant"} \X tenantHandlers) \cup ({"user"} \X userHandlers))
                      \cup (({"admin"} \X adminHandlers) \cup mcpTools)
  BY DEF M!Endpoints
<1> HIDE DEF tenantHandlers, mcpTools, userHandlers, adminHandlers
<1> QED
  BY <1>1, <1>2, <1>3, <1>4, <1>5

(* A row as it is in the beginning.                                        *)
LEMMA RowsBegin ==
  ASSUME M!ApiAssumption, NEW k \in M!Kinds, NEW t \in Tenants, NEW n \in {0, 1}
  PROVE  /\ M!Row(k, t, n) \in M!Rows /\ M!Fits(M!Row(k, t, n))
         /\ M!Row(k, t, n).id = <<k, t, n>> /\ M!Row(k, t, n).tenant = t
         /\ M!Row(k, t, n).of = {<<p, t, IF p = "tenant" THEN 0 ELSE n>> : p \in M!Parents[k]}
<1> DEFINE of == {<<p, t, IF p = "tenant" THEN 0 ELSE n>> : p \in M!Parents[k]}
<1>1. of \subseteq M!RowIds /\ \A i \in of : i[1] \in M!Parents[k] /\ i[2] = t
  BY KindsAre DEF M!RowIds
<1>2. <<k, t, n>> \in M!RowIds
  BY DEF M!RowIds
<1>3. M!Row(k, t, n) = [kind |-> k, id |-> <<k, t, n>>, tenant |-> t, of |-> of]
  BY DEF M!Row
<1> HIDE DEF of
<1>4. M!Row(k, t, n) \in M!Rows
  BY <1>1, <1>2, <1>3 DEF M!Rows
<1>5. M!Fits(M!Row(k, t, n))
  BY <1>1, <1>3 DEF M!Fits
<1> QED
  BY <1>3, <1>4, <1>5 DEF of

(* What is first needed is not what the rest refers to.                    *)
LEMMA LateRows ==
  /\ M!Late \subseteq M!Kinds /\ M!Twice \subseteq M!Kinds \ M!Late
  /\ \A k \in M!Kinds \ M!Late : M!Parents[k] \cap M!Late = {}
  /\ \A k \in M!Twice : M!Parents[k] \subseteq {"tenant"} \cup M!Twice
  /\ "tenant" \notin M!Late /\ "tenant" \notin M!Twice /\ "tenant" \in M!Kinds
BY DEF M!Kinds, M!Parents, M!Late, M!Twice

(* In the beginning every row refers to rows that are there.               *)
LEMMA WholeStart == ASSUME M!ApiAssumption, M!Init PROVE M!RowsAreWhole
<1> PICK late \in {{}, M!Late} :
      v1 = ({M!Row(k, t, 0) : k \in M!Kinds, t \in Tenants} \ {M!Row(k, Home, 0) : k \in late})
             \cup {M!Row(k, Home, 1) : k \in M!Twice}
  BY DEF M!Init
<1>1. Home \in Tenants
  BY DEF M!ApiAssumption
<1>2. \A k \in M!Kinds, t \in Tenants, n \in {0, 1} :
        /\ M!Row(k, t, n) \in M!Rows /\ M!Fits(M!Row(k, t, n))
        /\ M!Row(k, t, n).id = <<k, t, n>> /\ M!Row(k, t, n).tenant = t
        /\ M!Row(k, t, n).of = {<<p, t, IF p = "tenant" THEN 0 ELSE n>> : p \in M!Parents[k]}
  BY RowsBegin
<1>3. \A r \in v1 : \/ \E k \in M!Kinds, t \in Tenants : /\ r = M!Row(k, t, 0)
                                                         /\ t = Home => k \notin late
                    \/ \E k \in M!Twice : r = M!Row(k, Home, 1)
  OBVIOUS
<1>4. \A k \in M!Kinds, t \in Tenants : (t = Home => k \notin late) => M!Row(k, t, 0) \in v1
  BY <1>1, <1>2, LateRows
<1>5. \A k \in M!Twice : M!Row(k, Home, 1) \in v1
  OBVIOUS
<1>6. v1 \subseteq M!Rows /\ \A r \in v1 : M!Fits(r)
  BY <1>1, <1>2, <1>3, LateRows
<1>7. ASSUME NEW k \in M!Kinds, NEW t \in Tenants, t = Home => k \notin late,
             NEW i \in M!Row(k, t, 0).of
      PROVE  i \in M!Ids(v1)
  <2>1. PICK p \in M!Parents[k] : i = <<p, t, 0>>
    BY <1>2, <1>7
  <2>2. p \in M!Kinds
    BY KindsAre
  <2>3. t = Home => p \notin late
    BY <1>7, LateRows
  <2>4. M!Row(p, t, 0) \in v1 /\ M!Row(p, t, 0).id = i
    BY <1>2, <1>4, <2>1, <2>2, <2>3
  <2> QED
    BY <2>4 DEF M!Ids
<1>8. ASSUME NEW k \in M!Twice, NEW i \in M!Row(k, Home, 1).of PROVE i \in M!Ids(v1)
  <2>1. PICK p \in M!Parents[k] : i = <<p, Home, IF p = "tenant" THEN 0 ELSE 1>>
    BY <1>1, <1>2, LateRows
  <2>2. CASE p = "tenant"
    <3>1. M!Row(p, Home, 0) \in v1 /\ M!Row(p, Home, 0).id = i
      BY <1>1, <1>2, <1>4, <2>1, <2>2, LateRows
    <3> QED
      BY <3>1 DEF M!Ids
  <2>3. CASE p # "tenant"
    <3>1. p \in M!Twice /\ p \in M!Kinds
      BY <2>3, LateRows
    <3>2. M!Row(p, Home, 1) \in v1 /\ M!Row(p, Home, 1).id = i
      BY <1>1, <1>2, <1>5, <2>1, <2>3, <3>1
    <3> QED
      BY <3>2 DEF M!Ids
  <2> QED
    BY <2>2, <2>3
<1>9. \A r \in v1 : r.of \subseteq M!Ids(v1)
  BY <1>3, <1>7, <1>8
<1> QED
  BY <1>6, <1>9 DEF M!RowsAreWhole

(* A request begins with nothing found, answered or written.               *)
LEMMA ApiStart == ASSUME M!ApiAssumption, M!Init PROVE M!ApiInv
<1>1. M!RowsAreWhole
  BY WholeStart
<1>2. PICK endpoint \in M!Endpoints :
        /\ DOMAIN v4 = {"pc", "door", "handler", "scope", "found", "seen", "wrote"}
        /\ v4.pc = "sent" /\ v4.door = endpoint[1] /\ v4.handler = endpoint[2]
        /\ v4.found = <<>> /\ v4.seen = {} /\ v4.wrote = {}
  BY DEF M!Init
<1>3. endpoint[1] \in {"tenant", "user", "admin", "read", "write"}
      /\ M!Handled(endpoint[1], endpoint[2])
  BY EndpointsAre
<1>4. M!CallIsTyped
  BY <1>2, <1>3 DEF M!CallIsTyped
<1>5. v4.pc = "sent" /\ v4.found = <<>> /\ v4.seen = {} /\ v4.wrote = {}
  BY <1>2
<1> QED
  BY <1>1, <1>4, <1>5 DEF M!ApiInv, M!ScopeIsKept, M!ReadersOnlyRead

(* The kinds by how far a row is from its tenant.                          *)
LEMMA RanksAre ==
  ASSUME NEW k \in M!Kinds
  PROVE  /\ k = "tenant" => M!Parents[k] = {}
         /\ k \in {"user", "agent", "kb"} => M!Parents[k] \subseteq {"tenant"}
         /\ k \notin {"call", "message", "wa"} =>
              M!Parents[k] \subseteq {"tenant", "user", "agent", "kb"}
         /\ M!Parents[k] \cap {"call", "message", "wa"} = {}
BY DEF M!Kinds, M!Parents

(* Deleting a row takes with it the rows that refer to it, and nothing of  *)
(* another tenant.                                                         *)
LEMMA WithoutKeeps ==
  ASSUME M!RowsAreWhole, NEW id, NEW kept, kept = M!Without(id)
  PROVE  /\ kept \subseteq v1 /\ \A r \in kept : r.of \subseteq M!Ids(kept)
         /\ \A r \in v1 : r.tenant # id[2] => r \in kept
<1> DEFINE a == {r \in v1 : r.id # id}
           b == M!Swept(a)
           c == M!Swept(b)
           d == M!Swept(c)
<1>1. /\ \A r : r \in a <=> r \in v1 /\ r.id # id
      /\ \A r : r \in b <=> r \in a /\ r.of \subseteq M!Ids(a)
      /\ \A r : r \in c <=> r \in b /\ r.of \subseteq M!Ids(b)
      /\ \A r : r \in d <=> r \in c /\ r.of \subseteq M!Ids(c)
  BY DEF M!Swept
<1>2. kept = d
  BY DEF M!Without
<1> HIDE DEF a, b, c, d
<1>3. \A r \in v1 : /\ r.kind \in M!Kinds /\ r.of \subseteq M!RowIds
                    /\ r.id[1] = r.kind /\ r.id[2] = r.tenant
                    /\ \A i \in r.of : i[1] \in M!Parents[r.kind] /\ i[2] = r.tenant
                    /\ \A i \in r.of : \E x \in v1 : x.id = i
  BY DEF M!RowsAreWhole, M!Rows, M!Fits, M!Ids
<1>4. a \subseteq v1 /\ b \subseteq a /\ c \subseteq b /\ d \subseteq c
  BY <1>1
<1>5. \A r \in a : r.kind = "tenant" => r \in b /\ r \in c /\ r \in d
  <2> TAKE r \in a
  <2> HAVE r.kind = "tenant"
  <2>1. r \in v1
    BY <1>4
  <2>2. r.of = {}
    BY <1>3, <2>1, RanksAre
  <2> QED
    BY <1>1, <2>2
<1>6. \A r \in b : r.kind \in {"user", "agent", "kb"} => r \in c /\ r \in d
  <2> TAKE r \in b
  <2> HAVE r.kind \in {"user", "agent", "kb"}
  <2>1. r \in v1
    BY <1>4
  <2>2. ASSUME NEW i \in r.of PROVE i \in M!Ids(b) /\ i \in M!Ids(c)
    <3>1. i[1] = "tenant"
      BY <1>3, <2>1, RanksAre
    <3>2. PICK x \in a : x.id = i
      BY <1>1 DEF M!Ids
    <3>3. x.kind = "tenant"
      BY <1>3, <1>4, <3>1, <3>2
    <3> QED
      BY <1>5, <3>2, <3>3 DEF M!Ids
  <2> QED
    BY <1>1, <2>2
<1>7. \A r \in c : r.kind \notin {"call", "message", "wa"} => r \in d
  <2> TAKE r \in c
  <2> HAVE r.kind \notin {"call", "message", "wa"}
  <2>1. r \in v1
    BY <1>4
  <2>2. ASSUME NEW i \in r.of PROVE i \in M!Ids(c)
    <3>1. i[1] \in {"tenant", "user", "agent", "kb"}
      BY <1>3, <2>1, RanksAre
    <3>2. PICK x \in b : x.id = i
      BY <1>1 DEF M!Ids
    <3>3. x.kind \in {"tenant", "user", "agent", "kb"}
      BY <1>3, <1>4, <3>1, <3>2
    <3>4. x \in c
      BY <1>4, <1>5, <1>6, <3>3
    <3> QED
      BY <3>2, <3>4 DEF M!Ids
  <2> QED
    BY <1>1, <2>2
<1>8. \A r \in d : r.of \subseteq M!Ids(d)
  <2> TAKE r \in d
  <2>1. r \in v1
    BY <1>4
  <2>2. ASSUME NEW i \in r.of PROVE i \in M!Ids(d)
    <3>1. i[1] \notin {"call", "message", "wa"}
      BY <1>3, <2>1, RanksAre
    <3>2. PICK x \in c : x.id = i
      BY <1>1 DEF M!Ids
    <3>3. x.kind \notin {"call", "message", "wa"}
      BY <1>3, <1>4, <3>1, <3>2
    <3> QED
      BY <1>7, <3>2, <3>3 DEF M!Ids
  <2> QED
    BY <2>2
<1> DEFINE Others(s) == \A r \in v1 : r.tenant # id[2] => r \in s
<1>9. Others(a)
  BY <1>1, <1>3
<1>10. ASSUME NEW s, Others(s)
       PROVE  \A r \in v1 : r.tenant # id[2] => r.of \subseteq M!Ids(s)
  <2> TAKE r \in v1
  <2> HAVE r.tenant # id[2]
  <2>1. ASSUME NEW i \in r.of PROVE i \in M!Ids(s)
    <3>1. PICK x \in v1 : x.id = i
      BY <1>3
    <3>2. x.tenant = r.tenant
      BY <1>3, <3>1
    <3> QED
      BY <1>10, <3>1, <3>2 DEF M!Ids
  <2> QED
    BY <2>1
<1>11. Others(b)
  BY <1>1, <1>9, <1>10
<1>12. Others(c)
  BY <1>1, <1>10, <1>11
<1>13. Others(d)
  BY <1>1, <1>10, <1>12
<1> QED
  BY <1>2, <1>4, <1>8, <1>13

(* So the rows that stay refer to each other only.                         *)
LEMMA WithoutIsWhole ==
  ASSUME M!RowsAreWhole, NEW id, v1' = M!Without(id) PROVE M!RowsAreWhole'
BY WithoutKeeps DEF M!RowsAreWhole, M!Ids

(* What a step changes of the request is what it names.                    *)
LEMMA EndKeeps ==
  ASSUME M!CallIsTyped, NEW pc, M!End(pc)
  PROVE  /\ v4'.pc = pc /\ v4'.door = v4.door /\ v4'.handler = v4.handler
         /\ v4'.scope = v4.scope /\ v4'.found = v4.found
         /\ v4'.seen = v4.seen /\ v4'.wrote = v4.wrote
         /\ UNCHANGED <<v1, v2, v3>> /\ M!CallIsTyped'
<1> DEFINE more == [pc |-> pc]
<1>1. DOMAIN more = {"pc"} /\ more.pc = pc
  OBVIOUS
<1>2. /\ v4' = [f \in DOMAIN v4 |-> IF f \in DOMAIN more THEN more[f] ELSE v4[f]]
      /\ UNCHANGED <<v1, v2, v3>>
  BY DEF M!End, M!Becomes
<1> HIDE DEF more
<1>3. /\ DOMAIN v4' = {"pc", "door", "handler", "scope", "found", "seen", "wrote"}
      /\ \A f \in DOMAIN v4 : f # "pc" => v4'[f] = v4[f]
      /\ v4'.pc = pc
  BY <1>1, <1>2 DEF M!CallIsTyped
<1>4. /\ v4'.door = v4.door /\ v4'.handler = v4.handler
      /\ v4'.scope = v4.scope /\ v4'.found = v4.found
      /\ v4'.seen = v4.seen /\ v4'.wrote = v4.wrote
  BY <1>3 DEF M!CallIsTyped
<1>5. M!CallIsTyped'
  BY <1>3, <1>4 DEF M!CallIsTyped
<1> QED
  BY <1>2, <1>3, <1>4, <1>5

(* A request that ends early, or becomes known, has answered nothing.      *)
LEMMA StopStep ==
  ASSUME M!ApiInv, NEW pc \in {"known", "refused", "missing", "failed"}, M!End(pc),
         v4.pc \in {"sent", "known", "scoped"},
         pc = "known" => v4.pc = "sent"
  PROVE  M!ApiInv'
<1>1. /\ v4'.pc = pc /\ v4'.door = v4.door /\ v4'.handler = v4.handler
      /\ v4'.scope = v4.scope /\ v4'.found = v4.found
      /\ v4'.seen = v4.seen /\ v4'.wrote = v4.wrote
      /\ UNCHANGED <<v1, v2, v3>> /\ M!CallIsTyped'
  BY EndKeeps DEF M!ApiInv
<1>2. M!RowsAreWhole'
  BY <1>1 DEF M!ApiInv, M!RowsAreWhole, M!Ids
<1>3. v4.seen = {} /\ v4.wrote = {} /\ (v4.pc \in {"sent", "known"} => v4.found = <<>>)
  BY DEF M!ApiInv
<1> QED
  BY <1>1, <1>2, <1>3 DEF M!ApiInv, M!ScopeIsKept, M!ReadersOnlyRead

(* A request is scoped to a tenant it may reach.                           *)
LEMMA ResolveStep == ASSUME M!ApiAssumption, M!ApiInv, M!Resolve PROVE M!ApiInv'
<1>1. /\ v4.pc = "known" /\ v4.found = <<>> /\ v4.seen = {} /\ v4.wrote = {}
      /\ M!RowsAreWhole /\ M!CallIsTyped
  BY DEF M!Resolve, M!At, M!ApiInv
<1>2. \/ M!End("refused") \/ M!End("missing")
      \/ /\ M!Becomes([pc |-> "scoped", scope |-> M!ScopeOf]) /\ UNCHANGED v1
         /\ v4.door = "admin" => v3.admin
         /\ v4.door \in M!Mcp => M!Allows(v3.scopes)
         /\ M!ScopeOf \in {Home, M!Nobody} \/ <<"tenant", M!ScopeOf, 0>> \in M!Ids(v1)
  BY DEF M!Resolve
<1>3. CASE M!End("refused") \/ M!End("missing")
  BY <1>1, <1>3, StopStep
<1>4. CASE /\ M!Becomes([pc |-> "scoped", scope |-> M!ScopeOf]) /\ UNCHANGED v1
           /\ v4.door = "admin" => v3.admin
           /\ v4.door \in M!Mcp => M!Allows(v3.scopes)
           /\ M!ScopeOf \in {Home, M!Nobody} \/ <<"tenant", M!ScopeOf, 0>> \in M!Ids(v1)
  <2> DEFINE more == [pc |-> "scoped", scope |-> M!ScopeOf]
  <2>1. DOMAIN more = {"pc", "scope"} /\ more.pc = "scoped" /\ more.scope = M!ScopeOf
    OBVIOUS
  <2>2. /\ v4' = [f \in DOMAIN v4 |-> IF f \in DOMAIN more THEN more[f] ELSE v4[f]]
        /\ UNCHANGED <<v1, v2, v3>>
    BY <1>4 DEF M!Becomes
  <2> HIDE DEF more
  <2>3. /\ DOMAIN v4' = DOMAIN v4 /\ v4'.pc = "scoped" /\ v4'.scope = M!ScopeOf
        /\ v4'.door = v4.door /\ v4'.handler = v4.handler
        /\ v4'.found = <<>> /\ v4'.seen = {} /\ v4'.wrote = {}
    BY <1>1, <2>1, <2>2 DEF M!CallIsTyped
  <2>4. M!RowsAreWhole'
    BY <1>1, <2>2 DEF M!RowsAreWhole, M!Ids
  <2>5. M!CallIsTyped'
    BY <1>1, <2>3 DEF M!CallIsTyped
  <2>6. M!FoundAsAsked'
    <3>1. Len(v4.handler.looks) \in Nat
      BY <1>1 DEF M!CallIsTyped, M!Handled
    <3> QED
      BY <2>3, <3>1 DEF M!FoundAsAsked
  <2>7. v4.door \in {"tenant", "user", "admin", "read", "write"} /\ Home \in Tenants
    BY <1>1 DEF M!CallIsTyped, M!ApiAssumption
  <2>8. /\ v4.door \in {"user", "read", "write"} => M!ScopeOf = Home
        /\ v4.door = "tenant" => \/ M!ScopeOf = Home
                                 \/ v3.admin /\ M!ScopeOf = v3.acting
                                      /\ v3.acting # M!Nobody
    BY DEF M!ScopeOf
  <2>9. ASSUME <<"tenant", M!ScopeOf, 0>> \in M!Ids(v1) PROVE M!ScopeOf \in Tenants
    BY <1>1, <2>9 DEF M!Ids, M!RowsAreWhole, M!Rows, M!RowIds
  <2>10. v4.door # "admin" => M!ScopeOf \in Tenants
    BY <1>4, <2>7, <2>8, <2>9
  <2>11. v4.door = "write" => "write" \in v3.scopes
    BY <1>4 DEF M!Allows, M!Mcp
  <2>12. M!ScopeIsAllowed'
    BY <1>4, <2>2, <2>3, <2>7, <2>8, <2>10, <2>11 DEF M!ScopeIsAllowed
  <2> QED
    BY <2>3, <2>4, <2>5, <2>6, <2>12 DEF M!ApiInv, M!ScopeIsKept, M!ReadersOnlyRead
<1> QED
  BY <1>2, <1>3, <1>4

(* A row that is reached is the tenant's; a token, its owner's.            *)
LEMMA ReachedRows ==
  ASSUME M!RowsAreWhole, M!ScopeIsAllowed, NEW r \in v1, M!Reaches(r)
  PROVE  /\ v4.door # "admin" => r.tenant = v4.scope
         /\ v4.door = "user" /\ r.kind = "token" => M!Self \in r.of
<1>1. /\ r.id[1] = r.kind /\ r.id[2] = r.tenant
      /\ \A i \in r.of : i[2] = r.tenant
  BY DEF M!RowsAreWhole, M!Fits
<1>2. M!Self[1] = "user" /\ M!Self[2] = Home
  BY DEF M!Self
<1>3. CASE v4.door = "user"
  <2>1. M!Self \in r.of \cup {r.id} /\ v4.scope = Home
    BY <1>3 DEF M!Reaches, M!ScopeIsAllowed
  <2> QED
    BY <1>1, <1>2, <1>3, <2>1
<1>4. CASE v4.door # "user"
  BY <1>4 DEF M!Reaches
<1> QED
  BY <1>3, <1>4

(* A row that is looked up is found in that tenant or not at all.          *)
LEMMA LookUpStep == ASSUME M!ApiAssumption, M!ApiInv, M!LookUp PROVE M!ApiInv'
<1>1. /\ v4.pc = "scoped" /\ Len(v4.found) < Len(v4.handler.looks)
      /\ M!RowsAreWhole /\ M!CallIsTyped /\ M!ScopeIsAllowed /\ M!FoundAsAsked
      /\ v4.seen = {} /\ v4.wrote = {}
  BY DEF M!LookUp, M!Looking, M!At, M!ApiInv
<1> DEFINE n == Len(v4.found) + 1
           kind == v4.handler.looks[n]
           Rs(name) == {x \in v1 : x.id = <<kind, name[1], name[2]>> /\ M!Reaches(x) /\ M!Under(x)}
<1>2. PICK name \in M!Named(kind) :
        IF Rs(name) = {} THEN M!End("missing")
        ELSE /\ M!Becomes([found |-> Append(v4.found, CHOOSE x \in Rs(name) : TRUE)])
             /\ UNCHANGED v1
  BY DEF M!LookUp
<1>3. CASE Rs(name) = {}
  <2>1. M!End("missing")
    BY <1>2, <1>3
  <2> QED
    BY <1>1, <2>1, StopStep
<1>4. CASE Rs(name) # {}
  <2> DEFINE r == CHOOSE x \in Rs(name) : TRUE
             more == [found |-> Append(v4.found, r)]
  <2>1. r \in v1 /\ r.id = <<kind, name[1], name[2]>> /\ M!Reaches(r)
    BY <1>4
  <2>2. DOMAIN more = {"found"} /\ more.found = Append(v4.found, r)
    OBVIOUS
  <2>3. /\ v4' = [f \in DOMAIN v4 |-> IF f \in DOMAIN more THEN more[f] ELSE v4[f]]
        /\ UNCHANGED <<v1, v2, v3>>
    BY <1>2, <1>4 DEF M!Becomes
  <2> HIDE DEF more, r
  <2>4. /\ DOMAIN v4' = DOMAIN v4 /\ v4'.pc = "scoped" /\ v4'.scope = v4.scope
        /\ v4'.door = v4.door /\ v4'.handler = v4.handler
        /\ v4'.found = Append(v4.found, r) /\ v4'.seen = {} /\ v4'.wrote = {}
    BY <1>1, <2>2, <2>3 DEF M!CallIsTyped
  <2>5. M!RowsAreWhole'
    BY <1>1, <2>3 DEF M!RowsAreWhole, M!Ids
  <2>6. M!CallIsTyped'
    BY <1>1, <2>4 DEF M!CallIsTyped
  <2>7. M!ScopeIsAllowed'
    BY <1>1, <2>3, <2>4 DEF M!ScopeIsAllowed
  <2>8. /\ r \in M!Rows /\ M!Fits(r) /\ r.kind = kind
        /\ v4.door # "admin" => r.tenant = v4.scope
        /\ v4.door = "user" /\ r.kind = "token" => M!Self \in r.of
    BY <1>1, <2>1, ReachedRows DEF M!RowsAreWhole, M!Fits
  <2>9. n \in 1..Len(v4.handler.looks) /\ Len(v4.found) \in Nat
        /\ Len(v4.handler.looks) \in Nat /\ v4.found \in Seq(M!Rows)
    BY <1>1 DEF M!FoundAsAsked, M!CallIsTyped, M!Handled
  <2>10. r.kind = "token" => v4.door = "user"
    BY <1>1, <2>8, <2>9 DEF M!CallIsTyped, M!Handled
  <2>11. /\ Append(v4.found, r) \in Seq(M!Rows) /\ Len(Append(v4.found, r)) = n
         /\ Append(v4.found, r)[n] = r
         /\ \A m \in 1..Len(v4.found) : Append(v4.found, r)[m] = v4.found[m]
         /\ n <= Len(v4.handler.looks)
         /\ \A m \in 1..n : m = n \/ m \in 1..Len(v4.found)
    BY <1>1, <2>8, <2>9
  <2> DEFINE found == Append(v4.found, r)
  <2> HIDE DEF found
  <2>12. \A m \in 1..n :
           /\ M!Fits(found[m]) /\ found[m].kind = v4.handler.looks[m]
           /\ v4.door # "admin" => found[m].tenant = v4.scope
           /\ found[m].kind = "token" => M!Self \in found[m].of
    BY <1>1, <2>8, <2>10, <2>11 DEF M!FoundAsAsked, found
  <2>13. found \in Seq(M!Rows) /\ Len(found) = n
    BY <2>11 DEF found
  <2>14. M!FoundAsAsked'
    BY <2>4, <2>9, <2>12, <2>13 DEF M!FoundAsAsked, found
  <2> QED
    BY <2>4, <2>5, <2>6, <2>7, <2>14 DEF M!ApiInv, M!ScopeIsKept, M!ReadersOnlyRead
<1> QED
  BY <1>3, <1>4

(* What a request found when it has looked for everything.                 *)
LEMMA FoundRows ==
  ASSUME M!CallIsTyped, M!ScopeIsAllowed, M!FoundAsAsked
  PROVE  \A f \in M!Found :
           /\ f \in M!Rows /\ M!Fits(f) /\ f.id[2] = f.tenant
           /\ v4.door # "admin" => f.tenant = v4.scope
           /\ f.kind = "token" => M!Self \in f.of
<1> TAKE f \in M!Found
<1>1. PICK n \in DOMAIN v4.found : f = v4.found[n]
  BY DEF M!Found
<1>2. v4.found \in Seq(M!Rows) /\ n \in 1..Len(v4.found)
  BY <1>1 DEF M!FoundAsAsked
<1>3. v4.found[n] \in M!Rows
  BY <1>2
<1> QED
  BY <1>1, <1>2, <1>3 DEF M!FoundAsAsked, M!Fits

(* What a handler alters or removes is a row it found.                     *)
LEMMA LastRow ==
  ASSUME M!CallIsTyped, M!FoundAsAsked, ~(Len(v4.found) < Len(v4.handler.looks)),
         v4.handler.alters \/ v4.handler.removes
  PROVE  M!Last \in M!Found
<1>1. /\ v4.found \in Seq(M!Rows) /\ Len(v4.found) \in Nat /\ Len(v4.handler.looks) \in Nat
      /\ Len(v4.handler.looks) > 0
  BY DEF M!FoundAsAsked, M!CallIsTyped, M!Handled
<1>2. Len(v4.found) \in DOMAIN v4.found
  BY <1>1
<1> QED
  BY <1>2 DEF M!Found, M!Last

(* What it makes belongs where the request is scoped to, and refers to     *)
(* what was found.                                                         *)
LEMMA MadeRows ==
  ASSUME M!ApiAssumption, M!RowsAreWhole, M!CallIsTyped, M!ScopeIsAllowed, M!FoundAsAsked
  PROVE  /\ \A r \in M!Made :
              /\ r \in M!Rows /\ M!Fits(r)
              /\ v4.door # "admin" /\ r.tenant = v4.scope
              /\ r.kind = "token" => M!Self \in r.of
              /\ v4.door = "read" => r.kind = "policy"
         /\ v4.handler.removes => M!Made = {}
<1> DEFINE kinds == v4.handler.makes \cup {x \in v4.handler.ensures : M!Ensured(x) = {}}
           refers == {<<"tenant", v4.scope, 0>>, M!Self} \cup M!Ids(M!Found)
                       \cup {<<k, v4.scope, 2>> : k \in v4.handler.makes}
           of(k) == {id \in refers : id[1] \in M!Parents[k]}
<1>1. /\ kinds \subseteq M!Kinds /\ v4.handler.makes \subseteq M!Kinds
      /\ v4.handler.removes => kinds = {}
      /\ kinds # {} => v4.door # "admin"
      /\ v4.door = "read" => kinds \subseteq {"policy"}
      /\ "token" \in kinds => v4.door = "user"
  BY DEF M!CallIsTyped, M!Handled
<1>2. M!Made = {M!New(k) : k \in kinds}
  BY DEF M!Made
<1>3. ASSUME NEW k \in kinds
      PROVE  /\ M!New(k) \in M!Rows /\ M!Fits(M!New(k)) /\ M!New(k).tenant = v4.scope
             /\ M!New(k).kind = k
             /\ k = "token" => M!Self \in M!New(k).of
  <2>1. v4.door # "admin" /\ v4.scope \in Tenants /\ k \in M!Kinds /\ Home \in Tenants
    BY <1>1 DEF M!ScopeIsAllowed, M!ApiAssumption
  <2>2. M!New(k) = [kind |-> k, id |-> <<k, v4.scope, 2>>, tenant |-> v4.scope, of |-> of(k)]
    BY DEF M!New
  <2>3. M!Self \in M!RowIds /\ M!Self[1] = "user" /\ M!Self[2] = Home
    BY <2>1, KindsAre DEF M!Self, M!RowIds
  <2>4. ASSUME NEW i \in refers, i[1] \in M!Parents[k]
        PROVE  i \in M!RowIds /\ i[2] = v4.scope
    <3>1. CASE i = <<"tenant", v4.scope, 0>>
      BY <2>1, <3>1, KindsAre DEF M!RowIds
    <3>2. CASE i = M!Self
      <4>1. k = "token"
        BY <2>1, <2>3, <2>4, <3>2, KindsAre
      <4>2. v4.scope = Home
        BY <1>1, <4>1 DEF M!ScopeIsAllowed
      <4> QED
        BY <2>3, <3>2, <4>2
    <3>3. CASE i \in M!Ids(M!Found)
      BY <2>1, <3>3, FoundRows DEF M!Ids, M!Rows
    <3>4. CASE i \in {<<x, v4.scope, 2>> : x \in v4.handler.makes}
      BY <1>1, <2>1, <3>4 DEF M!RowIds
    <3> QED
      BY <3>1, <3>2, <3>3, <3>4
  <2>5. of(k) \subseteq M!RowIds /\ \A i \in of(k) : i[1] \in M!Parents[k] /\ i[2] = v4.scope
    BY <2>4
  <2>6. k = "token" => M!Self \in of(k)
    <3>1. "user" \in M!Parents["token"]
      BY DEF M!Parents
    <3> QED
      BY <2>3, <3>1
  <2>7. <<k, v4.scope, 2>> \in M!RowIds
    BY <2>1 DEF M!RowIds
  <2> HIDE DEF kinds, refers, of
  <2>8. M!New(k) \in M!Rows
    BY <2>1, <2>2, <2>5, <2>7 DEF M!Rows
  <2>9. M!Fits(M!New(k))
    BY <2>2, <2>5 DEF M!Fits
  <2> QED
    BY <2>2, <2>6, <2>8, <2>9
<1> HIDE DEF kinds, refers, of
<1> QED
  BY <1>1, <1>2, <1>3

(* What it alters was found, or belongs to what was.                       *)
LEMMA AlteredRows ==
  ASSUME M!RowsAreWhole, M!CallIsTyped, M!ScopeIsAllowed, M!FoundAsAsked,
         ~(Len(v4.found) < Len(v4.handler.looks))
  PROVE  \A r \in M!Altered : /\ v4.door # "admin" => r.tenant = v4.scope
                              /\ r.kind = "token" => M!Self \in r.of
                              /\ v4.door = "read" => r.kind = "policy"
<1>1. ASSUME v4.handler.alters
      PROVE  /\ v4.door # "admin" => M!Last.tenant = v4.scope
             /\ M!Last.kind = "token" => M!Self \in M!Last.of
             /\ v4.door # "read"
  <2>1. M!Last \in M!Found
    BY <1>1, LastRow
  <2>2. v4.door # "read"
    BY <1>1 DEF M!CallIsTyped, M!Handled
  <2> QED
    BY <2>1, <2>2, FoundRows
<1>2. ASSUME NEW k \in v4.handler.ensures, NEW r \in M!Ensured(k)
      PROVE  r.tenant = v4.scope /\ r.kind # "token" /\ (v4.door = "read" => r.kind = "policy")
  <2>1. PICK n \in 1..Len(v4.handler.looks) : v4.handler.looks[n] \in M!Parents[k]
    BY DEF M!CallIsTyped, M!Handled
  <2>2. /\ v4.door # "admin" /\ k # "token" /\ (v4.door = "read" => k = "policy")
    BY DEF M!CallIsTyped, M!Handled
  <2>3. /\ v4.found \in Seq(M!Rows) /\ Len(v4.found) \in Nat
        /\ Len(v4.handler.looks) \in Nat
    BY DEF M!FoundAsAsked, M!CallIsTyped, M!Handled
  <2>4. n \in 1..Len(v4.found) /\ n \in DOMAIN v4.found
    BY <2>3
  <2>5. /\ v4.found[n] \in M!Found /\ v4.found[n].kind \in M!Parents[k]
    BY <2>1, <2>4 DEF M!Found, M!FoundAsAsked
  <2>6. r \in v1 /\ r.kind = k /\ v4.found[n].id \in r.of
    BY <2>5 DEF M!Ensured, M!Under
  <2>7. /\ v4.found[n].id[2] = v4.found[n].tenant /\ v4.found[n].tenant = v4.scope
    BY <2>2, <2>5, FoundRows
  <2>8. r.tenant = v4.found[n].id[2]
    BY <2>6 DEF M!RowsAreWhole, M!Fits
  <2> QED
    BY <2>2, <2>6, <2>7, <2>8
<1>3. \A r \in M!Altered : \/ v4.handler.alters /\ r = M!Last
                           \/ \E k \in v4.handler.ensures : r \in M!Ensured(k)
  BY DEF M!Altered
<1> QED
  BY <1>1, <1>2, <1>3

(* What it lists was reached, or belongs to what was found.                *)
LEMMA ListedRows ==
  ASSUME M!RowsAreWhole, M!CallIsTyped, M!ScopeIsAllowed, M!FoundAsAsked
  PROVE  \A r \in M!Listed : /\ v4.door # "admin" => r.tenant = v4.scope
                             /\ r.kind = "token" => M!Self \in r.of
<1> TAKE r \in M!Listed
<1>1. /\ r \in v1 /\ r.kind \in v4.handler.lists /\ M!Under(r)
      /\ \/ ~M!Scoped(r.kind) /\ \E f \in M!Found : f.kind \in M!Parents[r.kind]
         \/ M!Reaches(r)
  BY DEF M!Listed
<1>2. r.kind = "token" => v4.door = "user" /\ M!Scoped(r.kind)
  BY <1>1 DEF M!CallIsTyped, M!Handled, M!Scoped, M!Parents
<1>3. CASE M!Reaches(r)
  BY <1>1, <1>2, <1>3, ReachedRows
<1>4. CASE ~M!Scoped(r.kind) /\ \E f \in M!Found : f.kind \in M!Parents[r.kind]
  <2>1. PICK f \in M!Found : f.kind \in M!Parents[r.kind]
    BY <1>4
  <2>2. f.id \in r.of
    BY <1>1, <2>1 DEF M!Under
  <2>3. r.tenant = f.id[2]
    BY <1>1, <2>2 DEF M!RowsAreWhole, M!Fits
  <2> QED
    BY <1>2, <1>4, <2>3, FoundRows
<1> QED
  BY <1>1, <1>3, <1>4

(* What goes with a row it removes is of the same tenant.                  *)
LEMMA RemovedRows ==
  ASSUME M!RowsAreWhole, M!CallIsTyped, M!ScopeIsAllowed, M!FoundAsAsked,
         ~(Len(v4.found) < Len(v4.handler.looks))
  PROVE  /\ \A r \in M!Removed : v4.door # "admin" => r.tenant = v4.scope
         /\ M!Removed # {} => v4.handler.removes /\ v4.door # "read"
<1>1. CASE ~v4.handler.removes
  BY <1>1 DEF M!Removed
<1>2. CASE v4.handler.removes
  <2>1. M!Last \in M!Found /\ v4.door # "read"
    BY <1>2, LastRow DEF M!CallIsTyped, M!Handled
  <2>2. \A r \in v1 : r.tenant # M!Last.id[2] => r \in M!Without(M!Last.id)
    BY WithoutKeeps
  <2> QED
    BY <1>2, <2>1, <2>2, FoundRows DEF M!Removed
<1> QED
  BY <1>1, <1>2

(* The rows it leaves fit together.                                        *)
LEMMA ServedRows ==
  ASSUME M!ApiAssumption, M!RowsAreWhole, M!CallIsTyped, M!ScopeIsAllowed, M!FoundAsAsked, ~M!Fails,
         v1' = (v1 \ M!Removed) \cup M!Made
  PROVE  M!RowsAreWhole'
<1>1. CASE v4.handler.removes
  <2> DEFINE kept == M!Without(M!Last.id)
  <2>1. M!Made = {} /\ M!Removed = v1 \ kept
    BY <1>1, MadeRows DEF M!Removed
  <2>2. kept \subseteq v1
    BY WithoutKeeps
  <2>3. v1' = M!Without(M!Last.id)
    BY <2>1, <2>2
  <2> QED
    BY <2>3, WithoutIsWhole
<1>2. CASE ~v4.handler.removes
  <2>1. v1' = v1 \cup M!Made
    BY <1>2 DEF M!Removed
  <2>2. \A r \in M!Made : r \in M!Rows /\ M!Fits(r) /\ r.of \subseteq M!Ids(v1 \cup M!Made)
    BY MadeRows DEF M!Fails
  <2> QED
    BY <2>1, <2>2 DEF M!RowsAreWhole, M!Ids
<1> QED
  BY <1>1, <1>2

(* So the handler answers and writes rows of that tenant only.             *)
LEMMA ServeStep == ASSUME M!ApiAssumption, M!ApiInv, M!Serve PROVE M!ApiInv'
<1>1. /\ v4.pc = "scoped" /\ ~(Len(v4.found) < Len(v4.handler.looks))
      /\ M!RowsAreWhole /\ M!CallIsTyped /\ M!ScopeIsAllowed /\ M!FoundAsAsked
  BY DEF M!Serve, M!Looking, M!At, M!ApiInv
<1>2. CASE M!End("failed")
  BY <1>1, <1>2, StopStep
<1>3. CASE /\ ~M!Fails /\ v1' = (v1 \ M!Removed) \cup M!Made
           /\ M!Becomes([pc |-> "done", wrote |-> M!Made \cup M!Altered \cup M!Removed,
                         seen |-> M!Listed \cup M!Found \cup M!Made \cup M!Altered \cup M!Removed])
  <2> DEFINE wrote == M!Made \cup M!Altered \cup M!Removed
             seen == M!Listed \cup M!Found \cup M!Made \cup M!Altered \cup M!Removed
             more == [pc |-> "done", wrote |-> wrote, seen |-> seen]
  <2>1. M!RowsAreWhole'
    BY <1>1, <1>3, ServedRows
  <2>2. /\ DOMAIN more = {"pc", "wrote", "seen"} /\ more.pc = "done"
        /\ more.wrote = wrote /\ more.seen = seen
    OBVIOUS
  <2>3. /\ v4' = [f \in DOMAIN v4 |-> IF f \in DOMAIN more THEN more[f] ELSE v4[f]]
        /\ UNCHANGED <<v2, v3>>
    BY <1>3 DEF M!Becomes
  <2>4. \A r \in wrote : v4.door = "read" => r.kind = "policy"
    BY <1>1, MadeRows, AlteredRows, RemovedRows
  <2>5. \A r \in seen : v4.door # "admin" => r.tenant = v4.scope
    BY <1>1, MadeRows, AlteredRows, RemovedRows, ListedRows, FoundRows
  <2>6. \A r \in seen : r.kind = "token" /\ ~v4.handler.removes => M!Self \in r.of
    BY <1>1, MadeRows, AlteredRows, RemovedRows, ListedRows, FoundRows
  <2> HIDE DEF more, wrote, seen
  <2>7. /\ DOMAIN v4' = DOMAIN v4 /\ v4'.pc = "done" /\ v4'.door = v4.door
        /\ v4'.handler = v4.handler /\ v4'.scope = v4.scope
        /\ v4'.seen = seen /\ v4'.wrote = wrote
    BY <1>1, <2>2, <2>3 DEF M!CallIsTyped
  <2>8. M!CallIsTyped'
    BY <1>1, <2>7 DEF M!CallIsTyped
  <2>9. M!ScopeIsKept'
    BY <1>1, <2>3, <2>5, <2>6, <2>7 DEF M!ScopeIsKept, M!ScopeIsAllowed, M!Self
  <2>10. M!ReadersOnlyRead'
    <3>1. v4.door \in M!Mcp /\ v3.scopes = {"read"} => v4.door = "read"
      BY <1>1 DEF M!Mcp, M!ScopeIsAllowed
    <3> QED
      BY <2>3, <2>4, <2>7, <3>1 DEF M!ReadersOnlyRead
  <2> QED
    BY <2>1, <2>7, <2>8, <2>9, <2>10 DEF M!ApiInv
<1> QED
  BY <1>2, <1>3 DEF M!Serve

(* What others commit meanwhile touches no row of the request.             *)
LEMMA DisturbStep == ASSUME M!ApiInv, M!Disturb PROVE M!ApiInv'
<1>1. UNCHANGED <<v3, v4>> /\ (UNCHANGED v1 \/ \E id \in M!Relevant : v1' = M!Without(id))
  BY DEF M!Disturb
<1>2. M!RowsAreWhole'
  <2>1. CASE UNCHANGED v1
    BY <2>1 DEF M!ApiInv, M!RowsAreWhole, M!Ids
  <2>2. CASE \E id \in M!Relevant : v1' = M!Without(id)
    BY <2>2, WithoutIsWhole DEF M!ApiInv
  <2> QED
    BY <1>1, <2>1, <2>2
<1> QED
  BY <1>1, <1>2
     DEF M!ApiInv, M!CallIsTyped, M!ScopeIsAllowed, M!FoundAsAsked, M!ScopeIsKept,
         M!ReadersOnlyRead

(* So every step of a request, and of others meanwhile, keeps the          *)
(* invariant.                                                              *)
LEMMA ApiStep == ASSUME M!ApiAssumption, M!ApiInv, [M!Next]_(M!vars) PROVE M!ApiInv'
<1>1. ASSUME M!Authenticate PROVE M!ApiInv'
  <2>1. v4.pc = "sent" /\ (M!End("known") \/ M!End("refused"))
    BY <1>1 DEF M!Authenticate, M!At
  <2> QED
    BY <2>1, StopStep
<1>2. ASSUME M!Refuse PROVE M!ApiInv'
  <2>1. v4.pc = "scoped" /\ M!End("refused")
    BY <1>2 DEF M!Refuse, M!At
  <2> QED
    BY <2>1, StopStep
<1>3. ASSUME UNCHANGED M!vars PROVE M!ApiInv'
  BY <1>3
     DEF M!vars, M!ApiInv, M!RowsAreWhole, M!Ids, M!CallIsTyped, M!ScopeIsAllowed,
         M!FoundAsAsked, M!ScopeIsKept, M!ReadersOnlyRead
<1> QED
  BY <1>1, <1>2, <1>3, ResolveStep, LookUpStep, ServeStep, DisturbStep
     DEF M!Next, M!Finished

(* From the invariant: the request is scoped, and rows fit together.       *)
LEMMA ApiEnd == ASSUME M!ApiInv PROVE M!ApiIsScoped
<1>1. M!RowsFitTogether
  <2> SUFFICES ASSUME NEW r \in v1, NEW i \in r.of
               PROVE  i \in {x.id : x \in {y \in v1 : y.tenant = r.tenant}}
    BY DEF M!RowsFitTogether
  <2>1. PICK x \in v1 : x.id = i
    BY DEF M!ApiInv, M!RowsAreWhole, M!Ids
  <2>2. x.tenant = r.tenant
    BY <2>1 DEF M!ApiInv, M!RowsAreWhole, M!Fits
  <2> QED
    BY <2>1, <2>2
<1> QED
  BY <1>1 DEF M!ApiInv, M!ApiIsScoped

-----------------------------------------------------------------------------
(* What the invariants above do not say of the kinds of things.            *)

(* The kinds of pairs are part of RevokeInv.                               *)
LEMMA SessionTypes == ASSUME U!RevokeInv PROVE U!TypeOK
BY DEF U!RevokeInv, U!Types

(* At the door: what a request was told of a limit is a limit.             *)
AccessTypes ==
  /\ v2 \in {"live", "revoked", "gone"} /\ v3 \in 1..MaxLimit
  /\ v5 \in {"there", "leaving", "gone"}
  /\ v6 \in Requests \cup {C!NoOne}
  /\ v7 \in 0..MaxWindow
  /\ \A c \in DOMAIN v8 : c \in (Processes \cup {"redis"}) \X (0..MaxWindow)
  /\ \A p \in Requests : "limit" \in DOMAIN v9[p] => v9[p].limit \in 1..MaxLimit

(* A request that goes on, or is refused, has the limit it had.            *)
LEMMA LimitsStay ==
  ASSUME C!Types, AccessTypes, NEW p \in Requests,
         C!Refused(p) \/ \E pc : v9' = C!Goto(p, pc)
  PROVE  \A q \in Requests : "limit" \in DOMAIN v9'[q] => v9'[q].limit \in 1..MaxLimit
<1>1. DOMAIN v9 = Requests
  BY DEF C!Types
<1>2. CASE C!Refused(p)
  BY <1>1, <1>2 DEF C!Refused, AccessTypes
<1>3. ASSUME NEW pc, v9' = C!Goto(p, pc)
      PROVE  \A q \in Requests : "limit" \in DOMAIN v9'[q] => v9'[q].limit \in 1..MaxLimit
  <2> DEFINE x == [v9[p] EXCEPT !.pc = pc]
  <2>1. v9' = [v9 EXCEPT ![p] = x]
    BY <1>3 DEF C!Goto
  <2>2. "limit" \in DOMAIN x => "limit" \in DOMAIN v9[p] /\ x.limit = v9[p].limit
    OBVIOUS
  <2> HIDE DEF x
  <2> QED
    BY <1>1, <2>1, <2>2 DEF AccessTypes
<1> QED
  BY <1>2, <1>3

(* The statements of a request but for the count.                          *)
LEMMA UncountingTypes ==
  ASSUME C!AccessAssumption, C!Types, AccessTypes, NEW p \in Requests, Uncounting(p)
  PROVE  AccessTypes'
<1>1. UNCHANGED <<v2, v3, v7, v8>>
  BY DEF Uncounting, C!ReadKey, C!ReadTenant, C!ReadAgent, C!CheckFails, C!RecordUse, C!Refuse,
         C!WriteTurn, C!Commit, C!BreakDeadlock, C!World
<1>2. v5' \in {"there", "leaving", "gone"} /\ v6' \in Requests \cup {C!NoOne}
  BY DEF Uncounting, C!ReadKey, C!ReadTenant, C!ReadAgent, C!CheckFails, C!RecordUse, C!Refuse,
         C!WriteTurn, C!Commit, C!BreakDeadlock, C!World, C!Release, C!Stamped, AccessTypes
<1>3. \A q \in Requests : "limit" \in DOMAIN v9'[q] => v9'[q].limit \in 1..MaxLimit
  <2>1. CASE C!ReadKey(p)
    <3>1. PICK w \in Processes :
            v9' = [v9 EXCEPT ![p] =
                    IF v2 = "live" THEN [pc |-> "tenant", process |-> w, limit |-> v3]
                    ELSE [pc |-> "refused"]]
      BY <2>1 DEF C!ReadKey
    <3>2. DOMAIN v9 = Requests
      BY DEF C!Types
    <3> QED
      BY <3>1, <3>2 DEF AccessTypes
  <2>2. CASE C!Refused(p) \/ \E pc : v9' = C!Goto(p, pc)
    BY <2>2, LimitsStay
  <2>3. CASE UNCHANGED v9
    BY <2>3 DEF AccessTypes
  <2> QED
    BY <2>1, <2>2, <2>3
       DEF Uncounting, C!ReadTenant, C!ReadAgent, C!CheckFails, C!RecordUse, C!Refuse,
           C!WriteTurn, C!Commit, C!BreakDeadlock
<1> QED
  BY <1>1, <1>2, <1>3 DEF AccessTypes

(* The count, by a counter of the current window.                          *)
LEMMA CheckTypes ==
  ASSUME C!AccessAssumption, C!Types, AccessTypes, NEW p \in Requests, C!Check(p)
  PROVE  AccessTypes'
<1>1. UNCHANGED <<v2, v3, v5, v6, v7>>
  BY DEF C!Check, C!World
<1>2. v9[p] \in C!Uncounted
  BY DEF C!Check, C!At, C!Types, C!Outside, C!Counted
<1>3. C!Counter(p) \in (Processes \cup {"redis"}) \X (0..MaxWindow)
  BY <1>2 DEF C!Counter, C!Uncounted, AccessTypes
<1>4. DOMAIN v8' \subseteq DOMAIN v8 \cup {C!Counter(p)}
  BY DEF C!Check, C!Hit, C!Kept
<1>5. \A q \in Requests : "limit" \in DOMAIN v9'[q] => v9'[q].limit \in 1..MaxLimit
  <2>1. CASE C!Refused(p)
    BY <2>1, LimitsStay
  <2>2. CASE ~C!Refused(p)
    <3>1. v9' = [v9 EXCEPT ![p] = [pc |-> "use", process |-> v9[p].process,
                                   limit |-> v9[p].limit, counter |-> C!Counter(p)]]
      BY <2>2 DEF C!Check
    <3>2. DOMAIN v9 = Requests /\ v9[p].limit \in 1..MaxLimit
      BY <1>2 DEF C!Types, C!Uncounted, AccessTypes
    <3> QED
      BY <3>1, <3>2 DEF AccessTypes
  <2> QED
    BY <2>1, <2>2
<1> QED
  BY <1>1, <1>3, <1>4, <1>5 DEF AccessTypes

(* Every step of a request, the console or the clock.                      *)
LEMMA AccessTypesStep ==
  ASSUME C!AccessAssumption, C!LivingInv, AccessTypes, [C!Next]_(C!vars)
  PROVE  AccessTypes'
<1>1. C!Types
  BY DEF C!LivingInv
<1>2. ASSUME NEW p \in Requests, Uncounting(p) PROVE AccessTypes'
  BY <1>1, <1>2, UncountingTypes
<1>3. ASSUME NEW p \in Requests, C!Check(p) PROVE AccessTypes'
  BY <1>1, <1>3, CheckTypes
<1>4. CASE C!Console
  BY <1>4 DEF C!Console, C!ChangeKey, C!Switch, C!Delete, C!Cascade, AccessTypes
<1>5. CASE C!NextWindow
  <2>1. v7' \in 0..MaxWindow /\ UNCHANGED <<v2, v3, v5, v6, v8, v9>>
    BY <1>5 DEF C!NextWindow, AccessTypes, C!AccessAssumption
  <2> QED
    BY <2>1 DEF AccessTypes
<1>6. CASE C!Finished \/ UNCHANGED C!vars
  BY <1>6 DEF C!Finished, C!vars, AccessTypes
<1> QED
  BY <1>2, <1>3, <1>4, <1>5, <1>6 DEF C!Next, C!Statement, Uncounting

(* Nothing has been counted at first.                                      *)
LEMMA AccessTypesStart == ASSUME C!AccessAssumption, C!Init PROVE AccessTypes
<1>1. DOMAIN v8 = {}
  BY DEF C!Init
<1>2. \A p \in Requests : "limit" \notin DOMAIN v9[p]
  BY DEF C!Init
<1>3. 0 \in 0..MaxWindow
  BY DEF C!AccessAssumption
<1> QED
  BY <1>1, <1>2, <1>3 DEF C!Init, AccessTypes

(* What a request holds is part of LivingInv.                              *)
LEMMA AccessTypesEnd == ASSUME C!LivingInv, AccessTypes PROVE C!TypeOK
<1>1. ASSUME NEW p \in Requests, C!At(p, "use") PROVE v9[p].limit \in 1..MaxLimit
  <2>1. v9[p] \in C!Uncounted \cup C!Counted
    BY <1>1 DEF C!LivingInv, C!Types, C!At, C!Outside
  <2>2. "limit" \in DOMAIN v9[p]
    BY <2>1 DEF C!Uncounted, C!Counted
  <2> QED
    BY <2>2 DEF AccessTypes
<1> QED
  BY <1>1 DEF AccessTypes, C!TypeOK

(* At the management API: what a request found, answers and wrote are      *)
(* rows, also when it has ended early.                                     *)
ApiTypes ==
  /\ v2 \subseteq Tenants /\ v5 \in 0..MaxChanges
  /\ v4.scope \in Tenants \cup {M!Nobody}
  /\ v4.found \in Seq(M!Rows) /\ v4.seen \subseteq M!Rows /\ v4.wrote \subseteq M!Rows

(* What a step changes of the request keeps its kind.                      *)
LEMMA BecomesTypes ==
  ASSUME M!CallIsTyped, ApiTypes, NEW more, M!Becomes(more),
         "scope" \in DOMAIN more => more.scope \in Tenants \cup {M!Nobody},
         "found" \in DOMAIN more => more.found \in Seq(M!Rows),
         "seen" \in DOMAIN more => more.seen \subseteq M!Rows,
         "wrote" \in DOMAIN more => more.wrote \subseteq M!Rows
  PROVE  ApiTypes'
<1>1. /\ UNCHANGED <<v2, v5>>
      /\ v4' = [f \in DOMAIN v4 |-> IF f \in DOMAIN more THEN more[f] ELSE v4[f]]
  BY DEF M!Becomes
<1>2. \A f \in DOMAIN v4 : v4'[f] = IF f \in DOMAIN more THEN more[f] ELSE v4[f]
  BY <1>1
<1>3. v4'.scope = IF "scope" \in DOMAIN more THEN more.scope ELSE v4.scope
  BY <1>2 DEF M!CallIsTyped
<1>4. v4'.found = IF "found" \in DOMAIN more THEN more.found ELSE v4.found
  BY <1>2 DEF M!CallIsTyped
<1>5. v4'.seen = IF "seen" \in DOMAIN more THEN more.seen ELSE v4.seen
  BY <1>2 DEF M!CallIsTyped
<1>6. v4'.wrote = IF "wrote" \in DOMAIN more THEN more.wrote ELSE v4.wrote
  BY <1>2 DEF M!CallIsTyped
<1> QED
  BY <1>1, <1>3, <1>4, <1>5, <1>6 DEF ApiTypes

(* A request that ends early, or becomes known.                            *)
LEMMA StopTypes == ASSUME M!CallIsTyped, ApiTypes, NEW pc, M!End(pc) PROVE ApiTypes'
<1> DEFINE more == [pc |-> pc]
<1>1. DOMAIN more = {"pc"}
  OBVIOUS
<1>2. M!Becomes(more)
  BY DEF M!End
<1> HIDE DEF more
<1> QED
  BY <1>1, <1>2, BecomesTypes

(* It is scoped to nobody, to its own tenant or to one that is there.      *)
LEMMA ResolveTypes ==
  ASSUME M!ApiAssumption, M!ApiInv, ApiTypes, M!Resolve PROVE ApiTypes'
<1>1. M!RowsAreWhole /\ M!CallIsTyped /\ Home \in Tenants
  BY DEF M!ApiInv, M!ApiAssumption
<1>2. \/ M!End("refused") \/ M!End("missing")
      \/ /\ M!Becomes([pc |-> "scoped", scope |-> M!ScopeOf])
         /\ M!ScopeOf \in {Home, M!Nobody} \/ <<"tenant", M!ScopeOf, 0>> \in M!Ids(v1)
  BY DEF M!Resolve
<1>3. CASE /\ M!Becomes([pc |-> "scoped", scope |-> M!ScopeOf])
           /\ M!ScopeOf \in {Home, M!Nobody} \/ <<"tenant", M!ScopeOf, 0>> \in M!Ids(v1)
  <2> DEFINE more == [pc |-> "scoped", scope |-> M!ScopeOf]
  <2>1. DOMAIN more = {"pc", "scope"} /\ more.scope = M!ScopeOf
    OBVIOUS
  <2>2. M!Becomes(more)
    BY <1>3
  <2> HIDE DEF more
  <2>3. ASSUME <<"tenant", M!ScopeOf, 0>> \in M!Ids(v1) PROVE M!ScopeOf \in Tenants
    BY <1>1, <2>3 DEF M!Ids, M!RowsAreWhole, M!Rows, M!RowIds
  <2>4. M!ScopeOf \in Tenants \cup {M!Nobody}
    BY <1>1, <1>3, <2>3
  <2> QED
    BY <1>1, <2>1, <2>2, <2>4, BecomesTypes
<1> QED
  BY <1>1, <1>2, <1>3, StopTypes

(* It finds a row.                                                         *)
LEMMA LookUpTypes == ASSUME M!ApiInv, ApiTypes, M!LookUp PROVE ApiTypes'
<1>1. M!RowsAreWhole /\ M!CallIsTyped
  BY DEF M!ApiInv
<1> DEFINE kind == v4.handler.looks[Len(v4.found) + 1]
           Rs(name) == {x \in v1 : x.id = <<kind, name[1], name[2]>> /\ M!Reaches(x) /\ M!Under(x)}
<1>2. PICK name \in M!Named(kind) :
        IF Rs(name) = {} THEN M!End("missing")
        ELSE M!Becomes([found |-> Append(v4.found, CHOOSE x \in Rs(name) : TRUE)])
  BY DEF M!LookUp
<1>3. CASE Rs(name) = {}
  BY <1>1, <1>2, <1>3, StopTypes
<1>4. CASE Rs(name) # {}
  <2> DEFINE r == CHOOSE x \in Rs(name) : TRUE
             more == [found |-> Append(v4.found, r)]
  <2>1. r \in v1
    BY <1>4
  <2>2. DOMAIN more = {"found"} /\ more.found = Append(v4.found, r)
    OBVIOUS
  <2>3. M!Becomes(more)
    BY <1>2, <1>4
  <2> HIDE DEF more, r
  <2>4. Append(v4.found, r) \in Seq(M!Rows)
    BY <1>1, <2>1 DEF M!RowsAreWhole, ApiTypes
  <2> QED
    BY <1>1, <2>2, <2>3, <2>4, BecomesTypes
<1> QED
  BY <1>3, <1>4

(* It lists, makes, alters and removes rows.                               *)
LEMMA ServeTypes == ASSUME M!ApiAssumption, M!ApiInv, ApiTypes, M!Serve PROVE ApiTypes'
<1>1. /\ ~(Len(v4.found) < Len(v4.handler.looks))
      /\ M!RowsAreWhole /\ M!CallIsTyped /\ M!ScopeIsAllowed /\ M!FoundAsAsked
  BY DEF M!Serve, M!Looking, M!At, M!ApiInv
<1> DEFINE wrote == M!Made \cup M!Altered \cup M!Removed
           seen == M!Listed \cup M!Found \cup M!Made \cup M!Altered \cup M!Removed
           more == [pc |-> "done", wrote |-> wrote, seen |-> seen]
<1>2. M!End("failed") \/ M!Becomes(more)
  BY DEF M!Serve
<1>3. M!Listed \subseteq M!Rows /\ M!Removed \subseteq M!Rows
  BY <1>1 DEF M!Listed, M!Removed, M!RowsAreWhole
<1>4. M!Made \subseteq M!Rows /\ M!Found \subseteq M!Rows
  BY <1>1, MadeRows, FoundRows
<1>5. M!Altered \subseteq M!Rows
  <2>1. v4.handler.alters => M!Last \in M!Rows
    BY <1>1, <1>4, LastRow
  <2>2. \A k : M!Ensured(k) \subseteq M!Rows
    BY <1>1 DEF M!Ensured, M!RowsAreWhole
  <2> QED
    BY <2>1, <2>2 DEF M!Altered
<1>6. DOMAIN more = {"pc", "wrote", "seen"} /\ more.wrote = wrote /\ more.seen = seen
  OBVIOUS
<1>7. wrote \subseteq M!Rows /\ seen \subseteq M!Rows
  BY <1>3, <1>4, <1>5
<1> HIDE DEF more, wrote, seen
<1> QED
  BY <1>1, <1>2, <1>6, <1>7, StopTypes, BecomesTypes

(* Every step of a request, and of others meanwhile.                       *)
LEMMA ApiTypesStep ==
  ASSUME M!ApiAssumption, M!ApiInv, ApiTypes, [M!Next]_(M!vars)
  PROVE  ApiTypes'
<1>1. M!CallIsTyped
  BY DEF M!ApiInv
<1>2. CASE M!Authenticate \/ M!Refuse
  BY <1>1, <1>2, StopTypes DEF M!Authenticate, M!Refuse
<1>3. CASE M!Disturb
  BY <1>3 DEF M!Disturb, ApiTypes, M!ApiAssumption
<1>4. CASE M!Finished \/ UNCHANGED M!vars
  BY <1>4 DEF M!Finished, M!vars, ApiTypes
<1> QED
  BY <1>2, <1>3, <1>4, ResolveTypes, LookUpTypes, ServeTypes DEF M!Next

(* Nothing is found at first.                                              *)
LEMMA ApiTypesStart == ASSUME M!ApiAssumption, M!Init PROVE ApiTypes
<1>1. /\ v2 = Tenants /\ v5 = 0 /\ v4.scope = M!Nobody /\ v4.found = <<>>
      /\ v4.seen = {} /\ v4.wrote = {}
  BY DEF M!Init
<1> QED
  BY <1>1 DEF ApiTypes, M!ApiAssumption

(* The rows are part of ApiInv.                                            *)
LEMMA ApiTypesEnd == ASSUME M!ApiInv, ApiTypes PROVE M!TypeOK
<1>1. v1 \subseteq M!Rows
  BY DEF M!ApiInv, M!RowsAreWhole
<1>2. \A r \in M!Rows : r.kind \in M!Kinds /\ r.tenant \in Tenants
                        /\ r.of \subseteq M!Kinds \X Tenants \X (0..2)
  BY DEF M!Rows, M!RowIds
<1>3. M!Found \subseteq M!Rows
  BY DEF M!Found, ApiTypes
<1> QED
  BY <1>1, <1>2, <1>3 DEF ApiTypes, M!TypeOK

-----------------------------------------------------------------------------
(* The run starts in one part, and that part starts as it does by itself.  *)
LEMMA AccessBegin ==
  Init => /\ users => U!Init
          /\ access => C!Init
          /\ management => M!Init
BY DEF Init, agents, sync, retrieval, connector, access, events, outbound, tools, llm,
       analytics, management, deliveries, users

(* A step is one of the part that runs, or leaves its variables alone.     *)
LEMMA AccessMove ==
  [Next]_vars =>
    /\ users' <=> users
    /\ users => [U!Next]_(U!vars)
    /\ access' <=> access
    /\ access => [C!Next]_(C!vars)
    /\ management' <=> management
    /\ management => [M!Next]_(M!vars)
BY DEF Next, vars, Only_agents, Only_sync, Only_retrieval, Only_connector, Only_access,
       Only_events, Only_outbound, Only_tools, Only_llm, Only_analytics,
       Only_management, Only_deliveries, Only_users, agents, sync, retrieval, connector,
       access, events, outbound, tools, llm, analytics, management, deliveries, users,
       U!vars, C!vars, M!vars

(* When a log-in, refresh, change of password or log-out has committed,    *)
(* every sign-in committed before it began to revoke is over, for any      *)
(* number of overlapping requests, roll-backs, expiries and deadlocks.     *)
THEOREM SignInsEnd == Spec => []EarlierPairsEnd
<1>1. Init => (users => U!RevokeInv)
  BY UsersAssumed, AccessBegin, RevokeStart
<1>2. (users => U!RevokeInv) /\ [Next]_vars => (users => U!RevokeInv)'
  BY UsersAssumed, AccessMove, RevokeStep
<1>3. (users => U!RevokeInv) => EarlierPairsEnd
  BY RevokeEnd DEF EarlierPairsEnd
<1> QED
  BY <1>1, <1>2, <1>3, PTL DEF Spec

(* One counter of Redis admits no more requests in a window than the limit *)
(* they came with, however they overlap, whatever the limit is changed to  *)
(* and whenever Redis is out.                                              *)
THEOREM AllowanceIsKept == Spec => []AllowanceHolds
<1>1. Init => (access => C!AllowanceInv)
  BY AccessAssumed, AccessBegin, AccessStart
<1>2. (access => C!AllowanceInv) /\ [Next]_vars => (access => C!AllowanceInv)'
  BY AccessAssumed, AccessMove, AllowanceStep
<1>3. (access => C!AllowanceInv) => AllowanceHolds
  BY AccessEnd DEF AllowanceHolds
<1> QED
  BY <1>1, <1>2, <1>3, PTL DEF Spec

(* A turn is committed only while its agent, tenant and key are there,     *)
(* though it read them long before it commits.                             *)
THEOREM TheLivingAreServed == Spec => ServesTheLiving
<1>1. Init => (access => C!LivingInv)
  BY AccessAssumed, AccessBegin, AccessStart
<1>2. (access => C!LivingInv) /\ [Next]_vars =>
        (access => C!LivingInv)' /\ (access => C!ServesTheLivingStep)
  BY AccessAssumed, AccessMove, LivingStep
<1> QED
  BY <1>1, <1>2, PTL DEF Spec, ServesTheLiving

(* A request of the management API, by any of its doors and to any of its  *)
(* endpoints, answers and writes rows of the tenant it is scoped to only,  *)
(* whatever is removed while it runs.                                      *)
THEOREM RequestsAreScoped == Spec => []ApiIsScoped
<1>1. Init => (management => M!ApiInv)
  BY ManagementAssumed, AccessBegin, ApiStart
<1>2. (management => M!ApiInv) /\ [Next]_vars => (management => M!ApiInv)'
  BY ManagementAssumed, AccessMove, ApiStep
<1>3. (management => M!ApiInv) => ApiIsScoped
  BY ApiEnd DEF ApiIsScoped
<1> QED
  BY <1>1, <1>2, <1>3, PTL DEF Spec

(* Whatever a component of the platform keeps is of its kind, for any      *)
(* number of requests, workers, messages, rows and retries: what the three *)
(* modules prove of their components, together.                            *)
THEOREM KindsAreKept == Spec => []TypeOK
<1>1. Spec => [](users => U!TypeOK)
  <2>1. Init => (users => U!RevokeInv)
    BY UsersAssumed, AccessBegin, RevokeStart
  <2>2. (users => U!RevokeInv) /\ [Next]_vars =>
          (users => U!RevokeInv)'
    BY UsersAssumed, AccessMove, RevokeStep
  <2>3. (users => U!RevokeInv) => (users => U!TypeOK)
    BY UsersAssumed, SessionTypes
  <2> QED
    BY <2>1, <2>2, <2>3, PTL DEF Spec
<1>2. Spec => [](access => C!TypeOK)
  <2>1. Init => (access => C!LivingInv /\ AccessTypes)
    BY AccessAssumed, AccessBegin, AccessStart, AccessTypesStart
  <2>2. (access => C!LivingInv /\ AccessTypes) /\ [Next]_vars =>
          (access => C!LivingInv /\ AccessTypes)'
    BY AccessAssumed, AccessMove, LivingStep, AccessTypesStep
  <2>3. (access => C!LivingInv /\ AccessTypes) => (access => C!TypeOK)
    BY AccessAssumed, AccessTypesEnd
  <2> QED
    BY <2>1, <2>2, <2>3, PTL DEF Spec
<1>3. Spec => [](management => M!TypeOK)
  <2>1. Init => (management => M!ApiInv /\ ApiTypes)
    BY ManagementAssumed, AccessBegin, ApiStart, ApiTypesStart
  <2>2. (management => M!ApiInv /\ ApiTypes) /\ [Next]_vars =>
          (management => M!ApiInv /\ ApiTypes)'
    BY ManagementAssumed, AccessMove, ApiStep, ApiTypesStep
  <2>3. (management => M!ApiInv /\ ApiTypes) => (management => M!TypeOK)
    BY ManagementAssumed, ApiTypesEnd
  <2> QED
    BY <2>1, <2>2, <2>3, PTL DEF Spec
<1>4. AgentKinds /\ ChannelKinds /\ (users => U!TypeOK) /\ (access => C!TypeOK)
        /\ (management => M!TypeOK) => TypeOK
  BY DEF AgentKinds, ChannelKinds, TypeOK
<1> QED
  BY <1>1, <1>2, <1>3, <1>4, AgentKindsAreKept, ChannelKindsAreKept, PTL
=============================================================================
