------------------------ MODULE MCConversationTurns ------------------------
(* ConversationTurns on small sets; two conversations may share a lock.    *)
EXTENDS ConversationTurns, TLC

CONSTANTS t1, t2, t3, c2, l1, l2

(* Every other conversation folds to the same advisory lock, as _lock_key  *)
(* may do.                                                                 *)
MCLockKey == [c \in Convs |-> IF c = c2 THEN l2 ELSE l1]

(* Turns are interchangeable: the invariants name none of them.            *)
TurnSymmetry == Permutations({t1, t2, t3})
=============================================================================
