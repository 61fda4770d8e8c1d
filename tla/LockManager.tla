---------------------------- MODULE LockManager ----------------------------
(***************************************************************************)
(* The tuple lock manager of SamehadaDB (lib/storage/access/lock_manager.go)*)
(* together with the lock sets every Transaction object keeps              *)
(* (transaction.go) and the protocol by which the table pages call it.     *)
(*                                                                         *)
(* It is a no-wait lock manager: a request is granted or refused at once,  *)
(* and whoever is refused a lock on an existing tuple is put in the state  *)
(* ABORTED.  Every operation runs under one mutex, so each is one step.    *)
(*                                                                         *)
(* A member of Txn stands for a Transaction object.  Ids are never reused  *)
(* by the program; here a finished transaction's place may be taken by a   *)
(* new object (Begin), which keeps Txn finite without ending behaviours.   *)
(***************************************************************************)
CONSTANTS Txn,      \* transactions that may exist at the same time
          Rid,      \* record identifiers (page id, slot number)
          NoTxn     \* "no entry" in the exclusive lock table

ASSUME NoTxnAssumption == NoTxn \notin Txn

VARIABLES
  shared_lock_table,     \* Rid -> the transactions holding a shared lock
  exclusive_lock_table,  \* Rid -> the transaction holding the exclusive lock
  shared_lock_set,       \* Txn -> rids its object records as shared locked
  exclusive_lock_set,    \* Txn -> rids its object records as exclusively locked
  txn_state              \* Txn -> state of the object

tables == <<shared_lock_table, exclusive_lock_table>>
lock_sets == <<shared_lock_set, exclusive_lock_set>>
vars == <<tables, lock_sets, txn_state>>

\* "NONE": no object yet, or its locks were released and it is dropped.
TxnState == {"NONE", "GROWING", "ABORTED"}

Active(t) == txn_state[t] # "NONE"

(***************************************************************************)
(* The code keeps the holders of a shared lock in a slice.  An id is       *)
(* appended only when it is not in the slice, so a set loses nothing; an   *)
(* absent key and a key with an empty slice are treated alike everywhere.  *)
(***************************************************************************)
IsSharedLocked(t, r) == r \in shared_lock_set[t]
IsExclusiveLocked(t, r) == r \in exclusive_lock_set[t]

GrantShared(t, r) ==
  /\ shared_lock_table' = [shared_lock_table EXCEPT ![r] = @ \cup {t}]
  /\ shared_lock_set' = [shared_lock_set EXCEPT ![t] = @ \cup {r}]
  /\ UNCHANGED <<exclusive_lock_table, exclusive_lock_set>>

GrantExclusive(t, r) ==
  /\ exclusive_lock_table' = [exclusive_lock_table EXCEPT ![r] = t]
  /\ exclusive_lock_set' = [exclusive_lock_set EXCEPT ![t] = @ \cup {r}]
  /\ UNCHANGED <<shared_lock_table, shared_lock_set>>

KeepLocks == UNCHANGED <<tables, lock_sets>>

\* Faulty variant: the grant is not entered in the transaction's lock set.
LockSharedUnrecorded(t, r, granted) ==
  \/ /\ exclusive_lock_table[r] # NoTxn
     /\ granted = (exclusive_lock_table[r] = t)
     /\ KeepLocks
  \/ /\ exclusive_lock_table[r] = NoTxn
     /\ granted = TRUE
     /\ shared_lock_table' = [shared_lock_table EXCEPT ![r] = @ \cup {t}]
     /\ UNCHANGED <<exclusive_lock_table, lock_sets>>

\* LockShared, LockExclusive and LockUpgrade with their result.
LockShared(t, r, granted) ==
  \/ /\ exclusive_lock_table[r] # NoTxn
     /\ granted = (exclusive_lock_table[r] = t)
     /\ KeepLocks
  \/ /\ exclusive_lock_table[r] = NoTxn
     /\ granted = TRUE
     /\ IF t \in shared_lock_table[r] THEN KeepLocks ELSE GrantShared(t, r)

LockExclusive(t, r, granted) ==
  \/ /\ exclusive_lock_table[r] # NoTxn
     /\ granted = (exclusive_lock_table[r] = t)
     /\ KeepLocks
  \/ /\ exclusive_lock_table[r] = NoTxn
     /\ granted = (shared_lock_table[r] \subseteq {t})
     /\ IF granted THEN GrantExclusive(t, r) ELSE KeepLocks

\* Faulty variant: an upgrade that does not look at the other holders.
LockUpgradeUnchecked(t, r, granted) ==
  /\ IsSharedLocked(t, r)
  /\ \/ /\ exclusive_lock_table[r] # NoTxn
        /\ granted = (exclusive_lock_table[r] = t)
        /\ KeepLocks
     \/ /\ exclusive_lock_table[r] = NoTxn
        /\ granted = TRUE
        /\ GrantExclusive(t, r)

\* The code tests that the list of holders has length one, not who is in it.
\* Calling it without a shared lock panics: the caller's guard excludes that.
LockUpgrade(t, r, granted) ==
  /\ IsSharedLocked(t, r)
  /\ \/ /\ exclusive_lock_table[r] # NoTxn
        /\ granted = (exclusive_lock_table[r] = t)
        /\ KeepLocks
     \/ /\ exclusive_lock_table[r] = NoTxn
        /\ granted = (\E u \in Txn : shared_lock_table[r] = {u})
        /\ IF granted THEN GrantExclusive(t, r) ELSE KeepLocks

\* Faulty variant: the whole list of shared holders goes, as if t were alone.
UnlockEveryHolder(t, rids) ==
  /\ exclusive_lock_table' =
       [r \in Rid |-> IF r \in rids /\ exclusive_lock_table[r] = t
                      THEN NoTxn ELSE exclusive_lock_table[r]]
  /\ shared_lock_table' =
       [r \in Rid |-> IF r \in rids THEN {} ELSE shared_lock_table[r]]

Unlock(t, rids) ==
  /\ exclusive_lock_table' =
       [r \in Rid |-> IF r \in rids /\ exclusive_lock_table[r] = t
                      THEN NoTxn ELSE exclusive_lock_table[r]]
  /\ shared_lock_table' =
       [r \in Rid |-> IF r \in rids THEN shared_lock_table[r] \ {t}
                                    ELSE shared_lock_table[r]]

-----------------------------------------------------------------------------
(***************************************************************************)
(* The callers.                                                            *)
(***************************************************************************)
Refuse(t) == txn_state' = [txn_state EXCEPT ![t] = "ABORTED"]

\* A refused request aborts its transaction; a granted one may still be
\* followed, under the same page latch, by finding the tuple deleted.
Outcome(t, granted) == Refuse(t) \/ (granted /\ UNCHANGED txn_state)

\* A place without an object has empty lock sets, like a new object.
Begin(t) ==
  /\ txn_state[t] = "NONE"
  /\ txn_state' = [txn_state EXCEPT ![t] = "GROWING"]
  /\ KeepLocks

Drop(t) ==
  /\ txn_state' = [txn_state EXCEPT ![t] = "NONE"]
  /\ shared_lock_set' = [shared_lock_set EXCEPT ![t] = {}]
  /\ exclusive_lock_set' = [exclusive_lock_set EXCEPT ![t] = {}]

\* The lock a read takes (TableHeap.GetTuple, TablePage.GetTuple).
AcquireForRead(t, r, granted) ==
  IF IsSharedLocked(t, r) \/ IsExclusiveLocked(t, r)
  THEN granted = TRUE /\ KeepLocks
  ELSE LockShared(t, r, granted)

LockForRead(t, r) ==
  /\ Active(t)
  /\ \E granted \in BOOLEAN : AcquireForRead(t, r, granted) /\ Outcome(t, granted)

\* The lock an update or a delete takes (TablePage.UpdateTuple, MarkDelete).
AcquireForWrite(t, r, granted) ==
  \/ IsSharedLocked(t, r) /\ LockUpgrade(t, r, granted)
  \/ ~IsSharedLocked(t, r) /\ ~IsExclusiveLocked(t, r) /\ LockExclusive(t, r, granted)
  \/ ~IsSharedLocked(t, r) /\ IsExclusiveLocked(t, r) /\ granted = TRUE /\ KeepLocks

LockForWrite(t, r) ==
  /\ Active(t)
  /\ \E granted \in BOOLEAN : AcquireForWrite(t, r, granted) /\ Outcome(t, granted)

\* The lock an insert takes on the slot it found; a refusal is not an abort,
\* the heap goes on to another page (TablePage.InsertTuple).
LockForInsert(t, r) ==
  /\ Active(t)
  /\ \E granted \in BOOLEAN : LockExclusive(t, r, granted)
  /\ UNCHANGED txn_state

\* The state is set without a lock request (a failed plan, a deleted tuple).
SetAborted(t) ==
  /\ Active(t)
  /\ Refuse(t)
  /\ KeepLocks

\* Faulty variant: only the exclusive locks are collected for release.
ReleaseExclusiveOnly(t) ==
  /\ Active(t)
  /\ Unlock(t, exclusive_lock_set[t])
  /\ Drop(t)

\* releaseLocks, at the end of Commit and of Abort; the object is dropped.
ReleaseLocks(t) ==
  /\ Active(t)
  /\ Unlock(t, exclusive_lock_set[t] \cup shared_lock_set[t])
  /\ Drop(t)

-----------------------------------------------------------------------------
Init ==
  /\ shared_lock_table = [r \in Rid |-> {}]
  /\ exclusive_lock_table = [r \in Rid |-> NoTxn]
  /\ shared_lock_set = [t \in Txn |-> {}]
  /\ exclusive_lock_set = [t \in Txn |-> {}]
  /\ txn_state = [t \in Txn |-> "NONE"]

Next ==
  \E t \in Txn :
    \/ Begin(t)
    \/ SetAborted(t)
    \/ ReleaseLocks(t)
    \/ \E r \in Rid : LockForRead(t, r) \/ LockForWrite(t, r) \/ LockForInsert(t, r)

Spec == Init /\ [][Next]_vars

-----------------------------------------------------------------------------
\* The tables map every rid to its holders, the objects their recorded rids.
TypeOK ==
  /\ shared_lock_table \in [Rid -> SUBSET Txn]
  /\ exclusive_lock_table \in [Rid -> Txn \cup {NoTxn}]
  /\ shared_lock_set \in [Txn -> SUBSET Rid]
  /\ exclusive_lock_set \in [Txn -> SUBSET Rid]
  /\ txn_state \in [Txn -> TxnState]

\* While a transaction holds a tuple exclusively no other transaction holds
\* it in any mode: LockUpgrade only counts the holders and LockExclusive only
\* compares with itself, and it must still come out right.
Exclusion ==
  \A r \in Rid : exclusive_lock_table[r] # NoTxn =>
                   shared_lock_table[r] \subseteq {exclusive_lock_table[r]}

\* What a live Transaction object records as locked is exactly what the tables
\* grant it.  releaseLocks unlocks what the object records, and every access
\* path trusts the object instead of asking the lock manager again.
LockBookkeeping ==
  \A t \in Txn, r \in Rid :
    /\ IsSharedLocked(t, r) <=> t \in shared_lock_table[r]
    /\ IsExclusiveLocked(t, r) <=> exclusive_lock_table[r] = t

\* No lock survives its transaction.  With a no-wait lock manager an orphaned
\* entry would make every later transaction on that tuple abort, for ever.
NoOrphanLocks ==
  \A t \in Txn, r \in Rid : ~Active(t) =>
    /\ t \notin shared_lock_table[r]
    /\ exclusive_lock_table[r] # t

\* Strong strict two-phase locking: a lock that is held stays held, in a mode
\* at least as strong, until the step that ends its transaction; in particular
\* nobody else's request or release takes it away.
StrictTwoPhase ==
  [][\A t \in Txn, r \in Rid : Active(t) /\ Active(t)' =>
       /\ t \in shared_lock_table[r] => t \in shared_lock_table'[r]
       /\ exclusive_lock_table[r] = t => exclusive_lock_table'[r] = t]_vars

=============================================================================
