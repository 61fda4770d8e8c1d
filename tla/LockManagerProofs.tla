------------------------- MODULE LockManagerProofs -------------------------
(***************************************************************************)
(* Proofs about LockManager for every set of transactions and of rids.     *)
(*                                                                         *)
(* Exclusion alone is not inductive: LockUpgrade grants when the list of   *)
(* holders has one member, without checking that this member is the        *)
(* caller, so one must know that a caller whose object says "shared" is in *)
(* the list (LockBookkeeping); and a new object starts with empty lock     *)
(* sets, so one must know that no entry of its predecessor is left         *)
(* (NoOrphanLocks).  The conjunction is inductive.                         *)
(***************************************************************************)
EXTENDS LockManager, TLAPS

IInv == TypeOK /\ Exclusion /\ LockBookkeeping /\ NoOrphanLocks

USE DEF Active, IsSharedLocked, IsExclusiveLocked

-----------------------------------------------------------------------------
\* Being refused a lock neither creates nor ends a transaction.
LEMMA StateChange ==
  ASSUME NEW t \in Txn, IInv, Active(t), UNCHANGED txn_state \/ Refuse(t)
  PROVE  /\ txn_state' \in [Txn -> TxnState]
         /\ \A u \in Txn : (txn_state[u] # "NONE") <=> (txn_state'[u] # "NONE")
BY DEF IInv, TypeOK, Refuse, TxnState

\* Entering a shared lock on a tuple that nobody holds exclusively.
LEMMA GrantSharedInv ==
  ASSUME NEW t \in Txn, NEW r \in Rid, IInv, Active(t),
         exclusive_lock_table[r] = NoTxn,
         GrantShared(t, r), UNCHANGED txn_state \/ Refuse(t)
  PROVE  IInv'
<1>0. /\ txn_state' \in [Txn -> TxnState]
      /\ \A u \in Txn : (txn_state[u] # "NONE") <=> (txn_state'[u] # "NONE")
  BY StateChange
<1>1. TypeOK'
  BY <1>0 DEF IInv, TypeOK, GrantShared
<1>2. Exclusion'
  BY DEF IInv, TypeOK, GrantShared, Exclusion
<1>3. LockBookkeeping'
  BY <1>0 DEF IInv, TypeOK, GrantShared, LockBookkeeping
<1>4. NoOrphanLocks'
  BY <1>0 DEF IInv, TypeOK, GrantShared, NoOrphanLocks
<1> QED
  BY <1>1, <1>2, <1>3, <1>4 DEF IInv

\* Entering an exclusive lock on a tuple that nobody holds exclusively and
\* that at most the requester holds in shared mode.
LEMMA GrantExclusiveInv ==
  ASSUME NEW t \in Txn, NEW r \in Rid, IInv, Active(t),
         exclusive_lock_table[r] = NoTxn, shared_lock_table[r] \subseteq {t},
         GrantExclusive(t, r), UNCHANGED txn_state \/ Refuse(t)
  PROVE  IInv'
<1>0. /\ txn_state' \in [Txn -> TxnState]
      /\ \A u \in Txn : (txn_state[u] # "NONE") <=> (txn_state'[u] # "NONE")
  BY StateChange
<1>1. TypeOK'
  BY <1>0 DEF IInv, TypeOK, GrantExclusive
<1>2. Exclusion'
  BY DEF IInv, TypeOK, GrantExclusive, Exclusion
<1>3. LockBookkeeping'
  BY <1>0, NoTxnAssumption DEF IInv, TypeOK, GrantExclusive, LockBookkeeping
<1>4. NoOrphanLocks'
  BY <1>0 DEF IInv, TypeOK, GrantExclusive, NoOrphanLocks
<1> QED
  BY <1>1, <1>2, <1>3, <1>4 DEF IInv

\* A refused or redundant request changes no lock, and at most the state of a
\* transaction that goes on existing.
LEMMA KeepLocksInv ==
  ASSUME NEW t \in Txn, IInv, Active(t), KeepLocks,
         UNCHANGED txn_state \/ Refuse(t)
  PROVE  IInv'
<1>0. /\ txn_state' \in [Txn -> TxnState]
      /\ \A u \in Txn : (txn_state[u] # "NONE") <=> (txn_state'[u] # "NONE")
  BY StateChange
<1>1. TypeOK'
  BY <1>0 DEF IInv, TypeOK, KeepLocks, tables, lock_sets
<1>2. Exclusion'
  BY DEF IInv, Exclusion, KeepLocks, tables
<1>3. LockBookkeeping' /\ NoOrphanLocks'
  BY <1>0 DEF IInv, LockBookkeeping, NoOrphanLocks, KeepLocks, tables, lock_sets
<1> QED
  BY <1>1, <1>2, <1>3 DEF IInv

-----------------------------------------------------------------------------
LEMMA BeginInv == ASSUME NEW t \in Txn, IInv, Begin(t) PROVE IInv'
<1>1. TypeOK'
  BY DEF IInv, TypeOK, Begin, TxnState, KeepLocks, tables, lock_sets
<1>2. Exclusion'
  BY DEF IInv, Exclusion, Begin, KeepLocks, tables
<1>3. LockBookkeeping'
  BY DEF IInv, LockBookkeeping, Begin, KeepLocks, tables, lock_sets
<1>4. NoOrphanLocks'
  BY DEF IInv, TypeOK, NoOrphanLocks, Begin, KeepLocks, tables
<1> QED
  BY <1>1, <1>2, <1>3, <1>4 DEF IInv

LEMMA LockForReadInv ==
  ASSUME NEW t \in Txn, NEW r \in Rid, IInv, LockForRead(t, r) PROVE IInv'
<1>1. CASE KeepLocks /\ (UNCHANGED txn_state \/ Refuse(t))
  BY <1>1, KeepLocksInv DEF LockForRead
<1>2. CASE /\ exclusive_lock_table[r] = NoTxn
           /\ GrantShared(t, r) /\ (UNCHANGED txn_state \/ Refuse(t))
  BY <1>2, GrantSharedInv DEF LockForRead
<1> QED
  BY <1>1, <1>2 DEF LockForRead, AcquireForRead, Outcome, LockShared

LEMMA LockForWriteInv ==
  ASSUME NEW t \in Txn, NEW r \in Rid, IInv, LockForWrite(t, r) PROVE IInv'
<1>1. CASE KeepLocks /\ (UNCHANGED txn_state \/ Refuse(t))
  BY <1>1, KeepLocksInv DEF LockForWrite
<1>2. CASE /\ exclusive_lock_table[r] = NoTxn
           /\ shared_lock_table[r] \subseteq {t}
           /\ GrantExclusive(t, r) /\ (UNCHANGED txn_state \/ Refuse(t))
  BY <1>2, GrantExclusiveInv DEF LockForWrite
\* The upgrade: the one holder is the caller, because its object says so.
<1>3. ASSUME IsSharedLocked(t, r), NEW u \in Txn, shared_lock_table[r] = {u}
      PROVE  shared_lock_table[r] \subseteq {t}
  BY <1>3 DEF IInv, LockBookkeeping, LockForWrite
<1> QED
  BY <1>1, <1>2, <1>3 DEF LockForWrite, AcquireForWrite, Outcome, LockUpgrade, LockExclusive

LEMMA LockForInsertInv ==
  ASSUME NEW t \in Txn, NEW r \in Rid, IInv, LockForInsert(t, r) PROVE IInv'
<1>1. CASE KeepLocks
  BY <1>1, KeepLocksInv DEF LockForInsert
<1>2. CASE /\ exclusive_lock_table[r] = NoTxn
           /\ shared_lock_table[r] \subseteq {t}
           /\ GrantExclusive(t, r)
  BY <1>2, GrantExclusiveInv DEF LockForInsert
<1> QED
  BY <1>1, <1>2 DEF LockForInsert, LockExclusive

LEMMA ReleaseLocksInv == ASSUME NEW t \in Txn, IInv, ReleaseLocks(t) PROVE IInv'
<1>1. TypeOK'
  BY DEF IInv, TypeOK, ReleaseLocks, Unlock, Drop, TxnState
<1>2. Exclusion'
  BY DEF IInv, TypeOK, Exclusion, ReleaseLocks, Unlock
<1>3. LockBookkeeping'
  BY NoTxnAssumption DEF IInv, TypeOK, LockBookkeeping, ReleaseLocks, Unlock, Drop
<1>4. NoOrphanLocks'
  BY NoTxnAssumption DEF IInv, TypeOK, LockBookkeeping, NoOrphanLocks, ReleaseLocks, Unlock, Drop
<1> QED
  BY <1>1, <1>2, <1>3, <1>4 DEF IInv

LEMMA InitInv == Init => IInv
BY NoTxnAssumption DEF Init, IInv, TypeOK, TxnState, Exclusion, LockBookkeeping, NoOrphanLocks

LEMMA NextInv == IInv /\ [Next]_vars => IInv'
<1> SUFFICES ASSUME IInv, [Next]_vars PROVE IInv'
  OBVIOUS
<1>1. ASSUME NEW t \in Txn, Begin(t) PROVE IInv'
  BY <1>1, BeginInv
<1>2. ASSUME NEW t \in Txn, SetAborted(t) PROVE IInv'
  BY <1>2, KeepLocksInv DEF SetAborted
<1>3. ASSUME NEW t \in Txn, ReleaseLocks(t) PROVE IInv'
  BY <1>3, ReleaseLocksInv
<1>4. ASSUME NEW t \in Txn, NEW r \in Rid, LockForRead(t, r) PROVE IInv'
  BY <1>4, LockForReadInv
<1>5. ASSUME NEW t \in Txn, NEW r \in Rid, LockForWrite(t, r) PROVE IInv'
  BY <1>5, LockForWriteInv
<1>6. ASSUME NEW t \in Txn, NEW r \in Rid, LockForInsert(t, r) PROVE IInv'
  BY <1>6, LockForInsertInv
<1>7. CASE UNCHANGED vars
  BY <1>7 DEF vars, tables, lock_sets, IInv, TypeOK, Exclusion, LockBookkeeping, NoOrphanLocks
<1> QED
  BY <1>1, <1>2, <1>3, <1>4, <1>5, <1>6, <1>7 DEF Next

\* The inductive invariant holds throughout.
THEOREM Invariance == Spec => []IInv
BY InitInv, NextInv, PTL DEF Spec

-----------------------------------------------------------------------------
\* The tables and lock sets are well typed in every reachable state.
THEOREM TypeCorrect == Spec => []TypeOK
BY Invariance, PTL DEF IInv

\* An exclusively locked tuple is locked by nobody else (LockExclusive,
\* LockUpgrade and LockShared, under any interleaving of transactions).
THEOREM ExclusionHolds == Spec => []Exclusion
BY Invariance, PTL DEF IInv

\* A live transaction's lock sets are what the tables grant it.
THEOREM BookkeepingHolds == Spec => []LockBookkeeping
BY Invariance, PTL DEF IInv

\* releaseLocks leaves no entry of its transaction in either table.
THEOREM NoOrphanLocksHolds == Spec => []NoOrphanLocks
BY Invariance, PTL DEF IInv

-----------------------------------------------------------------------------
\* One step of the lock manager takes no lock from a transaction that goes on.
LEMMA NextKeepsHeldLocks ==
  IInv /\ [Next]_vars =>
    [\A t \in Txn, r \in Rid : Active(t) /\ Active(t)' =>
       /\ t \in shared_lock_table[r] => t \in shared_lock_table'[r]
       /\ exclusive_lock_table[r] = t => exclusive_lock_table'[r] = t]_vars
<1> SUFFICES ASSUME IInv, Next, NEW u \in Txn, NEW q \in Rid, Active(u), Active(u)'
             PROVE  /\ u \in shared_lock_table[q] => u \in shared_lock_table'[q]
                    /\ exclusive_lock_table[q] = u => exclusive_lock_table'[q] = u
  OBVIOUS
<1>1. CASE UNCHANGED tables
  BY <1>1 DEF tables
<1>2. ASSUME NEW t \in Txn, NEW r \in Rid, GrantShared(t, r)
      PROVE  /\ u \in shared_lock_table[q] => u \in shared_lock_table'[q]
             /\ exclusive_lock_table[q] = u => exclusive_lock_table'[q] = u
  BY <1>2 DEF GrantShared, IInv, TypeOK
<1>3. ASSUME NEW t \in Txn, NEW r \in Rid, GrantExclusive(t, r), exclusive_lock_table[r] = NoTxn
      PROVE  /\ u \in shared_lock_table[q] => u \in shared_lock_table'[q]
             /\ exclusive_lock_table[q] = u => exclusive_lock_table'[q] = u
  BY <1>3, NoTxnAssumption DEF GrantExclusive, IInv, TypeOK
<1>4. ASSUME NEW t \in Txn, ReleaseLocks(t)
      PROVE  /\ u \in shared_lock_table[q] => u \in shared_lock_table'[q]
             /\ exclusive_lock_table[q] = u => exclusive_lock_table'[q] = u
  BY <1>4 DEF ReleaseLocks, Unlock, Drop, IInv, TypeOK
<1>5. ASSUME NEW t \in Txn, NEW r \in Rid, LockForRead(t, r)
      PROVE  UNCHANGED tables \/ GrantShared(t, r)
  BY <1>5 DEF LockForRead, AcquireForRead, LockShared, KeepLocks
<1>6. ASSUME NEW t \in Txn, NEW r \in Rid, LockForWrite(t, r) \/ LockForInsert(t, r)
      PROVE  UNCHANGED tables \/ (GrantExclusive(t, r) /\ exclusive_lock_table[r] = NoTxn)
  BY <1>6 DEF LockForWrite, AcquireForWrite, LockForInsert, LockExclusive, LockUpgrade, KeepLocks
<1>7. ASSUME NEW t \in Txn, Begin(t) \/ SetAborted(t)
      PROVE  UNCHANGED tables
  BY <1>7 DEF Begin, SetAborted, KeepLocks
<1> QED
  BY <1>1, <1>2, <1>3, <1>4, <1>5, <1>6, <1>7 DEF Next

\* Strong strict two-phase locking, for every number of transactions.
THEOREM StrictTwoPhaseHolds == Spec => StrictTwoPhase
BY Invariance, NextKeepsHeldLocks, PTL DEF Spec, StrictTwoPhase

=============================================================================
