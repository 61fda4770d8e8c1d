CONSTANTS
  Txn = {t1, t2, t3}
  Rid = {r1, r2}
  NoTxn = NoTxn
SYMMETRY Symmetry
SPECIFICATION Spec
INVARIANTS
  Exclusion
  LockBookkeeping
  NoOrphanLocks
PROPERTY
  StrictTwoPhase
