CONSTANTS
  Txn = {t1, t2}
  NoTxn = NoTxn
  p1 = p1
  Page <- Pages
  NumSlots <- Slots
  Value = {a, b}
  NoTuple = NoTuple
  MaxLSN = 6
  MaxCrashes = 1
  CrashPhases = {"up"}
  MayDelete = FALSE
  MayAbort = TRUE
SYMMETRY Symmetry
SPECIFICATION Spec
INVARIANTS
  RecoveredStateIsCommitted
CHECK_DEADLOCK FALSE
