CONSTANTS
  Txn = {t1, t2}
  NoTxn = NoTxn
  p1 = p1
  Page <- Pages
  NumSlots <- Slots
  Value = {a, b}
  NoTuple = NoTuple
  MaxLSN = 4
  MaxCrashes = 1
  CrashPhases = {"up", "checkpoint"}
  MayDelete = TRUE
  MayAbort = TRUE
SYMMETRY Symmetry
SPECIFICATION Spec
INVARIANTS
  TypeOK
  RecoveryIsExact
  WriteAhead
  RestartNeverPanics
CHECK_DEADLOCK FALSE
