CONSTANTS
  Txn = {t1, t2}
  NoTxn = NoTxn
  Value = {"a1", "b1", "b2"}
  Size <- MCSize
  Key <- MCKey
  NoTuple = "NoTuple"
  Unknown = "Unknown"
  PageCapacity = 5
  SlotCost = 1
  MaxPages = 2
  MaxSlots = 1
  MaxWrites = 2
  MaxReads = 4
SYMMETRY Symmetry
SPECIFICATION TableSpec
INVARIANTS
  TableTypeOK
  IndexAgreesWithHeap
  ScanIsExact
