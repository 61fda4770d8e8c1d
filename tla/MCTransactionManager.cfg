CONSTANTS
  Txn = {t1, t2}
  NoTxn = NoTxn
  Value = {"small", "big"}
  Size <- MCSize
  NoTuple = "NoTuple"
  Unknown = "Unknown"
  PageCapacity = 4
  SlotCost = 1
  MaxPages = 2
  MaxSlots = 2
  MaxWrites = 2
  MaxReads = 1
SYMMETRY Symmetry
SPECIFICATION Spec
INVARIANTS
  TypeOK
  HalfDoneWorkCanFinish
  SpaceNeverNegative
PROPERTIES
  ImplementsStore
  FollowsLockProtocol
