SPECIFICATION Spec
CONSTANTS
  Threads = {t1, t2}
  Keys = {1, 2, 3, 4, 5}
  Vals = {0, 1}
  Absent = Absent
  NoCall = NoCall
  Ranges <- MCRanges
  InfMin = 0
  InfMax = 9
  MaxLevel = 2
  Capacity = 3
  Varchar = TRUE
  Loaded <- MCLoaded
  MaxNode = 6
  NewVals = {1}
  MaxCalls = 3
INVARIANTS
  TypeOK
  ListWellFormed
  ValidatedNodesAreLinked
PROPERTIES
  ImplementsMap
  EveryCallReturns
CHECK_DEADLOCK FALSE
