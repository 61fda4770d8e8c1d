SPECIFICATION Spec
CONSTANTS
  MaxInt = 7
  InfMaxString = 8
  InfMinString = 9
  Columns <- ColumnsDef
  Database <- DatabaseDef
  TupleSize = 10
  TmpPageSize = 50
  TmpHeader = 20
  UInt32 = 1024
  HashSpread = 2
  Queries <- QueriesDef
INVARIANTS TypeOK NoRowLost ExactForRanges AggregationExact TopRowsInWindow
CHECK_DEADLOCK FALSE
