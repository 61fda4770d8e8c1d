CONSTANTS
  Threads = {t1, t2}
  Pages = {p1, p2}
  NoPage = NoPage
  Nobody = Nobody
  LogBufferSize = 5
  HEADER_SIZE = 2
  BodySize = 3
  MaxRecords = 4
SYMMETRY Symmetry
SPECIFICATION Spec
INVARIANTS
  TypeOK
  LogCanBeReplayed
PROPERTIES
  OverrunNeedsOthers
  FlushedIsDurable
