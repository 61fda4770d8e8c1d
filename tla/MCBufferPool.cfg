CONSTANTS
  Thread = {t1, t2}
  NumFrames = 2
  MaxPageId = 3
  Value = {zero, a}
  Zero = zero
  Unwritten = Unwritten
  Changing = {1}
  Races = {}
  MaxLost = 1
SYMMETRY Symmetry
SPECIFICATION Spec
INVARIANTS
  TypeOK
  PoolConsistent
  NobodyWaitsInside
  LivePagesReadable
PROPERTY
  PagesKeepContents
\* With all page ids given back or handed out, nobody may have anything to do.
CHECK_DEADLOCK FALSE
