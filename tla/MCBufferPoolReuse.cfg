CONSTANTS
  Thread = {t1, t2}
  NumFrames = 3
  MaxPageId = 3
  Value = {zero, a}
  Zero = zero
  Unwritten = Unwritten
  Changing = {}
  Races = {"reuse"}
  MaxLost = 0
SYMMETRY Symmetry
SPECIFICATION Spec
INVARIANTS
  UnpinFindsPage
CHECK_DEADLOCK FALSE
