SPECIFICATION Spec
CONSTANTS
  w1 = w1
  w2 = w2
  Writers = {w1, w2}
  MaxCrashes = 1
  MaxEdits = 1
  None = None
SYMMETRY Symmetry
INVARIANTS ReportIsTrue KeyBeforeConfig
PROPERTIES ReplacesItsBase
CHECK_DEADLOCK FALSE
