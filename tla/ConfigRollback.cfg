SPECIFICATION Spec
CONSTANTS
  w1 = w1
  w2 = w2
  Writers = {w1}
  MaxCrashes = 0
  MaxEdits = 0
  None = None
INVARIANTS ConfigSurvives
CHECK_DEADLOCK FALSE
