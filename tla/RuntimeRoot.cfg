SPECIFICATION Spec
CONSTANTS
  i1 = i1
  c1 = c1
  c2 = c2
  Ids = {i1}
  Cleaners = {c1, c2}
  MaxGen = 2
  MaxRestarts = 1
INVARIANTS LiveKept CleanedIsGone HandlesFound LeftoversReclaimed NoLockCycle
