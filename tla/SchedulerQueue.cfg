SPECIFICATION FairSpec
CONSTANTS
  r1 = r1
  r2 = r2
  r3 = r3
  w1 = w1
  w2 = w2
  s1 = s1
  s2 = s2
  Requests = {r1, r2, r3}
  Workers = {w1}
  Stoppers = {}
  QueueSize = 2
  QueueBytes = 3
  Weight <- MCWeight
  WorkResults = {"ok"}
  None = None
INVARIANTS QueueBounded
PROPERTIES QueueWaitEnds
