SPECIFICATION FairSpec
CONSTANTS
  k1 = k1
  out = out
  Kids = {k1}
  Streams = {out}
  Limit = 1
  MaxWritten = 2
INVARIANTS NothingLost OverflowIsReported
PROPERTY EndsForGood
CHECK_DEADLOCK FALSE
