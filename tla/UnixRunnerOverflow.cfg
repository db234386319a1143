SPECIFICATION Spec
CONSTANTS
  k1 = k1
  Kids = {}
  Streams = {"stdout"}
  Limit = 1
  MaxWritten = 2
INVARIANT OverflowIsReported
CHECK_DEADLOCK FALSE
