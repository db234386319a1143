SPECIFICATION FairSpec
CONSTANTS
  k1 = k1
  Kids = {k1}
  Streams = {"stdout", "stderr"}
  Limit = 0
  MaxWritten = 1
INVARIANTS NoForeignSignal ContainedOnReturn
PROPERTIES Returns ExitedIsReaped
CHECK_DEADLOCK FALSE
