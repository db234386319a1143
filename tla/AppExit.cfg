SPECIFICATION CliFairSpec
CONSTANTS
  r1 = r1
  r2 = r2
  n1 = n1
  n2 = n2
  t1 = t1
  t2 = t2
  a1 = a1
  a2 = a2
  Names = {n1, n2}
  Entries = {t1, t2, a1, a2}
  Tables = {t1, t2}
  Owner <- MCOwner
  Bases <- MCBases
  CommandLines <- MCNoCommandLines
  Requests = {r1}
  Sorted <- MCOne
  Serves <- MCServes
  HandlerLimit = 1
  BodyReaderLimit = 1
  MaxRevisions = 0
INVARIANT CleanupFailureShows
CHECK_DEADLOCK FALSE
