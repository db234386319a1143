SPECIFICATION CliFairSpec
CONSTANTS
  r1 = r1
  r2 = r2
  n1 = n1
  n2 = n2
  t1 = t1
  t2 = t2
  a1 = a1
  a2 = a2
  Names = {n1, n2}
  Entries = {t1, t2, a1, a2}
  Tables = {t1, t2}
  Owner <- MCOwner
  Bases <- MCBases
  CommandLines <- MCCommandLines
  Requests = {r1, r2}
  Sorted <- MCSorted
  Serves <- MCServes
  HandlerLimit = 2
  BodyReaderLimit = 1
  MaxRevisions = 1
INVARIANTS OutcomeIsTrue RootOutlivesUsers AllGivenBack RequestsSettled DiagnosisHolds
PROPERTIES CommitsOnlyTheAgreed ServesWhatItRead ServeEnds
CHECK_DEADLOCK FALSE
