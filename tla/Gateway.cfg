SPECIFICATION FairSpec
CONSTANTS
  r1 = r1
  r2 = r2
  p1 = p1
  p2 = p2
  Requests = {r1, r2}
  Providers = {p1, p2}
  Serves <- ServesModel
  Width = 1
  InputBytes = 8
  InstructionsBytes = 8
  SchemaBytes = 8
  FinalBytes = 8
  FormatNames = {"name"}
  AliasNames = {"alias"}
  Versions = {"1.2.3"}
  Served <- ServedModel
  Bytes <- Symbols
  Newline = "nl"
  Digits = {"0", "1"}
  Decimal <- Binary
  MaxPrompt = 20
  MaxVersionOutput = 12
  MaxComponent = 4
  MaxUint = 255
  Fractions = {"401.0"}
  Nul = "nul"
  Absolute = {"/"}
INVARIANTS CleanupFailureDegrades DrainedAfterShutdown StopsAreHonest
PROPERTIES NoLeaseOnDegraded AllAnswered
CHECK_DEADLOCK FALSE
