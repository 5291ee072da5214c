CONSTANTS
  Rows <- MCRows
  Columns <- MCColumns
  Schemas <- MCSchemas
  RequiredColumns <- MCRequired
  PIIColumns = {"email"}
  PiiStrict = TRUE
  NullNum = 1
  NullDen = 2
  MaxRetries = 1
  MaxRuns = 2
SPECIFICATION Spec
CHECK_DEADLOCK FALSE
INVARIANTS
  InitialLoadIsExact
  DailyAppendsPerAttempt
  SkippedDataIsUntouched
  RawZoneIsPrivate
  LineageIsTruthful
