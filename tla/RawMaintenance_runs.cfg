SPECIFICATION Spec
CONSTANTS
  d0 = d0
  d1 = d1
  undated = undated
  content = content
  Targets <- MCTargets
  Pieces <- MCPieces
  TargetOf <- MCTargetOf
  Partitioned <- MCPartitioned
  DateOf <- MCDateOf
  RetentionDays = 1
  MaxDay = 3
  MaxBatches = 2
  MaxJobs = 2
  MaxRounds = 2
CHECK_DEADLOCK FALSE
INVARIANTS
  RowsAreKept
  NothingIsDuplicated
  ExpiredAreRemoved
