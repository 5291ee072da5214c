CONSTANTS
  Files <- MCFiles
  Parts = {p1, p2}
  MinInteractions = 1
  TopK = 1
  MinRowCount = 1
  WindowDays = 0
  MaxRetries = 1
  MaxRuns = 2
  MaxDay = 1
SPECIFICATION FairSpec
CHECK_DEADLOCK FALSE
INVARIANTS
  SuccessIsFresh
  PublicationOrder
PROPERTIES
  ImplementsCuratedZone
  PublicationIsGated
  EveryRunEnds
