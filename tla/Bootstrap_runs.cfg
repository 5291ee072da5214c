SPECIFICATION FairSpec
CONSTANTS
  Eager = FALSE
  Deliveries = {{}, {"content"}, {"kt4", "content"}}
  MaxRuns = 2
  MaxFaults = 1
INVARIANTS
  TypeOK
  
  JobsFindTheCluster
PROPERTIES
  OnlyTheLateAreGivenUp
  BootstrapEnds
CHECK_DEADLOCK FALSE
