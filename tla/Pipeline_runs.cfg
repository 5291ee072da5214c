CONSTANTS
  Runs = {r1, r2}
  Batches = {b1, b2}
  Recent = {b2}
  Scripts = {"daily", "bootstrap", "initial"}
  MaxRetries = 2
  MaxFaults = 2
  Nothing = Nothing
SPECIFICATION FairSpec
CHECK_DEADLOCK FALSE
INVARIANTS
  AbortsForAReason
PROPERTIES
  FailFast
  DoneMeansServed
  EveryPipelineEnds
