CONSTANTS
  Runs = {r1}
  Batches = {b1}
  Recent = {b1}
  Scripts = {"initial"}
  MaxRetries = 2
  MaxFaults = 1
  Nothing = Nothing
SPECIFICATION Spec
CHECK_DEADLOCK FALSE
INVARIANTS
  InitialLoadWorks
