CONSTANTS
  Pairs = {p1, p2}
  Dates = {d1, d2}
  Scores = {s1, s2}
  NoDate = NoDate
  NoScore = NoScore
  BatchSize = 2
  MaxRows = 3
  MaxLoads = 2
  MaxFaults = 1
SPECIFICATION Spec
CHECK_DEADLOCK FALSE
PROPERTIES
  ImplementsServingTable
  CapHolds
