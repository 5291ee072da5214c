CONSTANTS
  Loaders = {l1, l2}
  Students = {u1, u2}
  MaxVersion = 2
  MaxLoads = 3
SPECIFICATION Spec
SYMMETRY Symmetry
CHECK_DEADLOCK FALSE
INVARIANTS
  TableIsOnePublication
PROPERTIES
  DoneMeansLoaded
