CONSTANTS
  r1 = r1
  r2 = r2
  Requests <- MCRequests
  MaxLayers = 2
  MaxServices = 1
SPECIFICATION Spec
SYMMETRY MCSymmetry
INVARIANT
  MatchesDescribePath
CHECK_DEADLOCK FALSE
