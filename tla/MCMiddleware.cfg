CONSTANTS
  r1 = r1
  r2 = r2
  Requests <- MCRequests
  MaxLayers = 2
  MaxServices = 3
SPECIFICATION Spec
SYMMETRY MCSymmetry
INVARIANTS
  OnionOrder
  HandlerInOnePlace
  SecondBuildThrows
\* All requests may have ended.
CHECK_DEADLOCK FALSE
