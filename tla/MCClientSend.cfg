CONSTANTS
  Limits <- MCLimits
SPECIFICATION FairSpec
INVARIANTS
  TypeOK
  ConnectionsBounded
  OnlyCurrentIsTimed
PROPERTIES
  SendReturns
\* A call that has returned takes no further step.
CHECK_DEADLOCK FALSE
