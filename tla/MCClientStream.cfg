CONSTANTS
  Capacity = 2
  NoMsg <- MCNoMsg
  MaxUnits = 6
  Whole <- MCWhole
SPECIFICATION FairSpec
INVARIANTS
  IInv
  ChunksInOrder
  PlainEventsComplete
  EventsWhole
PROPERTIES
  ConsumerDrains
\* A consumer that has ended takes no further step.
CHECK_DEADLOCK FALSE
