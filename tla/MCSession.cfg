CONSTANTS
  c1 = c1
  c2 = c2
  Conn <- MCConn
  MaxRequests <- MCMaxRequests
  MaxAcceptErrors = 1
SPECIFICATION FairSpec
INVARIANTS
  IInv
  PipelineInOrder
  UnansweredOnlyIf
PROPERTIES
  RefinesPipeline
  
  WaitingIsAccepted
\* A closed session, and a listener that failed, take no further step.
CHECK_DEADLOCK FALSE
