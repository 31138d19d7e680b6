CONSTANT MaxCalls <- MCMaxCalls
SPECIFICATION Spec
INVARIANTS
  FramingTruthful
  CloseHonoured
\* A response that is written is not changed.
CHECK_DEADLOCK FALSE
