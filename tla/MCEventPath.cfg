CONSTANTS
  Peer = "lines"
  Events <- MCEvents
  Numerals <- MCNumerals
  Words <- MCWords
  MaxEvents = 3
SPECIFICATION Spec
INVARIANTS
  ChunkedEventsExact
  PlainEventsExact
  StuckOnlyByRest
  DrainedMeansRead
\* The server may stop sending.
CHECK_DEADLOCK FALSE
