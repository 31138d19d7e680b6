CONSTANTS
  Peer = "library"
  Events <- MCLibraryEvents
  Numerals <- MCNumerals
  Words <- MCWords
  MaxEvents = 2
SPECIFICATION Spec
INVARIANT
  DrainedMeansRead
CHECK_DEADLOCK FALSE
