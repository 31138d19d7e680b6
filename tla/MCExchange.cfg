CONSTANTS
  Capacity = 2
  ClientCapacity = 1
  NoMsg = 0
  MaxChunks = 6
  EmptyChunks <- MCEmptyChunks
  Whole <- MCWhole
SPECIFICATION ExchangeSpec
INVARIANTS
  EndToEndOrder
  CleanEndComplete
  IInv
  WireIsPrefix
  NoMutualWait
  LossOnlyAtClose
  OkMeansAllWritten
PROPERTIES
  ChunkReachesConsumer
  EndReachesConsumer
  RefinesPromise
\* Nothing is left to do after the end of the stream, or while the producer
\* that nobody spawned is waited for.
CHECK_DEADLOCK FALSE
