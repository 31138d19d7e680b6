CONSTANT MaxPieces <- MCMaxPieces
SPECIFICATION FairSpec
INVARIANTS
  BodyWhole
  BodyOnce
PROPERTIES
  ReadEnds
