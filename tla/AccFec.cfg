SPECIFICATION FairSpec
CONSTANTS
  LastIdx = 5
  Boundary <- PlainBoundary
  BatchEnds <- PlainEnds
  Txs <- AlignedTxs
  EndsIn <- AlignedEndsIn
  Garbled = {}
  ZeroCounts = {}
  ZeroTails = {}
  FecIds <- AlignedSets
  NumData <- AlignedData
  NumCoding <- AlignedCoding
  Unbuildable = {}
  MaxFecSets = 2
  StuckTimeout = 1
  MaxTime = 1
INVARIANTS
  TypeOK
  IInv
PROPERTIES
  CallsReturn
  LostByStaleChoiceOnly
CHECK_DEADLOCK FALSE
