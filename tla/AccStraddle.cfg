SPECIFICATION Spec
CONSTANTS
  LastIdx = 5
  Boundary <- StraddleBoundary
  BatchEnds <- StraddleEnds
  Txs <- StraddleTxs
  EndsIn <- StraddleEndsIn
  Garbled = {0}
  ZeroCounts = {}
  ZeroTails = {}
  FecIds <- StraddleSets
  NumData <- StraddleData
  NumCoding <- StraddleCoding
  Unbuildable = {3}
  MaxFecSets = 2
  StuckTimeout = 1
  MaxTime = 1
INVARIANTS
  DecoderInStep
  NoRecoverableGap
  HarvestRecoversAll
  RecoveryInv
PROPERTIES
  ImplementsOrderedDelivery
CHECK_DEADLOCK FALSE
