SPECIFICATION LosslessSpec
CONSTANTS
  LastIdx = 5
  Boundary <- ShortBoundary
  BatchEnds <- ShortEnds
  Txs <- AlignedTxs
  EndsIn <- AlignedEndsIn
  Garbled = {4}
  ZeroCounts = {4}
  ZeroTails = {}
  FecIds <- OneSet
  NumData <- ShortData
  NumCoding <- OneSetCoding
  Unbuildable = {}
  MaxFecSets = 2
  StuckTimeout = 1
  MaxTime = 1
PROPERTIES
  StreamingCountHonest
  EveryBatchDelivered
CHECK_DEADLOCK FALSE
