SPECIFICATION Spec
CONSTANTS
  LastIdx = 6
  Boundary <- TimeoutBoundary
  BatchEnds <- TimeoutEnds
  Txs <- PlainTxs
  EndsIn <- PlainEndsIn
  Garbled = {}
  ZeroCounts = {}
  ZeroTails = {}
  FecIds <- OneSet
  NumData <- SevenData
  NumCoding <- OneSetCoding
  Unbuildable = {}
  MaxFecSets = 2
  StuckTimeout = 2
  MaxTime = 3
INVARIANT
  NoBatchWaits
PROPERTIES
  CompleteBatchDelivered
  NoOverdueBatch
CHECK_DEADLOCK FALSE
