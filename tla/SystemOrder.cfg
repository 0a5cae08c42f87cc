SPECIFICATION Spec
CONSTANTS
  MaxSlot = 2
  MAX_PLAUSIBLE_SLOT = 2
  MAX_SLOT_JUMP_FORWARD = 2
  MAX_BOOTSTRAP_SLOT = 2
  BLACKLIST_EXTRA_SLOTS = 0
  COMPLETED_RETENTION_SLOTS = 0
  max_age = 1
  enable_fec = TRUE
  disable_salvage_delivery = FALSE
  Buffers = {b1, b2}
  MaxPending = 1
  LastIdx = 3
  Boundary = {0, 2}
  BatchEnds = {0, 2, 3}
  Txs <- ThreeTxs
  EndsIn <- ThreeEndsIn
  Garbled = {}
  ZeroCounts = {}
  ZeroTails = {}
  FecIds <- TwoSets
  NumData <- PairsOfData
  NumCoding <- OneCoding
  Unbuildable = {}
  MaxFecSets = 2
  StuckTimeout = 1
  MaxTime = 1
  Focus = 0
  MaxOpen = 2
INVARIANT
  SystemInv
PROPERTIES
  ReceivedInOrder
  TotalsCountOnce
  ImplementsListener
SYMMETRY Symmetry
