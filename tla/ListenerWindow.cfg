SPECIFICATION FairSpec
CONSTANTS
  MaxSlot = 4
  MAX_PLAUSIBLE_SLOT = 3
  MAX_SLOT_JUMP_FORWARD = 2
  MAX_BOOTSTRAP_SLOT = 2
  BLACKLIST_EXTRA_SLOTS = 1
  COMPLETED_RETENTION_SLOTS = 0
  max_age = 1
  Buffers = {b1, b2}
  enable_fec = TRUE
  disable_salvage_delivery = FALSE
  MaxPending = 1
INVARIANTS
  TypeOK
  BuffersConserved
  IInv
PROPERTIES
  ClosedStaysClosed
  RetentionKept
  WindowKept
  PoolRecovers
  TailsDelivered
