SPECIFICATION Spec
CONSTANTS
  Slots <- AllSlots
  PrefixLen = 2
  MinEntry = 3
  MAX_ENTRY_COUNT = 3
INVARIANTS
  DecoderInv
  PushYields
  BatchReadsWhole
  ConcatReadsFront
CHECK_DEADLOCK FALSE
