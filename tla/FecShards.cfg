SPECIFICATION Spec
CONSTANTS
  Size <- SetSizes
  DataShreds <- AllDataShreds
  CodingShreds <- AllCodingShreds
  MAX_SHARDS = 4
  CACHE_CAPACITY = 2
INVARIANTS
  MissingReturned
  CodecsDistinct
PROPERTIES
  LastUsedStays
CHECK_DEADLOCK FALSE
