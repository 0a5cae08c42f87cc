SPECIFICATION Spec
CONSTANT
  Packets <- AllPackets
INVARIANTS
  PayloadInPacket
  RebuiltAlike
  CodeShardWhole
CHECK_DEADLOCK FALSE
