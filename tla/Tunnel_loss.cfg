SPECIFICATION Spec
CONSTANTS
  L2MTU = 3022
  L4MTU = 1452
  BufferSize = 3400
  SeqMax = 50
  PacketFormat = "LZ4"
  CompressedSizes = {300, 3000}
  PoolSize = 5
  FrameSizes = {3022}
  MaxFrames = 3
  MaxWire = 2
  Faults = {"lose", "duplicate", "reorder"}
  MaxFaults = 2
INVARIANTS
  DamageContained
PROPERTIES
  TransportSpec
CHECK_DEADLOCK FALSE
