SPECIFICATION Spec
CONSTANTS
  L2MTU = 9022
  L4MTU = 1452
  BufferSize = 9924
  SeqMax = 9
  PacketFormat = "NONE"
  CompressedSizes = {}
  PoolSize = 12
  FrameSizes = {9000, 1522}
  MaxFrames = 3
  MaxWire = 3
  Faults = {"lose"}
  MaxFaults = 2
INVARIANTS
  Integrity
CHECK_DEADLOCK FALSE
