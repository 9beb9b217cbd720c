SPECIFICATION FairSpec
CONSTANTS
  L2MTU = 1522
  L4MTU = 1452
  BufferSize = 3400
  SeqMax = 5
  PacketFormat = "LZ4"
  CompressedSizes = {300, 1500}
  PoolSize = 12
  FrameSizes = {1522}
  MaxFrames = 3
  MaxWire = 8
  Faults = {"restart"}
  MaxFaults = 1
PROPERTIES
  TransportSpec
  AllDelivered
CHECK_DEADLOCK FALSE
