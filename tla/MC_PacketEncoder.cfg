SPECIFICATION FairSpec
CONSTANTS
  L2MTU = 3022
  L4MTU = 1452
  BufferSize = 3324
  SeqMax = 3
  PacketFormat = "LZ4"
  CompressedSizes = {353, 1428, 1789}
  PoolSize = 6
  Frames <- MC_Frames
INVARIANTS
  TypeOK
  PacketsFit
  RoomForPart
  SequenceContinuous
  NothingStranded
  DictionaryInFlight
  BufferConservation
PROPERTIES
  CallsReturn
  BufferUse
CHECK_DEADLOCK FALSE
