SPECIFICATION FairSpec
CONSTANTS
  L2MTU = 1522
  L4MTU = 1452
  BufferSize = 1674
  SeqMax = 3
  PoolSize = 6
  Packets <- MC_Packets
INVARIANTS
  TypeOK
  Housekeeping
  BufferConservation
PROPERTIES
  CallsReturn
  BufferUse
