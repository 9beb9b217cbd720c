SPECIFICATION Spec
CONSTANTS
  Nodes = {n1, n2}
  Tap = tap
  PoolSize = 9
  Slots = 2
  MaxKept = 1
SYMMETRY NodeSymmetry
INVARIANTS
  TypeOK
  BufferConservation
  DrainedOrFlooded
PROPERTIES
  DictionaryKept
  CodecContract
CHECK_DEADLOCK FALSE
