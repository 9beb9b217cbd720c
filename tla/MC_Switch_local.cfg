SPECIFICATION Spec
CONSTANTS
  Nodes = {1, 2}
  MACs = {"a", "b"}
  Peers <- MC_Mesh
  Home <- MC_Together
  ExpireTime = 0
  Period = 1
  PoolSize = 2
  MaxFrames = 3
  MaxEvents = 0
INVARIANTS
  LocalIgnored
CHECK_DEADLOCK FALSE
