SPECIFICATION Spec
CONSTANTS
  Nodes = {1, 2, 3}
  MACs = {"a", "b"}
  Peers <- MC_Mesh
  Home <- MC_Home
  ExpireTime = 0
  Period = 1
  PoolSize = 2
  MaxFrames = 2
  MaxEvents = 1
INVARIANTS
  TypeOK
  SplitHorizon
  LearnedPlace
  GroupDelivered
  TalkersKnown
  SilentForgotten
CHECK_DEADLOCK FALSE
