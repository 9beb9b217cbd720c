SPECIFICATION Spec
CONSTANTS
  Hosts <- MCHosts
  CommandLines <- MCCommandLines
  ConfFiles <- MCConfFiles
INVARIANTS
  TypeOK
  CodecSized
  PathRespected
  PeersRecognised
  PoolsSuffice
CHECK_DEADLOCK FALSE
