SPECIFICATION FairSpec
CONSTANTS
  Nodes = 1
INVARIANTS
  TypeOK
PROPERTIES
  NothingForgotten
  ExitsLast
CHECK_DEADLOCK FALSE
