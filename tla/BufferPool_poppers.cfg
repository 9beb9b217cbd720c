SPECIFICATION Spec
CONSTANTS
  Buffers = {b1, b2, b3}
  Waiters = {tap, encoder}
  Methods = {"pop_wait"}
INVARIANTS
  PopGetsBuffer
