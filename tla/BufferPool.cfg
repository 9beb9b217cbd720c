SPECIFICATION Spec
CONSTANTS
  Buffers = {b1, b2, b3}
  Waiters = {encoder}
  Methods = {"wait", "wait_for", "wait_for(0)"}
INVARIANTS
  OneOwner
  NoLostWakeup
  TrueIfBuffers
