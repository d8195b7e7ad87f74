SPECIFICATION Spec
CONSTANTS
  DEFAULT_TX_DESCRIPTORS = 4
  Buffers = {b1, b2, b3, b4}
  b1 = b1
  b2 = b2
  b3 = b3
  b4 = b4
  NoBuf = NoBuf
  NoEntry = NoEntry
  MaxFrags = 3
  MapMayFail = TRUE
SYMMETRY Symmetry
INVARIANT TypeOK
INVARIANT RingShape
INVARIANT Ownership
INVARIANT NoDmaOnCallerBuffer
INVARIANT FrameHeldBack
CHECK_DEADLOCK FALSE
