SPECIFICATION Spec
CONSTANTS
  DEFAULT_TX_DESCRIPTORS = 2
  Buffers = {b1, b2}
  b1 = b1
  b2 = b2
  NoBuf = NoBuf
  NoEntry = NoEntry
  MaxFrags = 0
  MapMayFail = TRUE
INVARIANT AcceptedFrameHasAddress
