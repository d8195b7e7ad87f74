SPECIFICATION Spec
CONSTANTS
  DEFAULT_TX_DESCRIPTORS = 4
  Buffers = {b1,b2,b3}
  b1 = b1
  b2 = b2
  b3 = b3
  NoBuf = NoBuf
  NoEntry = NoEntry
  MaxFrags = 0
  MapMayFail = FALSE
  DEFAULT_RX_DESCRIPTORS = 2
  Frames <- MCFrames
  NoFrame = NoFrame
  BufferLens = {1600}
  MaxRestarts = 2
SYMMETRY Symmetry
INVARIANT OwnershipKept
INVARIANT EngineReadsMapped
INVARIANT CopyKept
