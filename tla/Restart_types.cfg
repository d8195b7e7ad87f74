\* The inductive invariant of Restart_proofs, with fragments and failing mappings.
SPECIFICATION Spec
CONSTANTS
  DEFAULT_TX_DESCRIPTORS = 4
  Buffers = {b1,b2}
  b1 = b1
  b2 = b2
  NoBuf = NoBuf
  NoEntry = NoEntry
  MaxFrags = 2
  MapMayFail = TRUE
  DEFAULT_RX_DESCRIPTORS = 2
  Frames <- MCFrames
  NoFrame = NoFrame
  BufferLens = {1600}
  MaxRestarts = 1
SYMMETRY Symmetry
INVARIANT IInv
