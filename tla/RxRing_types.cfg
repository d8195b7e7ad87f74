SPECIFICATION RxFairSpec
CONSTANTS
  DEFAULT_RX_DESCRIPTORS = 3
  Frames <- MCFrames
  NoFrame = NoFrame
  NoEntry = NoEntry
  BufferLens = {60, 1600, 65566}
INVARIANT RingInv
