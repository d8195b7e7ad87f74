\* What the code does not satisfy (README, section 3): the property is violated.
\* Each of the commented ones, in its place, gives another counterexample.
SPECIFICATION FairSpec
CONSTANTS
  DEFAULT_TX_DESCRIPTORS = 4
  Buffers = {b1,b2}
  b1 = b1
  b2 = b2
  NoBuf = NoBuf
  NoEntry = NoEntry
  MaxFrags = 0
  MapMayFail = FALSE
  DEFAULT_RX_DESCRIPTORS = 2
  Frames <- MCFrames
  NoFrame = NoFrame
  BufferLens = {1600}
  MaxRestarts = 1
PROPERTY StoredFrameIsReceived
\* PROPERTY EveryBufferReturns
\* PROPERTY ReturnedWereSent
