\* What the code does not satisfy (README, section 3): the property is violated.
\* Each of the commented ones, in its place, gives another counterexample.
SPECIFICATION FairSpec
CONSTANTS
  DEFAULT_TX_DESCRIPTORS = 4
  Buffers = {b1, b2, b3}
  b1 = b1
  b2 = b2
  b3 = b3
  NoBuf = NoBuf
  NoEntry = NoEntry
  MaxFrags = 2
  MapMayFail = FALSE
CHECK_DEADLOCK FALSE
PROPERTY EveryBufferReturns
\* INVARIANT FrameHasEnd
