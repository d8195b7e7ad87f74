\* What the code does not satisfy (README, section 3): the property is violated.
\* Each of the commented ones, in its place, gives another counterexample.
SPECIFICATION RxSpec
CONSTANTS
  DEFAULT_RX_DESCRIPTORS = 2
  Frames <- MCFrames
  NoFrame = NoFrame
  NoEntry = NoEntry
  BufferLens = {1600, 40000}
INVARIANT FrameLenExact
\* INVARIANT SuccessHasFrame
\* INVARIANT TailReachesRing
