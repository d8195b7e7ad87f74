SPECIFICATION FairSpec
CONSTANTS
  DEFAULT_TX_DESCRIPTORS = 4
  Buffers = {b1, b2, b3, b4}
  b1 = b1
  b2 = b2
  b3 = b3
  b4 = b4
  NoBuf = NoBuf
  NoEntry = NoEntry
  MaxFrags = 0
  MapMayFail = FALSE
INVARIANT WholeIInv
INVARIANT HwReadsMapped
PROPERTY ReturnedWereSent
