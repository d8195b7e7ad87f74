\* What the code does not satisfy (README, section 3): the property is violated.
\* Each of the commented ones, in its place, gives another counterexample.
SPECIFICATION Spec
CONSTANTS
  InitMayFail = {"Initialize"}
  Buffers = {b1, b2}
  Capacity = 2
  MaxXmit = 2
  MaxTx = 4
  NoBuf = NoBuf
  NoSnp = NoSnp
  Binds = 2
PROPERTY MediaSeen
\* INVARIANT AddressAgrees
\* INVARIANT CallbacksLive
\* PROPERTY ErrorReturnsNothing
\* PROPERTY EventsClosed
\* INVARIANT PendingLost
