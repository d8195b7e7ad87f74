\* What the code does not satisfy (README, section 3): the property is violated.
\* Each of the commented ones, in its place, gives another counterexample.
SPECIFICATION Spec
CONSTANTS
  Addresses = {a1, a2, a3, a4}
  Handles = {h1, h2, h3, h4}
  NULL = NULL
  PAGE_SIZE = 2
  TX_RING_SIZE = 3
  RX_RING_SIZE = 2
  RX_BUFFERS_SIZE = 4
SYMMETRY Places
CHECK_DEADLOCK FALSE
INVARIANT PartialLosesNothing
\* INVARIANT FailedStartLosesNothing
