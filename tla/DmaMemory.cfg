SPECIFICATION Spec
CONSTANTS
  Addresses = {a1, a2, a3, a4}
  Handles = {h1, h2, h3, h4}
  NULL = NULL
  PAGE_SIZE = 2
  TX_RING_SIZE = 3
  RX_RING_SIZE = 2
  RX_BUFFERS_SIZE = 4
SYMMETRY Places
INVARIANT NoWildFree
INVARIANT MappedIsHeld
INVARIANT NothingLost
INVARIANT AttributesRestored
CHECK_DEADLOCK FALSE
