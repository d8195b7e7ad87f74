SPECIFICATION FairSpec
CONSTANTS
  Limit = 1
  Volatile = {"GSR0", "XCTRL", "ctrl", "status"}
  PhyAddrs = 32
  Retries = 2
  Boards <- MCBoards
CHECK_DEADLOCK FALSE
INVARIANT SerdesProgrammed
INVARIANT FailureReported
INVARIANT RightPage
INVARIANT RefusedForAReason
INVARIANT AddressKept
INVARIANT Advertises
PROPERTY ImplementsMdioAccess
PROPERTY BringUpEnds
