SPECIFICATION Spec
CONSTANTS
  Limit = 1
  Volatile = {"GSR0", "XCTRL", "ctrl", "status"}
  PhyAddrs = 32
  Retries = 2
  Boards <- MCBoards
CHECK_DEADLOCK FALSE
INVARIANT TypeOK
INVARIANT IInv
INVARIANT RestartOnlyIfDifferent
INVARIANT StepInv
INVARIANT ErrorsExcused
INVARIANT PageInv
INVARIANT SerdesInv
INVARIANT BusLeftFree
INVARIANT LinkInv
