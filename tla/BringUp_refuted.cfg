\* What the code does not satisfy (README, section 3): the property is violated.
\* Each of the commented ones, in its place, gives another counterexample.
SPECIFICATION Spec
CONSTANTS
  Limit = 1
  Volatile = {"GSR0", "XCTRL", "ctrl", "status"}
  PhyAddrs = 32
  Retries = 2
  Boards <- MCBoards
CHECK_DEADLOCK FALSE
INVARIANT NeverRestartedInVain
\* INVARIANT IdFromPageZero
\* INVARIANT EveryPortScanned
\* INVARIANT PhyIsIdentified
\* INVARIANT IdentifiedAgain
\* INVARIANT AddressAlwaysKept
\* INVARIANT SerdesAnswered
\* INVARIANT XpcsResetCompleted
