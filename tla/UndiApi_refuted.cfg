\* What the code does not satisfy (README, section 3): the property is violated.
\* Each of the commented ones, in its place, gives another counterexample.
SPECIFICATION Spec
CONSTANT InitMayFail = {}
PROPERTY StopStops
\* PROPERTY StoppedDriverIsSilent
\* PROPERTY ShutdownLeavesStarted
\* PROPERTY StartAgainFails
\* INVARIANT StationAddressReachesDevice
