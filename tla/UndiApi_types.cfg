SPECIFICATION FairSpec
CONSTANT InitMayFail = {"Initialize"}
INVARIANT IInv
PROPERTY RestartEnds
