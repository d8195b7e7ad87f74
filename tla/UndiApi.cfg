SPECIFICATION FairSpec
CONSTANT InitMayFail = {"Initialize"}
INVARIANT InitializedMeansRunning
PROPERTY NoCommandDuringStop
