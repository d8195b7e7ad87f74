SPECIFICATION WaitingSpec
CONSTANTS
  InitMayFail = {"Initialize"}
  Buffers = {b1, b2}
  Capacity = 2
  MaxXmit = 2
  MaxTx = 4
  NoBuf = NoBuf
  NoSnp = NoSnp
  Binds = 2
PROPERTY PacketWakesWaiter
