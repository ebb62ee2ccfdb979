\* One packet; one interrupted call is enough.
SPECIFICATION Spec
CONSTANTS
  SendBuffer = 2
  RecvBuffer = 2
  MaxPacket = 3
  MaxPackets = 1
  MaxBytes = 2
  MaxSignals = 1
INVARIANT ZeroOnlyOnTimeout
