\* Packets of up to 3 bytes into a send buffer of 2, two of them; up to
\* two bytes of the peer waiting, a receive buffer of 2; two interrupted calls.
SPECIFICATION FairSpec
CONSTANTS
  SendBuffer = 2
  RecvBuffer = 2
  MaxPacket = 3
  MaxPackets = 2
  MaxBytes = 2
  MaxSignals = 2
INVARIANTS
  TypeOK
  SendsInOrder
  DisconnectsForCause
PROPERTY SendReturns
