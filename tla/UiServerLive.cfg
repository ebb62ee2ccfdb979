\* One slot, two client threads (one of them a zombie later), two
\* descriptors, one peer; no symmetry, which liveness does not allow.
SPECIFICATION FairSpec
CONSTANTS
  MaxClients = 1
  Threads = {t1, t2}
  Fds = {f1, f2}
  Peers = {p1}
  NoFd = NoFd
  NoThread = NoThread
  NoPeer = NoPeer
PROPERTIES
  StopTerminates
  SlotReleased
  PeerLossNoticed
