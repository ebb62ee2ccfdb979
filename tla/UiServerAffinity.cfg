\* Two peers, two slots, three client threads, and two descriptors: a listener
\* and one connection at a time, while the slot of the last one may be closing.
SPECIFICATION Spec
CONSTANTS
  MaxClients = 2
  Threads = {t1, t2, t3}
  Fds = {f1, f2}
  Peers = {p1, p2}
  NoFd = NoFd
  NoThread = NoThread
  NoPeer = NoPeer
SYMMETRY Symmetry
INVARIANT PeerKeepsItsSlot
