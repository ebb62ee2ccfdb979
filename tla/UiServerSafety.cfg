\* Two slots, three client threads (one zombie beside two in use), three
\* descriptors (a listener and two connections), one peer.  The promise is
\* symmetric in the threads.
SPECIFICATION Spec
CONSTANTS
  MaxClients = 2
  Threads = {t1, t2, t3}
  Fds = {f1, f2, f3}
  Peers = {p1}
  NoFd = NoFd
  NoThread = NoThread
  NoPeer = NoPeer
SYMMETRY Symmetry
INVARIANTS
  TypeOK
  AtMostOneThreadPerSlot
  FreeSlotIsIdle
  ServingDescriptor
  NoDescriptorLeak
  StopQuiesces
  JoinsOwnThread
  IInv
  DInv
PROPERTY KeepsPromise
