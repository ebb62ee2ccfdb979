\* One slot and one thread are enough for two closes of one connection.
SPECIFICATION Spec
CONSTANTS
  MaxClients = 1
  Threads = {t1}
  Fds = {f1, f2}
  Peers = {p1}
  NoFd = NoFd
  NoThread = NoThread
  NoPeer = NoPeer
INVARIANT ClosesOwnSocket
