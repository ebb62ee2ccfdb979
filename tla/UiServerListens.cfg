\* One slot, one thread, one connection: accept() fails while the server runs.
SPECIFICATION Spec
CONSTANTS
  MaxClients = 1
  Threads = {t1}
  Fds = {f1, f2}
  Peers = {p1}
  NoFd = NoFd
  NoThread = NoThread
  NoPeer = NoPeer
INVARIANT StartedServerListens
