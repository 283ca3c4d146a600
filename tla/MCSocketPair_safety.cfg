SPECIFICATION Spec
CONSTANTS
  Threads = {t1, t2}
  Fds = {f1, f2, f3, f4, f5}
  Ports = {p1, p2}
  MaxTries = 2
  Requests <- AllRequests
  Faults <- ServiceFaults
  NoFd = NoFd
  NoAddr = NoAddr
SYMMETRY Symmetry
INVARIANTS Ownership PairConnected AwaitsOwn
PROPERTIES ImplementsService OthersUntouched CallsMoveOn
