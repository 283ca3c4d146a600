SPECIFICATION FairSpec
CONSTANTS
  Threads = {t1, t2}
  Fds = {f1, f2, f3, f4, f5}
  Ports = {p1}
  MaxTries = 2
  Requests <- StreamRequests
  Faults <- OnlyAgain
  NoFd = NoFd
  NoAddr = NoAddr
INVARIANTS ModeAsRequested
PROPERTIES ReturnsUnlessNotStarted FailsOnlyForResources
