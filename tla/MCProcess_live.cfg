SPECIFICATION FairSpec
CONSTANTS
  Threads = {t1, t2}
  Fds = {f1, f2, f3, f4}
  Pids = {p1, p2}
  Modes <- BothModes
  Faults <- SignalsOnly
  AnyoneWaits = FALSE
  OwnSpawns = FALSE
  Inherit = FALSE
  Nothing = Nothing
PROPERTIES WaitReturns
