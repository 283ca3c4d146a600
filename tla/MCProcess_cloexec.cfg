SPECIFICATION FairSpec
CONSTANTS
  Threads = {t1, t2}
  Fds = {f1, f2, f3, f4}
  Pids = {p1, p2}
  Modes <- WriteOnly
  Faults <- SignalsOnly
  AnyoneWaits = FALSE
  OwnSpawns = TRUE
  Inherit = TRUE
  Nothing = Nothing
INVARIANTS WaitedForEnds
PROPERTIES WaitReturns
