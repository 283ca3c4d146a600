SPECIFICATION Spec
CONSTANTS
  Threads = {t1, t2}
  Fds = {f1, f2, f3, f4, f5}
  Pids = {p1, p2}
  Modes <- BothModes
  Faults <- AnyFault
  AnyoneWaits = TRUE
  OwnSpawns = TRUE
  Inherit = TRUE
  Nothing = Nothing
SYMMETRY Symmetry
INVARIANTS EndsAccounted NothingLeft ChildrenAccounted
PROPERTIES UsesPairService AnswersOwn
