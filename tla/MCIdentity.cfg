SPECIFICATION Spec
CONSTANTS
  a = a
  b = b
  NUL = NUL
  Chars = {a, b}
  Threads = {1, 2}
  Pid = 7
  Tids = {1, 2, 3}
  NameSize = 3
  Lengths = {0, 1, 2, 3, 4}
  Names <- MCNames
  Node <- MCNode
INVARIANTS PidRight OwnTid OwnName HostNameWhole
