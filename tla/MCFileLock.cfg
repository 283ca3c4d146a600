SPECIFICATION Spec
CONSTANTS
  p1 = p1
  p2 = p2
  t1 = t1
  t2 = t2
  t3 = t3
  d1 = d1
  d2 = d2
  d3 = d3
  b1 = b1
  b2 = b2
  file = file
  None = None
  Procs = {p1, p2}
  Files = {file}
  Bytes = {b1, b2}
  Writable = {d1, d3}
  Faults = {"intr", "statvfs"}
  Threads <- MCThreads
  ProcOf <- MCProcOf
  Fds <- MCFds
  FdProc <- MCFdProc
  FdFile <- MCFdFile
  Ranges <- MCRanges
SYMMETRY TwoThreads
INVARIANTS FlockExcludes NonBlocking DescriptorsAccounted
