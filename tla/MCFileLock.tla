----------------------------- MODULE MCFileLock -----------------------------
(* Two processes, the first with two threads and two descriptors, one of   *)
(* them read-only, on one file of two bytes.                               *)
EXTENDS FileLock, TLC

CONSTANTS p1, p2, t1, t2, t3, d1, d2, d3, b1, b2, file

MCThreads == {t1, t2, t3}
MCProcOf == [t \in MCThreads |-> IF t = t3 THEN p2 ELSE p1]
MCFds == {d1, d2, d3}
MCFdProc == [d \in MCFds |-> IF d = d3 THEN p2 ELSE p1]
MCFdFile == [d \in MCFds |-> file]
TwoThreads == Permutations({t1, t2})
MCRanges == {{b1}, {b2}}
=============================================================================
