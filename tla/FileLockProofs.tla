--------------------------- MODULE FileLockProofs ---------------------------
(***************************************************************************)
(* Proofs about FileLock, for any processes, threads, files, bytes and     *)
(* descriptors.                                                            *)
(***************************************************************************)
EXTENDS FileLock, FiniteSetTheorems, TLAPS

USE FileLockAssumption

LEMMA IdleType == Idle \in Call /\ Idle.at = "idle"
  BY DEF Idle, Call, Types

(* What a change of a process's locks does to every byte.                  *)
LEMMA ChangeEffect ==
  ASSUME lock \in [Procs -> [Files -> [Bytes -> Types]]],
         NEW p \in Procs, NEW f \in Files, NEW range,
         NEW type \in Types, Change(p, f, range, type)
  PROVE  /\ lock' \in [Procs -> [Files -> [Bytes -> Types]]]
         /\ \A q \in Procs, g \in Files, b \in Bytes :
              lock'[q][g][b] = IF q = p /\ g = f /\ b \in range
                               THEN type ELSE lock[q][g][b]
  BY DEF Change

(* A lock that is granted keeps the locks exclusive; flock()'s is on the   *)
(* whole file.                                                             *)
LEMMA GrantKeeps ==
  ASSUME TypeOK, HostExcludes, WholeFileLocked, NEW t \in Threads, NEW c,
         c.fd \in Fds, FdProc[c.fd] = ProcOf[t], c.type \in Types,
         c.by = "flock" => c.range = Bytes,
         Grant(t, c)
  PROVE  /\ lock' \in [Procs -> [Files -> [Bytes -> Types]]]
         /\ held' \in [Procs -> [Files -> Types]]
         /\ HostExcludes' /\ WholeFileLocked'
<1> DEFINE p == ProcOf[t]
           f == FdFile[c.fd]
<1>1. p \in Procs /\ f \in Files
  OBVIOUS
<1>2. /\ lock' \in [Procs -> [Files -> [Bytes -> Types]]]
      /\ \A q \in Procs, g \in Files, b \in Bytes :
           lock'[q][g][b] = IF q = p /\ g = f /\ b \in c.range
                            THEN c.type ELSE lock[q][g][b]
  BY <1>1, ChangeEffect DEF Grant, TypeOK
<1>3. \A q \in Procs \ {p}, b \in c.range :
        /\ c.type = "wr" => lock[q][f][b] = "un"
        /\ c.type = "rd" => lock[q][f][b] # "wr"
  BY DEF Grant, Conflict
<1>4. /\ held' \in [Procs -> [Files -> Types]]
      /\ \A q \in Procs, g \in Files :
           held'[q][g] = IF q = p /\ g = f
                         THEN (IF c.by = "flock" THEN c.type ELSE "un")
                         ELSE held[q][g]
  <2>1. p \in Procs /\ f \in Files
    BY <1>1
  <2>2. held' = [held EXCEPT ![p][f] = IF c.by = "flock" THEN c.type ELSE "un"]
    BY DEF Grant
  <2>3. (IF c.by = "flock" THEN c.type ELSE "un") \in Types
    BY DEF Types
  <2> HIDE DEF p, f
  <2> QED BY <2>1, <2>2, <2>3 DEF TypeOK
<1>5. HostExcludes'
  <2> SUFFICES ASSUME NEW q \in Procs, NEW g \in Files, NEW b \in Bytes,
                      NEW r \in Procs \ {q}, lock'[q][g][b] = "wr"
               PROVE  lock'[r][g][b] = "un"
    BY DEF HostExcludes
  <2> HIDE DEF p, f
  <2>1. lock[q][g][b] = "wr" => lock[r][g][b] = "un"
    BY DEF HostExcludes
  <2>2. lock[r][g][b] \in Types /\ lock[q][g][b] \in Types
    BY DEF TypeOK
  <2>3. CASE q = p /\ g = f /\ b \in c.range
    <3>1. c.type = "wr" /\ r \in Procs \ {p}
      BY <1>2, <2>3
    <3>2. lock[r][f][b] = "un" /\ lock'[r][g][b] = lock[r][g][b]
      BY <1>2, <1>3, <2>3, <3>1
    <3> QED BY <2>3, <3>2
  <2>4. CASE r = p /\ g = f /\ b \in c.range
    <3>1. lock[q][g][b] = "wr"
      BY <1>2, <2>4
    <3>2. c.type = "un"
      BY <1>3, <2>4, <3>1 DEF Types
    <3> QED BY <1>2, <2>4, <3>2
  <2>5. CASE ~(q = p /\ g = f /\ b \in c.range) /\ ~(r = p /\ g = f /\ b \in c.range)
    BY <1>2, <2>1, <2>5
  <2> QED BY <2>3, <2>4, <2>5
<1>6. WholeFileLocked'
  <2> SUFFICES ASSUME NEW q \in Procs, NEW g \in Files, held'[q][g] # "un",
                      NEW b \in Bytes
               PROVE  lock'[q][g][b] = held'[q][g]
    BY DEF WholeFileLocked
  <2> HIDE DEF p, f
  <2>1. held[q][g] # "un" => lock[q][g][b] = held[q][g]
    BY DEF WholeFileLocked
  <2> QED BY <1>2, <1>4, <2>1
<1> QED BY <1>2, <1>4, <1>5, <1>6

(* So does closing: all the process's locks on the file go.                *)
LEMMA DropKeeps ==
  ASSUME TypeOK, HostExcludes, WholeFileLocked, NEW p \in Procs, NEW f \in Files,
         Change(p, f, Bytes, "un"), Touched(p, f)
  PROVE  /\ lock' \in [Procs -> [Files -> [Bytes -> Types]]]
         /\ held' \in [Procs -> [Files -> Types]]
         /\ HostExcludes' /\ WholeFileLocked'
<1>1. /\ lock' \in [Procs -> [Files -> [Bytes -> Types]]]
      /\ \A q \in Procs, g \in Files, b \in Bytes :
           lock'[q][g][b] = IF q = p /\ g = f THEN "un" ELSE lock[q][g][b]
  BY ChangeEffect DEF TypeOK, Types
<1>2. /\ held' \in [Procs -> [Files -> Types]]
      /\ \A q \in Procs, g \in Files :
           held'[q][g] = IF q = p /\ g = f THEN "un" ELSE held[q][g]
  BY DEF Touched, TypeOK, Types
<1>3. HostExcludes'
  <2> SUFFICES ASSUME NEW q \in Procs, NEW g \in Files, NEW b \in Bytes,
                      NEW r \in Procs \ {q}, lock'[q][g][b] = "wr"
               PROVE  lock'[r][g][b] = "un"
    BY DEF HostExcludes
  <2>1. lock[q][g][b] = "wr"
    BY <1>1
  <2>2. lock[r][g][b] = "un"
    BY <2>1 DEF HostExcludes
  <2> QED BY <1>1, <2>2
<1>4. WholeFileLocked'
  <2> SUFFICES ASSUME NEW q \in Procs, NEW g \in Files, held'[q][g] # "un",
                      NEW b \in Bytes
               PROVE  lock'[q][g][b] = held'[q][g]
    BY DEF WholeFileLocked
  <2>1. held[q][g] # "un" => lock[q][g][b] = held[q][g]
    BY DEF WholeFileLocked
  <2> QED BY <1>1, <1>2, <2>1
<1> QED BY <1>1, <1>2, <1>3, <1>4

LEMMA NoChange ==
  ASSUME HostExcludes, WholeFileLocked, UNCHANGED <<lock, held>>
  PROVE  HostExcludes' /\ WholeFileLocked'
  BY DEF HostExcludes, WholeFileLocked

(* The call that a thread enters is its own.                               *)
LEMMA GoOwn ==
  ASSUME TypeOK, \A u \in Threads : CallOwn(u), NEW t \in Threads, NEW c \in Call,
         Go(t, c),
         c.at = "waits" => /\ c.fd \in Fds /\ FdProc[c.fd] = ProcOf[t]
                           /\ c.by = "flock" => c.range = Bytes,
         c.at \in {"vfs", "close"} => c.file \in Files
  PROVE  call' \in [Threads -> Call] /\ \A u \in Threads : CallOwn(u)'
<1>1. call' \in [Threads -> Call] /\ call'[t] = c /\ \A u \in Threads \ {t} : call'[u] = call[u]
  BY DEF Go, TypeOK
<1> QED BY <1>1 DEF CallOwn

LEMMA ReturnOwn ==
  ASSUME TypeOK, \A u \in Threads : CallOwn(u), NEW t \in Threads, NEW o, Return(t, o)
  PROVE  call' \in [Threads -> Call] /\ \A u \in Threads : CallOwn(u)'
<1>1. call' \in [Threads -> Call] /\ call'[t] = Idle /\ \A u \in Threads \ {t} : call'[u] = call[u]
  BY IdleType DEF Return, TypeOK
<1> QED BY <1>1, IdleType DEF CallOwn

LEMMA RequestType ==
  ASSUME NEW by \in {"flock", "fcntl"}, NEW nb \in BOOLEAN, NEW fd \in Fds,
         NEW type \in Types, NEW range \in SUBSET Bytes
  PROVE  LET c == Request(by, nb, fd, type, range) IN
         /\ c \in Call /\ [c EXCEPT !.at = "waits"] \in Call
         /\ c.by = by /\ c.nb = nb /\ c.fd = fd /\ c.type = type /\ c.range = range
         /\ [c EXCEPT !.at = "waits"].at = "waits" /\ [c EXCEPT !.at = "waits"].by = by
         /\ [c EXCEPT !.at = "waits"].fd = fd /\ [c EXCEPT !.at = "waits"].range = range
         /\ [c EXCEPT !.at = "waits"].nb = nb
  BY DEF Request, Idle, Call, Types

(* A lock call keeps the invariant.                                        *)
LEMMA SetLkKeeps ==
  ASSUME IInv, NEW t \in Threads, NEW cmd, NEW by \in {"flock", "fcntl"},
         NEW nb \in BOOLEAN, NEW fd \in Fds, FdProc[fd] = ProcOf[t],
         NEW type \in Types, NEW range \in SUBSET Bytes,
         by = "flock" => range = Bytes,
         SetLk(t, Request(by, nb, fd, type, range), cmd)
  PROVE  IInv'
<1> DEFINE c == Request(by, nb, fd, type, range)
           w == [c EXCEPT !.at = "waits"]
<1>1. /\ c \in Call /\ c.by = by /\ c.fd = fd /\ c.type = type /\ c.range = range
      /\ w \in Call /\ w.at = "waits" /\ w.by = by /\ w.fd = fd /\ w.range = range
  BY RequestType
<1>2. TypeOK /\ HostExcludes /\ WholeFileLocked /\ \A u \in Threads : CallOwn(u)
  BY DEF IInv
<1>3. open' = open
  BY DEF SetLk
<1> HIDE DEF c, w
<1>4. CASE Grant(t, c)
  <2>1. Return(t, Outcome(c, "ok"))
    BY <1>4 DEF Grant
  <2>2. /\ lock' \in [Procs -> [Files -> [Bytes -> Types]]]
        /\ held' \in [Procs -> [Files -> Types]]
        /\ HostExcludes' /\ WholeFileLocked'
    BY <1>1, <1>2, <1>4, GrantKeeps
  <2>3. call' \in [Threads -> Call] /\ \A u \in Threads : CallOwn(u)'
    BY <1>2, <2>1, ReturnOwn
  <2> QED BY <1>2, <1>3, <2>2, <2>3 DEF IInv, TypeOK
<1>5. ASSUME NEW err, Refuse(t, c, err) PROVE IInv'
  <2>1. Return(t, Outcome(c, err)) /\ UNCHANGED <<lock, held>>
    BY <1>5 DEF Refuse
  <2>2. call' \in [Threads -> Call] /\ \A u \in Threads : CallOwn(u)'
    BY <1>2, <2>1, ReturnOwn
  <2>3. HostExcludes' /\ WholeFileLocked'
    BY <1>2, <2>1, NoChange
  <2> QED BY <1>2, <1>3, <2>1, <2>2, <2>3 DEF IInv, TypeOK
<1>6. CASE Go(t, w) /\ UNCHANGED <<lock, held>>
  <2>1. call' \in [Threads -> Call] /\ \A u \in Threads : CallOwn(u)'
    BY <1>1, <1>2, <1>6, GoOwn
  <2>2. HostExcludes' /\ WholeFileLocked'
    BY <1>2, <1>6, NoChange
  <2> QED BY <1>2, <1>3, <1>6, <2>1, <2>2 DEF IInv, TypeOK
<1> QED BY <1>4, <1>5, <1>6 DEF SetLk, c, w

LEMMA InitInv == Init => IInv
<1> SUFFICES ASSUME Init PROVE IInv
  OBVIOUS
<1>1. \A x \in Procs, f \in Files, b \in Bytes : lock[x][f][b] = "un"
  BY DEF Init
<1>2. \A x \in Procs, f \in Files : held[x][f] = "un"
  BY DEF Init
<1>3. TypeOK
  BY IdleType DEF Init, TypeOK, Types
<1>4. \A t \in Threads : CallOwn(t)
  BY IdleType DEF Init, CallOwn
<1> QED BY <1>1, <1>2, <1>3, <1>4 DEF IInv, HostExcludes, WholeFileLocked

LEMMA FlockKeeps ==
  ASSUME IInv, NEW t \in Threads, NEW fd \in Fds, FdProc[fd] = ProcOf[t], NEW op,
         NEW nb \in BOOLEAN, Flock(t, fd, op, nb)
  PROVE  IInv'
<1>1. CASE op \in {"LOCK_SH", "LOCK_EX", "LOCK_UN"}
  <2>1. SetLk(t, Request("flock", nb, fd, LockType(op), WholeFile), Command(nb))
    BY <1>1 DEF Flock
  <2>2. LockType(op) \in Types
    BY <1>1 DEF LockType, Types
  <2> QED BY <2>1, <2>2, SetLkKeeps DEF WholeFile
<1>2. CASE op \notin {"LOCK_SH", "LOCK_EX", "LOCK_UN"}
  <2>1. /\ Return(t, [Nothing EXCEPT !.err = "EINVAL"])
        /\ UNCHANGED <<open, lock, temps, held>>
    BY <1>2 DEF Flock
  <2>2. call' \in [Threads -> Call] /\ \A u \in Threads : CallOwn(u)'
    BY <2>1, ReturnOwn DEF IInv
  <2>3. HostExcludes' /\ WholeFileLocked'
    BY <2>1, NoChange DEF IInv
  <2> QED BY <2>1, <2>2, <2>3 DEF IInv, TypeOK
<1> QED BY <1>1, <1>2

LEMMA NextInv == IInv /\ [Next]_vars => IInv'
<1> SUFFICES ASSUME IInv, [Next]_vars PROVE IInv'
  OBVIOUS
<1>1. TypeOK /\ HostExcludes /\ WholeFileLocked /\ \A u \in Threads : CallOwn(u)
  BY DEF IInv
<1>2. ASSUME NEW t \in Threads, NEW fd \in Fds, FdProc[fd] = ProcOf[t],
             NEW op, NEW nb \in BOOLEAN, Flock(t, fd, op, nb)
      PROVE  IInv'
  BY <1>2, FlockKeeps
<1>3. ASSUME NEW t \in Threads, NEW fd \in Fds, FdProc[fd] = ProcOf[t],
             NEW range \in Ranges, NEW type \in Types, NEW cmd,
             Fcntl(t, fd, cmd, range, type)
      PROVE  IInv'
  <2>1. SetLk(t, Request("fcntl", FALSE, fd, type, range), cmd) /\ range \in SUBSET Bytes
    BY <1>3 DEF Fcntl
  <2> QED BY <1>3, <2>1, SetLkKeeps
<1>4. ASSUME NEW t \in Threads, NEW o, Return(t, o), UNCHANGED <<open, lock, held>>
      PROVE  IInv'
  <2>1. call' \in [Threads -> Call] /\ \A u \in Threads : CallOwn(u)'
    BY <1>1, <1>4, ReturnOwn
  <2>2. HostExcludes' /\ WholeFileLocked'
    BY <1>1, <1>4, NoChange
  <2> QED BY <1>1, <1>4, <2>1, <2>2 DEF IInv, TypeOK
<1>5. ASSUME NEW t \in Threads, NEW c \in Call, Go(t, c), UNCHANGED <<open, lock, held>>,
             c.at \in {"vfs", "close"}, c.file \in Files
      PROVE  IInv'
  <2>1. call' \in [Threads -> Call] /\ \A u \in Threads : CallOwn(u)'
    BY <1>1, <1>5, GoOwn
  <2>2. HostExcludes' /\ WholeFileLocked'
    BY <1>1, <1>5, NoChange
  <2> QED BY <1>1, <1>5, <2>1, <2>2 DEF IInv, TypeOK
<1>6. ASSUME NEW t \in Threads, NEW fd, NEW range, NEW type, GetLk(t, fd, range, type)
      PROVE  IInv'
  BY <1>4, <1>6 DEF GetLk
<1>7. ASSUME NEW t \in Threads, NEW f \in Files, StatOpen(t, f) PROVE IInv'
  <2>1. [Idle EXCEPT !.at = "vfs", !.file = f] \in Call
        /\ [Idle EXCEPT !.at = "vfs", !.file = f].at = "vfs"
        /\ [Idle EXCEPT !.at = "vfs", !.file = f].file = f
    BY DEF Idle, Call, Types
  <2>2. CASE Go(t, [Idle EXCEPT !.at = "vfs", !.file = f])
    BY <1>5, <1>7, <2>1, <2>2 DEF StatOpen
  <2> QED BY <1>4, <1>7, <2>2 DEF StatOpen
<1>8. ASSUME NEW t \in Threads, FStat(t) PROVE IInv'
  <2>1. PICK err \in {"ok", "EIO"} : Go(t, [call[t] EXCEPT !.at = "close", !.err = err])
    BY <1>8 DEF FStat, AfterStat
  <2>2. call[t] \in Call /\ call[t].file \in Files
    BY <1>1, <1>8 DEF FStat, CallOwn, TypeOK
  <2>3. /\ [call[t] EXCEPT !.at = "close", !.err = err] \in Call
        /\ [call[t] EXCEPT !.at = "close", !.err = err].at = "close"
        /\ [call[t] EXCEPT !.at = "close", !.err = err].file = call[t].file
    BY <2>2 DEF Call
  <2> QED BY <1>5, <1>8, <2>1, <2>2, <2>3 DEF FStat
<1>9. ASSUME NEW t \in Threads, StatClose(t) PROVE IInv'
  <2>1. call[t].file \in Files /\ ProcOf[t] \in Procs
    BY <1>1, <1>9 DEF StatClose, CallOwn
  <2>2. /\ lock' \in [Procs -> [Files -> [Bytes -> Types]]]
        /\ held' \in [Procs -> [Files -> Types]]
        /\ HostExcludes' /\ WholeFileLocked'
    BY <1>1, <1>9, <2>1, DropKeeps DEF StatClose
  <2>3. call' \in [Threads -> Call] /\ \A u \in Threads : CallOwn(u)'
    BY <1>1, <1>9, ReturnOwn DEF StatClose
  <2> QED BY <1>1, <1>9, <2>2, <2>3 DEF StatClose, IInv, TypeOK
<1>10. ASSUME NEW t \in Threads, Wake(t) PROVE IInv'
  <2>1. CASE Grant(t, call[t])
    <3>1. call[t] \in Call /\ call[t].fd \in Fds /\ FdProc[call[t].fd] = ProcOf[t]
          /\ (call[t].by = "flock" => call[t].range = Bytes)
      BY <1>1, <1>10 DEF Wake, CallOwn, TypeOK
    <3>2. call[t].type \in Types
      BY <3>1 DEF Call
    <3>3. /\ lock' \in [Procs -> [Files -> [Bytes -> Types]]]
          /\ held' \in [Procs -> [Files -> Types]]
          /\ HostExcludes' /\ WholeFileLocked'
      BY <1>1, <2>1, <3>1, <3>2, GrantKeeps
    <3>4. call' \in [Threads -> Call] /\ \A u \in Threads : CallOwn(u)'
      BY <1>1, <2>1, ReturnOwn DEF Grant
    <3> QED BY <1>1, <1>10, <3>3, <3>4 DEF Wake, IInv, TypeOK
  <2>2. CASE Refuse(t, call[t], "EINTR")
    BY <1>4, <1>10, <2>2 DEF Wake, Refuse
  <2> QED BY <1>10, <2>1, <2>2 DEF Wake
<1>11. ASSUME NEW fd \in Fds, Open(fd) PROVE IInv'
  BY <1>1, <1>11 DEF Open, IInv, TypeOK, HostExcludes, WholeFileLocked, CallOwn
<1>12. ASSUME NEW fd \in Fds, Close(fd) PROVE IInv'
  <2>1. /\ lock' \in [Procs -> [Files -> [Bytes -> Types]]]
        /\ held' \in [Procs -> [Files -> Types]]
        /\ HostExcludes' /\ WholeFileLocked'
    BY <1>1, <1>12, DropKeeps DEF Close
  <2>2. open' \subseteq Fds /\ call' = call
    BY <1>1, <1>12 DEF Close, TypeOK
  <2>3. \A t \in Threads : CallOwn(t)'
    BY <1>1, <2>2 DEF CallOwn
  <2> QED BY <1>1, <2>1, <2>2, <2>3 DEF IInv, TypeOK
<1>13. CASE UNCHANGED vars
  BY <1>1, <1>13 DEF vars, IInv, TypeOK, HostExcludes, WholeFileLocked, CallOwn
<1> QED BY <1>2, <1>3, <1>6, <1>7, <1>8, <1>9, <1>10, <1>11, <1>12, <1>13 DEF Next

THEOREM Invariance == Spec => []IInv
  BY InitInv, NextInv, PTL DEF Spec

(* The variables that calls read keep their types.                         *)
THEOREM TypeCorrect == Spec => []TypeOK
<1>1. IInv => TypeOK
  BY DEF IInv
<1> QED BY <1>1, Invariance, PTL

(* flock() built out of record locks excludes every other process, on      *)
(* every byte, however flock(), fcntl(), close() and statvfs() interleave. *)
THEOREM FlockExcludesHolds == Spec => []FlockExcludes
<1>1. IInv => FlockExcludes
  <2> SUFFICES ASSUME IInv, NEW p \in Procs, NEW f \in Files, NEW q \in Procs \ {p},
                      NEW b \in Bytes
               PROVE  /\ held[p][f] = "wr" => lock[q][f][b] = "un"
                      /\ held[p][f] = "rd" => lock[q][f][b] # "wr"
    BY DEF FlockExcludes
  <2>1. held[p][f] # "un" => lock[p][f][b] = held[p][f]
    BY DEF IInv, WholeFileLocked
  <2>2. lock[p][f][b] = "wr" => lock[q][f][b] = "un"
    BY DEF IInv, HostExcludes
  <2>3. lock[q][f][b] = "wr" => lock[p][f][b] = "un"
    BY DEF IInv, HostExcludes
  <2> QED BY <2>1, <2>2, <2>3
<1> QED BY <1>1, Invariance, PTL

(* No call of flock() with LOCK_NB waits, and only such a call gives up    *)
(* because of another process's lock.                                      *)
THEOREM NonBlockingHolds == Spec => []NonBlocking
<1>1. Init => NonBlocking
  BY DEF Init, NonBlocking, Idle, Nothing
<1>2. IInv /\ NonBlocking /\ [Next]_vars => NonBlocking'
  <2> SUFFICES ASSUME IInv, NonBlocking, [Next]_vars PROVE NonBlocking'
    OBVIOUS
  <2>1. call \in [Threads -> Call]
    BY DEF IInv, TypeOK
  <2>2. ASSUME NEW t \in Threads, NEW o, Return(t, o), o.by = "flock" /\ o.err = "EAGAIN" => o.nb
        PROVE  NonBlocking'
    BY <2>1, <2>2, IdleType DEF Return, NonBlocking
  <2>3. ASSUME NEW t \in Threads, NEW c, Go(t, c),
               c.by = "flock" /\ c.at = "waits" => ~c.nb
        PROVE  NonBlocking'
    BY <2>1, <2>3 DEF Go, NonBlocking, Nothing
  <2>4. /\ Nothing.by = None
        /\ \A err : [Nothing EXCEPT !.err = err].by = None
        /\ \A type : [Nothing EXCEPT !.by = "getlk", !.type = type].by = "getlk"
        /\ \A c, err : /\ Outcome(c, err).by = c.by /\ Outcome(c, err).nb = c.nb
                       /\ Outcome(c, err).err = err
    BY DEF Nothing, Outcome
  <2>5. ASSUME NEW t \in Threads, NEW by \in {"flock", "fcntl"}, NEW nb \in BOOLEAN,
               NEW fd \in Fds, NEW type \in Types, NEW range \in SUBSET Bytes, NEW cmd,
               by = "flock" => cmd = Command(nb),
               SetLk(t, Request(by, nb, fd, type, range), cmd)
        PROVE  NonBlocking'
    <3> DEFINE c == Request(by, nb, fd, type, range)
               w == [c EXCEPT !.at = "waits"]
    <3>1. c.by = by /\ c.nb = nb /\ w.by = by /\ w.nb = nb
      BY DEF Request, Idle
    <3> HIDE DEF c, w
    <3>2. \/ \E err \in {"ok", "EBADF"} : Return(t, Outcome(c, err))
          \/ cmd = "setlk" /\ Return(t, Outcome(c, "EAGAIN"))
          \/ cmd = "setlkw" /\ Go(t, w)
      BY <2>5 DEF SetLk, Grant, Refuse, c, w
    <3> QED BY <2>2, <2>3, <2>4, <2>5, <3>1, <3>2 DEF Command
  <2>6. ASSUME NEW t \in Threads, NEW fd \in Fds,
               NEW op \in {"LOCK_SH", "LOCK_EX", "LOCK_UN", "other"}, NEW nb \in BOOLEAN,
               Flock(t, fd, op, nb)
        PROVE  NonBlocking'
    <3>1. CASE SetLk(t, Request("flock", nb, fd, LockType(op), WholeFile), Command(nb))
               /\ op # "other"
      BY <2>5, <3>1 DEF LockType, Types, WholeFile
    <3>2. CASE Return(t, [Nothing EXCEPT !.err = "EINVAL"])
      BY <2>2, <2>4, <3>2
    <3> QED BY <2>6, <3>1, <3>2 DEF Flock
  <2>7. ASSUME NEW t \in Threads, NEW fd \in Fds, NEW range \in Ranges, NEW type \in Types,
               NEW cmd, Fcntl(t, fd, cmd, range, type)
        PROVE  NonBlocking'
    <3>1. SetLk(t, Request("fcntl", FALSE, fd, type, range), cmd) /\ range \in SUBSET Bytes
      BY <2>7 DEF Fcntl
    <3> QED BY <2>5, <3>1
  <2>8. ASSUME NEW t \in Threads, NEW fd, NEW range, NEW type, GetLk(t, fd, range, type)
        PROVE  NonBlocking'
    BY <2>2, <2>4, <2>8 DEF GetLk
  <2>9. ASSUME NEW t \in Threads, NEW f, StatOpen(t, f) PROVE NonBlocking'
    <3>1. [Idle EXCEPT !.at = "vfs", !.file = f].at = "vfs"
      BY DEF Idle
    <3> QED BY <2>2, <2>3, <2>4, <2>9, <3>1 DEF StatOpen
  <2>10. ASSUME NEW t \in Threads, FStat(t) PROVE NonBlocking'
    <3>1. PICK err : Go(t, [call[t] EXCEPT !.at = "close", !.err = err])
      BY <2>10 DEF FStat, AfterStat
    <3>2. [call[t] EXCEPT !.at = "close", !.err = err].at = "close"
      BY <2>1 DEF Call
    <3> QED BY <2>3, <3>1, <3>2
  <2>11. ASSUME NEW t \in Threads, StatClose(t) PROVE NonBlocking'
    BY <2>2, <2>4, <2>11 DEF StatClose
  <2>12. ASSUME NEW t \in Threads, Wake(t) PROVE NonBlocking'
    <3>1. \E err \in {"ok", "EINTR"} : Return(t, Outcome(call[t], err))
      BY <2>12 DEF Wake, Grant, Refuse
    <3> QED BY <2>2, <2>4, <3>1
  <2>13. CASE \E fd \in Fds : Open(fd) \/ Close(fd)
    BY <2>4, <2>13 DEF Open, Close, NonBlocking
  <2>14. CASE UNCHANGED vars
    BY <2>14 DEF vars, NonBlocking
  <2> QED BY <2>6, <2>7, <2>8, <2>9, <2>10, <2>11, <2>12, <2>13, <2>14 DEF Next
<1> QED BY Invariance, <1>1, <1>2, PTL DEF Spec

-----------------------------------------------------------------------------
(* The descriptors of statvfs().                                           *)

InStat(p) == {t \in Threads : ProcOf[t] = p /\ call[t].at \in {"vfs", "close"}}

LEMMA InStatFinite == \A p : IsFiniteSet(InStat(p)) /\ Cardinality(InStat(p)) \in Nat
  BY FS_Subset, FS_CardinalityType DEF InStat

(* A thread that enters or leaves statvfs() changes the count of its own   *)
(* process only.                                                           *)
LEMMA OneThread ==
  ASSUME call \in [Threads -> Call], NEW t \in Threads, NEW c,
         call' = [call EXCEPT ![t] = c], NEW p \in Procs
  PROVE  InStat(p)' = IF ProcOf[t] = p /\ c.at \in {"vfs", "close"}
                      THEN InStat(p) \cup {t} ELSE InStat(p) \ {t}
  BY DEF InStat

Counted == temps \in [Procs -> Nat] /\ DescriptorsAccounted

LEMMA WithoutAbsent == \A S, x : x \notin S => S \ {x} = S
  OBVIOUS

LEMMA CountSame ==
  ASSUME call \in [Threads -> Call], Counted, NEW t \in Threads, NEW c,
         call' = [call EXCEPT ![t] = c], UNCHANGED temps,
         call[t].at \in {"vfs", "close"} <=> c.at \in {"vfs", "close"}
  PROVE  Counted'
<1>1. \A p \in Procs : InStat(p)' = InStat(p)
  BY OneThread DEF InStat
<1> QED BY <1>1 DEF Counted, DescriptorsAccounted, InStat

(* Every open() of statvfs() is matched by its close().                    *)
THEOREM DescriptorsAccountedHolds == Spec => []DescriptorsAccounted
<1>1. Init => Counted
  <2> SUFFICES ASSUME Init PROVE Counted
    OBVIOUS
  <2>1. \A p : InStat(p) = {}
    BY DEF Init, InStat, Idle
  <2> QED BY <2>1, FS_EmptySet DEF Init, Counted, DescriptorsAccounted, InStat
<1>2. IInv /\ Counted /\ [Next]_vars => Counted'
  <2> SUFFICES ASSUME IInv, Counted, [Next]_vars PROVE Counted'
    OBVIOUS
  <2>1. /\ call \in [Threads -> Call] /\ temps \in [Procs -> Nat]
        /\ \A p \in Procs : temps[p] = Cardinality(InStat(p))
    BY DEF IInv, TypeOK, Counted, DescriptorsAccounted, InStat
  <2>2. ASSUME NEW t \in Threads, NEW o, Return(t, o), call[t].at \notin {"vfs", "close"},
               UNCHANGED temps
        PROVE  Counted'
    BY <2>1, <2>2, CountSame, IdleType DEF Return
  <2>3. ASSUME NEW t \in Threads, NEW c, Go(t, c), UNCHANGED temps,
               call[t].at \in {"vfs", "close"} <=> c.at \in {"vfs", "close"}
        PROVE  Counted'
    BY <2>1, <2>3, CountSame DEF Go
  <2>4. ASSUME NEW t \in Threads, NEW c, NEW cmd, SetLk(t, c, cmd), call[t].at = "idle"
        PROVE  Counted'
    <3>1. [c EXCEPT !.at = "waits"].at \notin {"vfs", "close"} \/ ~Go(t, [c EXCEPT !.at = "waits"])
      BY <2>1, <2>4 DEF Go, SetLk, Call
    <3> QED BY <2>2, <2>3, <2>4, <3>1 DEF SetLk, Grant, Refuse
  <2>5. ASSUME NEW t \in Threads, NEW fd, NEW op, NEW nb, Flock(t, fd, op, nb) PROVE Counted'
    BY <2>2, <2>4, <2>5 DEF Flock
  <2>6. ASSUME NEW t \in Threads, NEW fd, NEW range, NEW type, NEW cmd,
               Fcntl(t, fd, cmd, range, type) \/ GetLk(t, fd, range, type)
        PROVE  Counted'
    BY <2>2, <2>4, <2>6 DEF Fcntl, GetLk
  <2>7. ASSUME NEW t \in Threads, NEW f \in Files, StatOpen(t, f) PROVE Counted'
    <3>1. CASE Return(t, [Nothing EXCEPT !.err = "ENOENT"]) /\ UNCHANGED temps
      BY <2>2, <2>7, <3>1 DEF StatOpen
    <3>2. CASE /\ Go(t, [Idle EXCEPT !.at = "vfs", !.file = f])
               /\ temps' = [temps EXCEPT ![ProcOf[t]] = @ + 1]
      <4>1. [Idle EXCEPT !.at = "vfs", !.file = f].at = "vfs"
        BY DEF Idle
      <4>2. \A p \in Procs : t \notin InStat(p)
        BY <2>7 DEF StatOpen, InStat
      <4>3. \A p \in Procs : InStat(p)' = IF ProcOf[t] = p THEN InStat(p) \cup {t}
                                          ELSE InStat(p)
        <5>1. \A p \in Procs : InStat(p)' = IF ProcOf[t] = p THEN InStat(p) \cup {t}
                                            ELSE InStat(p) \ {t}
          BY <2>1, <3>2, <4>1, OneThread DEF Go
        <5>2. ASSUME NEW p \in Procs PROVE InStat(p) \ {t} = InStat(p)
          BY <4>2, WithoutAbsent
        <5> HIDE DEF InStat
        <5> QED BY <5>1, <5>2
      <4>4. \A p \in Procs : Cardinality(InStat(p)') = IF ProcOf[t] = p THEN temps[p] + 1
                                                      ELSE temps[p]
        <5>1. ASSUME NEW p \in Procs
              PROVE  Cardinality(InStat(p) \cup {t}) = Cardinality(InStat(p)) + 1
          BY <4>2, InStatFinite, FS_AddElement
        <5> QED BY <2>1, <4>3, <5>1
      <4>5. temps' \in [Procs -> Nat]
            /\ \A p \in Procs : temps'[p] = IF ProcOf[t] = p THEN temps[p] + 1 ELSE temps[p]
        BY <2>1, <3>2
      <4> QED BY <4>4, <4>5 DEF Counted, DescriptorsAccounted, InStat
    <3> QED BY <2>7, <3>1, <3>2 DEF StatOpen
  <2>8. ASSUME NEW t \in Threads, FStat(t) PROVE Counted'
    <3>1. PICK err : Go(t, [call[t] EXCEPT !.at = "close", !.err = err]) /\ UNCHANGED temps
      BY <2>8 DEF FStat, AfterStat
    <3>2. [call[t] EXCEPT !.at = "close", !.err = err].at = "close"
      BY <2>1 DEF Call
    <3> QED BY <2>3, <2>8, <3>1, <3>2 DEF FStat
  <2>9. ASSUME NEW t \in Threads, StatClose(t) PROVE Counted'
    <3>1. /\ temps' = [temps EXCEPT ![ProcOf[t]] = @ - 1] /\ call[t].at = "close"
          /\ call' = [call EXCEPT ![t] = Idle]
      BY <2>9 DEF StatClose, Return
    <3>2. \A p \in Procs : InStat(p)' = InStat(p) \ {t}
      BY <2>1, <3>1, OneThread, IdleType
    <3>3. \A p \in Procs : t \in InStat(p) <=> ProcOf[t] = p
      BY <3>1 DEF InStat
    <3>4. \A p \in Procs : ProcOf[t] = p => Cardinality(InStat(p)') = temps[p] - 1
      BY <2>1, <3>2, <3>3, InStatFinite, FS_RemoveElement
    <3>5. \A p \in Procs : ProcOf[t] # p => Cardinality(InStat(p)') = temps[p]
      <4>1. \A p \in Procs : ProcOf[t] # p => InStat(p)' = InStat(p)
        BY <3>2, <3>3, WithoutAbsent
      <4> QED BY <2>1, <4>1
    <3>6. \A p \in Procs : Cardinality(InStat(p)') \in Nat
      BY <3>2, InStatFinite, FS_RemoveElement, FS_CardinalityType
    <3>7. \A p \in Procs : temps'[p] = Cardinality(InStat(p)')
      BY <2>1, <3>1, <3>4, <3>5
    <3>8. temps' \in [Procs -> Nat]
      BY <2>1, <3>1, <3>6, <3>7
    <3> QED BY <3>7, <3>8 DEF Counted, DescriptorsAccounted, InStat
  <2>10. ASSUME NEW t \in Threads, Wake(t) PROVE Counted'
    BY <2>2, <2>10 DEF Wake, Grant, Refuse
  <2>11. CASE UNCHANGED <<call, temps>>
    BY <2>11 DEF Counted, DescriptorsAccounted
  <2> QED BY <2>5, <2>6, <2>7, <2>8, <2>9, <2>10, <2>11 DEF Next, Open, Close, vars
<1>3. Counted => DescriptorsAccounted
  BY DEF Counted
<1> QED BY Invariance, <1>1, <1>2, <1>3, PTL DEF Spec
=============================================================================
