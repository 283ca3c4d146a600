------------------------------ MODULE FileLock ------------------------------
(***************************************************************************)
(* File locks and statvfs() of wamr-ext-libc/src/filesystem.c, lines       *)
(* 46-68 and 90-150.  flock() is emulated by a record lock on the whole    *)
(* file.  Record locks are the host's: they belong to a process, cover     *)
(* single bytes, and go when the process closes any descriptor of the      *)
(* file, which statvfs() does to its temporary one.  A lock call is one    *)
(* step, unless it waits in the host.  A program does not close a          *)
(* descriptor on which one of its threads waits.                           *)
(***************************************************************************)
EXTENDS Naturals, FiniteSets

CONSTANTS
  Procs, Threads, ProcOf,        \* processes, and the process of each thread
  Files, Bytes,                  \* files and their bytes
  Fds, FdProc, FdFile, Writable, \* descriptors; those open for writing
  Ranges,                        \* the ranges programs give to fcntl()
  Faults,                        \* "intr", "statvfs": what the host may refuse
  None

ASSUME FileLockAssumption ==
  /\ ProcOf \in [Threads -> Procs]
  /\ FdProc \in [Fds -> Procs] /\ FdFile \in [Fds -> Files]
  /\ Ranges \subseteq SUBSET Bytes
  /\ IsFiniteSet(Threads)
  /\ None \notin Fds \cup {"flock", "fcntl", "getlk"}

VARIABLES
  open,   \* the descriptors that are open
  lock,   \* the host's locks: the type each process has on each byte
  call,   \* the call each thread is in
  last,   \* how a call ended, in the state after its end
  temps,  \* how many temporary descriptors of statvfs() each process has
  held    \* history: the type of lock flock() last gave the process on the
          \* file, while nothing else of the process has touched its locks

vars == <<open, lock, call, last, temps, held>>

Types == {"un", "rd", "wr"}

Idle == [at |-> "idle", by |-> None, nb |-> FALSE, fd |-> None, file |-> None,
         type |-> "un", range |-> {}, err |-> "ok"]
Nothing == [by |-> None, nb |-> FALSE, type |-> "un", err |-> "ok"]

Init ==
  /\ open = {}
  /\ lock = [p \in Procs |-> [f \in Files |-> [b \in Bytes |-> "un"]]]
  /\ call = [t \in Threads |-> Idle] /\ last = Nothing
  /\ temps = [p \in Procs |-> 0]
  /\ held = [p \in Procs |-> [f \in Files |-> "un"]]

Go(t, c) == call' = [call EXCEPT ![t] = c] /\ last' = Nothing
Return(t, outcome) == call' = [call EXCEPT ![t] = Idle] /\ last' = outcome
Outcome(c, err) == [Nothing EXCEPT !.by = c.by, !.nb = c.nb, !.err = err]

-----------------------------------------------------------------------------
(* The host's record locks.                                                *)

Conflict(p, f, range, type) ==
  \E q \in Procs \ {p}, b \in range :
    \/ type = "wr" /\ lock[q][f][b] # "un"
    \/ type = "rd" /\ lock[q][f][b] = "wr"

Change(p, f, range, type) ==
  lock' = [lock EXCEPT
    ![p][f] = [b \in Bytes |-> IF b \in range THEN type ELSE lock[p][f][b]]]

(* What flock() gave stands until the process changes its locks otherwise. *)
Touched(p, f) == held' = [held EXCEPT ![p][f] = "un"]

Permitted(c) == c.fd \in open /\ (c.type = "wr" => c.fd \in Writable)

Grant(t, c) ==
  LET p == ProcOf[t] IN
  /\ Permitted(c) /\ ~Conflict(p, FdFile[c.fd], c.range, c.type)
  /\ Change(p, FdFile[c.fd], c.range, c.type)
  /\ held' = [held EXCEPT ![p][FdFile[c.fd]] =
                IF c.by = "flock" THEN c.type ELSE "un"]
  /\ Return(t, Outcome(c, "ok"))

Refuse(t, c, err) ==
  /\ Return(t, Outcome(c, err))
  /\ UNCHANGED <<lock, held>>

-----------------------------------------------------------------------------
(* __wamr_ext_fcntl().                                                     *)

SetLk(t, c, cmd) ==
  LET conflict == Conflict(ProcOf[t], FdFile[c.fd], c.range, c.type) IN
  /\ \/ Grant(t, c)
     \/ ~Permitted(c) /\ Refuse(t, c, "EBADF")
     \/ Permitted(c) /\ conflict /\ cmd = "setlk" /\ Refuse(t, c, "EAGAIN")
     \/ /\ Permitted(c) /\ conflict /\ cmd = "setlkw"
        /\ Go(t, [c EXCEPT !.at = "waits"])
        /\ UNCHANGED <<lock, held>>
  /\ UNCHANGED <<open, temps>>

(* A waiting call is granted, or the host ends the wait: EINTR, EDEADLK.   *)
Wake(t) ==
  LET c == call[t] IN
  /\ c.at = "waits"
  /\ \/ Grant(t, c)
     \/ "intr" \in Faults /\ Refuse(t, c, "EINTR")
  /\ UNCHANGED <<open, temps>>

(* The type of a lock in the way is copied to the program's struct.        *)
GetLk(t, fd, range, type) ==
  /\ call[t].at = "idle" /\ type # "un"
  /\ \/ /\ fd \in open
        /\ \E answer \in IF Conflict(ProcOf[t], FdFile[fd], range, type) THEN {"rd", "wr"} ELSE {"un"} :
             Return(t, [Nothing EXCEPT !.by = "getlk", !.type = answer])
     \/ fd \notin open /\ Return(t, [Nothing EXCEPT !.err = "EBADF"])
  /\ UNCHANGED <<open, lock, temps, held>>

Request(by, nb, fd, type, range) ==
  [Idle EXCEPT !.by = by, !.nb = nb, !.fd = fd, !.file = FdFile[fd],
               !.type = type, !.range = range]

Fcntl(t, fd, cmd, range, type) ==
  /\ call[t].at = "idle"
  /\ SetLk(t, Request("fcntl", FALSE, fd, type, range), cmd)

-----------------------------------------------------------------------------
(* flock(): l_len 0 from offset 0 is the whole file.                       *)

(* Mutant: the length is that of one byte.                                 *)
WholeFile_FirstByte == {CHOOSE b \in Bytes : TRUE}
WholeFile == Bytes

(* Mutant: the commands are swapped.                                       *)
Command_Swapped(nb) == IF nb THEN "setlkw" ELSE "setlk"
Command(nb) == IF nb THEN "setlk" ELSE "setlkw"

LockType(op) == CASE op = "LOCK_SH" -> "rd" [] op = "LOCK_EX" -> "wr"
                  [] op = "LOCK_UN" -> "un"

Flock(t, fd, op, nb) ==
  /\ call[t].at = "idle"
  /\ \/ /\ op \in {"LOCK_SH", "LOCK_EX", "LOCK_UN"}
        /\ SetLk(t, Request("flock", nb, fd, LockType(op), WholeFile),
                 Command(nb))
     \/ /\ op \notin {"LOCK_SH", "LOCK_EX", "LOCK_UN"}
        /\ Return(t, [Nothing EXCEPT !.err = "EINVAL"])
        /\ UNCHANGED <<open, lock, temps, held>>

-----------------------------------------------------------------------------
(* statvfs(): open, one host call, close.                                  *)

StatOpen(t, f) ==
  /\ call[t].at = "idle"
  /\ \/ /\ Go(t, [Idle EXCEPT !.at = "vfs", !.file = f])
        /\ temps' = [temps EXCEPT ![ProcOf[t]] = @ + 1]
     \/ Return(t, [Nothing EXCEPT !.err = "ENOENT"]) /\ UNCHANGED temps
  /\ UNCHANGED <<open, lock, held>>

(* Mutant: an error returns at once.                                       *)
AfterStat_Returns(err) == IF err = "ok" THEN "close" ELSE "idle"
AfterStat(err) == "close"

FStat(t) ==
  /\ call[t].at = "vfs"
  /\ \E err \in {"ok"} \cup IF "statvfs" \in Faults THEN {"EIO"} ELSE {} :
       Go(t, [call[t] EXCEPT !.at = AfterStat(err), !.err = err])
  /\ UNCHANGED <<open, lock, temps, held>>

StatClose(t) ==
  LET p == ProcOf[t] IN
  /\ call[t].at = "close"
  /\ temps' = [temps EXCEPT ![p] = @ - 1]
  /\ Change(p, call[t].file, Bytes, "un") /\ Touched(p, call[t].file)
  /\ Return(t, [Nothing EXCEPT !.err = call[t].err])
  /\ UNCHANGED open

-----------------------------------------------------------------------------
(* The program opens and closes descriptors.                               *)

Open(fd) ==
  /\ fd \notin open
  /\ open' = open \cup {fd} /\ last' = Nothing
  /\ UNCHANGED <<lock, call, temps, held>>

Close(fd) ==
  /\ fd \in open /\ \A t \in Threads : call[t].fd # fd
  /\ open' = open \ {fd} /\ last' = Nothing
  /\ Change(FdProc[fd], FdFile[fd], Bytes, "un")
  /\ Touched(FdProc[fd], FdFile[fd])
  /\ UNCHANGED <<call, temps>>

Next ==
  \/ \E t \in Threads :
       \/ \E fd \in {d \in Fds : FdProc[d] = ProcOf[t]} :
            \/ \E op \in {"LOCK_SH", "LOCK_EX", "LOCK_UN", "other"},
                  nb \in BOOLEAN : Flock(t, fd, op, nb)
            \/ \E range \in Ranges, type \in Types :
                 \/ GetLk(t, fd, range, type)
                 \/ \E cmd \in {"setlk", "setlkw"} :
                      Fcntl(t, fd, cmd, range, type)
       \/ \E f \in Files : StatOpen(t, f)
       \/ FStat(t) \/ StatClose(t) \/ Wake(t)
  \/ \E fd \in Fds : Open(fd) \/ Close(fd)

Spec == Init /\ [][Next]_vars

-----------------------------------------------------------------------------
Call == [at : {"idle", "waits", "vfs", "close"},
         by : {None, "flock", "fcntl"}, nb : BOOLEAN, fd : Fds \cup {None},
         file : Files \cup {None}, type : Types, range : SUBSET Bytes,
         err : {"ok", "EIO"}]

(* The types of the variables that calls read.                             *)
TypeOK ==
  /\ open \subseteq Fds
  /\ lock \in [Procs -> [Files -> [Bytes -> Types]]]
  /\ call \in [Threads -> Call]
  /\ held \in [Procs -> [Files -> Types]]

(* While a lock that flock() gave stands, no other process has a lock that *)
(* excludes it on any byte of the file, whether it came from flock() or    *)
(* from fcntl() (lines 147-149).                                           *)
FlockExcludes ==
  \A p \in Procs, f \in Files : \A q \in Procs \ {p}, b \in Bytes :
    /\ held[p][f] = "wr" => lock[q][f][b] = "un"
    /\ held[p][f] = "rd" => lock[q][f][b] # "wr"

(* flock() with LOCK_NB never waits, and without it never gives up because *)
(* somebody else has the lock (line 149).                                  *)
NonBlocking ==
  /\ \A t \in Threads :
       call[t].by = "flock" /\ call[t].at = "waits" => ~call[t].nb
  /\ last.by = "flock" /\ last.err = "EAGAIN" => last.nb

(* statvfs() leaves no descriptor behind, also when the host fails between *)
(* open() and close() (lines 47-52).                                       *)
DescriptorsAccounted ==
  \A p \in Procs :
    temps[p] = Cardinality({t \in Threads :
                 ProcOf[t] = p /\ call[t].at \in {"vfs", "close"}})

-----------------------------------------------------------------------------
(* Why FlockExcludes holds.                                                *)

(* The host's locks exclude one another byte by byte.                      *)
HostExcludes ==
  \A p \in Procs, f \in Files, b \in Bytes : \A q \in Procs \ {p} :
    lock[p][f][b] = "wr" => lock[q][f][b] = "un"

(* What flock() gave is what the host has, on every byte.                  *)
WholeFileLocked ==
  \A p \in Procs, f \in Files : held[p][f] # "un" =>
    \A b \in Bytes : lock[p][f][b] = held[p][f]

(* A call in progress concerns its own process, and one of flock() waits   *)
(* for every byte.                                                         *)
CallOwn(t) ==
  /\ call[t].at = "waits" =>
       /\ call[t].fd \in Fds /\ FdProc[call[t].fd] = ProcOf[t]
       /\ call[t].by = "flock" => call[t].range = Bytes
  /\ call[t].at \in {"vfs", "close"} => call[t].file \in Files

IInv ==
  /\ TypeOK /\ HostExcludes /\ WholeFileLocked
  /\ \A t \in Threads : CallOwn(t)
=============================================================================
