------------------------------ MODULE Process ------------------------------
(***************************************************************************)
(* popen(), pclose(), system(), wait() and waitpid() of                    *)
(* wamr-ext-libc/src/process.c, called by concurrent guest threads, and    *)
(* children the program makes with posix_spawn().                          *)
(*                                                                         *)
(* socketpair() is one atomic step here, as PairService promises, and the  *)
(* host's children are external: a child runs with the descriptors it was  *)
(* given until it exits, and is a zombie until somebody waits for it.      *)
(***************************************************************************)
EXTENDS Naturals

CONSTANTS
  Threads, Fds, Pids,
  Modes,      \* the popen() modes in use: "r", "w"
  Faults,     \* what may fail besides for want of descriptors and pids
  AnyoneWaits,\* whether threads also call wait() or waitpid()
  OwnSpawns,  \* whether they also call posix_spawn()
  Inherit,    \* whether a child keeps the guest's descriptors that are not
              \* close-on-exec; otherwise it has only those dup2'd for it
  Nothing     \* no descriptor, no process, no thread

ASSUME ProcessAssumption ==
  /\ Modes \subseteq {"r", "w"}
  /\ {AnyoneWaits, OwnSpawns, Inherit} \subseteq BOOLEAN
  /\ Nothing \notin Fds /\ Nothing \notin Pids /\ Nothing \notin Threads

VARIABLES
  pc,      \* where each thread is; "open" when it has a FILE of popen()
  mode,    \* the mode of its popen()
  near,    \* p[op], the end that goes into the FILE
  far,     \* p[1 - op], the end for the child
  pid,     \* its child: the local pid or the FILE's pipe_pid
  heap,    \* what its calls have allocated and not freed
  result,  \* how its last call ended
  open,    \* the guest's open descriptors
  cloexec, \* those with close-on-exec
  child,   \* the host's processes
  stolen   \* history: a wait() has reaped the child of popen() or system()

callVars == <<pc, mode, near, far, pid, heap, result>>
vars == <<pc, mode, near, far, pid, heap, result, open, cloexec, child, stolen>>

Stages == {"idle", "pair", "fdopen", "actions", "split", "spawn", "close_end", "cleanup",
           "open", "pclose_wait", "sys_split", "sys_spawn", "sys_wait"}

(* mate is the other end of the child's standard stream, held by the       *)
(* guest; holds are the descriptors the child keeps alive.  A child of     *)
(* posix_spawn() is nobody's in particular.                                *)
Child == [state : {"free", "running", "zombie"}, owner : Threads \cup {Nothing},
          kind : {"r", "w", "system", "own"}, mate : Fds \cup {Nothing}, holds : SUBSET Fds]
NoChild == [state |-> "free", owner |-> Nothing, kind |-> "system", mate |-> Nothing, holds |-> {}]

Init ==
  /\ pc = [t \in Threads |-> "idle"]
  /\ mode \in [Threads -> Modes]
  /\ near = [t \in Threads |-> Nothing]
  /\ far = [t \in Threads |-> Nothing]
  /\ pid = [t \in Threads |-> Nothing]
  /\ heap = [t \in Threads |-> {}]
  /\ result = [t \in Threads |-> "none"]
  /\ open = {} /\ cloexec = {}
  /\ child = [p \in Pids |-> NoChild]
  /\ stolen = FALSE

-----------------------------------------------------------------------------
(* The host.                                                               *)

Running(p) == child[p].state = "running"

(* A socket lives as long as the guest or a child holds it; its name is    *)
(* not given to another while a child depends on it.                       *)
Alive(f) == f \in open \/ \E p \in Pids : f \in child[p].holds
FreeFds == {f \in Fds : ~Alive(f) /\ \A p \in Pids : Running(p) => child[p].mate # f}

HostClose(fds) ==
  /\ open' = open \ fds
  /\ cloexec' = cloexec \ fds

(* A new child holds the end dup2'd for it and what it inherits.           *)
Spawned(t, kind) ==
  [state |-> "running", owner |-> t, kind |-> kind,
   mate |-> IF kind = "system" THEN Nothing ELSE near[t],
   holds |-> (IF kind = "system" THEN {} ELSE {far[t]})
             \cup (IF Inherit THEN open \ cloexec ELSE {})]
Own == [state |-> "running", owner |-> Nothing, kind |-> "own", mate |-> Nothing,
        holds |-> IF Inherit THEN open \ cloexec ELSE {}]

HostSpawn(t, kind) ==
  \E p \in Pids :
    /\ child[p].state = "free"
    /\ child' = [child EXCEPT ![p] = Spawned(t, kind)]
    /\ pid' = [pid EXCEPT ![t] = p]

SpawnFails == "spawn" \in Faults \/ \A p \in Pids : child[p].state # "free"

(* A child may exit at any time.  It certainly does when system() ran it,  *)
(* and when the other end of its standard stream is gone: at the end of    *)
(* its input, or when nobody reads its output.                             *)
ChildExit(p) ==
  /\ Running(p)
  /\ child' = [child EXCEPT ![p].state = "zombie", ![p].holds = {}]
  /\ UNCHANGED <<callVars, open, cloexec, stolen>>
MustExit(p) ==
  child[p].kind # "own" /\ (child[p].kind = "system" \/ ~Alive(child[p].mate))

-----------------------------------------------------------------------------
(* popen().                                                                *)

Goto(t, from, to) == pc[t] = from /\ pc' = [pc EXCEPT ![t] = to]
Forget(local, t) == local' = [local EXCEPT ![t] = Nothing]
Returns(t, r) == result' = [result EXCEPT ![t] = r]
host == <<open, cloexec, child, stolen>>

(* cmd, mode and cmd[0] were found valid.                                  *)
Popen(t) ==
  /\ Goto(t, "idle", "pair")
  /\ \E m \in Modes : mode' = [mode EXCEPT ![t] = m]
  /\ Returns(t, "none")
  /\ UNCHANGED <<near, far, pid, heap, host>>

(* Mutant: SOCK_CLOEXEC is not asked for.                                  *)
Cloexec_NotAsked(fd) == {}
Cloexec(fd) == {fd}

(* Mutant: socketpair()'s failure goes unnoticed.                          *)
PairFails_Ignored(t) == pc' = [pc EXCEPT ![t] = "fdopen"] /\ UNCHANGED result
PairFails(t) == pc' = [pc EXCEPT ![t] = "idle"] /\ Returns(t, "failed")

(* socketpair() gives close-on-exec to the socket it opens itself, p[1],   *)
(* as asked; accept() makes p[0] and is told nothing.                      *)
Pair(t) ==
  /\ pc[t] = "pair"
  /\ \/ \E accepted, opened \in FreeFds :
          /\ accepted # opened
          /\ near' = [near EXCEPT ![t] = IF mode[t] = "r" THEN accepted ELSE opened]
          /\ far' = [far EXCEPT ![t] = IF mode[t] = "r" THEN opened ELSE accepted]
          /\ open' = open \cup {accepted, opened}
          /\ cloexec' = cloexec \cup Cloexec(opened)
          /\ pc' = [pc EXCEPT ![t] = "fdopen"]
          /\ UNCHANGED result
     \/ /\ PairFails(t)
        /\ UNCHANGED <<near, far, open, cloexec>>
  /\ UNCHANGED <<mode, pid, heap, stolen, child>>

(* f = fdopen(p[op], mode); without memory both ends are closed.           *)
Fdopen(t) ==
  /\ pc[t] = "fdopen"
  /\ \/ /\ pc' = [pc EXCEPT ![t] = "actions"]
        /\ heap' = [heap EXCEPT ![t] = @ \cup {"FILE"}]
        /\ UNCHANGED <<near, far, result, open, cloexec>>
     \/ /\ "memory" \in Faults
        /\ pc' = [pc EXCEPT ![t] = "idle"]
        /\ HostClose({near[t], far[t]})
        /\ Forget(near, t) /\ Forget(far, t)
        /\ Returns(t, "failed")
        /\ UNCHANGED heap
  /\ UNCHANGED <<mode, pid, stolen, child>>

(* posix_spawn_file_actions_init() and _adddup2(), which allocates.        *)
Actions(t) ==
  /\ pc[t] = "actions"
  /\ \/ /\ pc' = [pc EXCEPT ![t] = "split"]
        /\ heap' = [heap EXCEPT ![t] = @ \cup {"fa"}]
     \/ /\ "memory" \in Faults
        /\ pc' = [pc EXCEPT ![t] = "cleanup"]
        /\ UNCHANGED heap
  /\ UNCHANGED <<mode, near, far, pid, result, host>>

(* What __process_split_cmdline() allocates: the array, and the strings of *)
(* the arguments before and behind the first one that strdup() could not   *)
(* make, whose place is NULL.  Without the first the command has no name.  *)
Argvs ==
  {{"argv", "before"}} \cup
  (IF "strdup" \in Faults THEN {{"argv"} \cup s : s \in SUBSET {"before", "behind"}} ELSE {})

(* Mutant: the array is freed without the strings.                         *)
FreeArgv_ArrayOnly(blocks) == blocks \ {"argv"}
(* __process_free_argv() takes the first NULL for the end of argv.         *)
FreeArgv(blocks) == blocks \ {"argv", "before"}

(* argv stays NULL for want of memory or when the line holds no argument.  *)
Split(t) ==
  /\ pc[t] = "split"
  /\ \/ /\ pc' = [pc EXCEPT ![t] = "spawn"]
        /\ \E a \in Argvs : heap' = [heap EXCEPT ![t] = @ \cup a]
     \/ /\ "argv" \in Faults
        /\ pc' = [pc EXCEPT ![t] = "cleanup"]
        /\ heap' = [heap EXCEPT ![t] = @ \ {"fa"}]
  /\ UNCHANGED <<mode, near, far, pid, result, host>>

(* posix_spawnp() refuses a command without a name, EINVAL.                *)
HasName(t) == "before" \in heap[t]

(* posix_spawnp(); then the actions and argv are freed either way.         *)
Spawn(t) ==
  /\ pc[t] = "spawn"
  /\ \/ /\ HasName(t) /\ HostSpawn(t, mode[t])
        /\ pc' = [pc EXCEPT ![t] = "close_end"]
     \/ /\ ~HasName(t) \/ SpawnFails
        /\ pc' = [pc EXCEPT ![t] = "cleanup"]
        /\ UNCHANGED <<pid, child>>
  /\ heap' = [heap EXCEPT ![t] = FreeArgv(@ \ {"fa"})]
  /\ UNCHANGED <<mode, near, far, result, stolen, open, cloexec>>

(* Mutant: the child's end stays open in the guest.                        *)
CloseEnd_Forgotten(t) ==
  /\ Goto(t, "close_end", "open")
  /\ Returns(t, "popened")
  /\ UNCHANGED <<mode, near, far, pid, heap, stolen, host>>
(* close(p[1 - op]); return f.                                             *)
CloseEnd(t) ==
  /\ Goto(t, "close_end", "open")
  /\ HostClose({far[t]})
  /\ Forget(far, t)
  /\ Returns(t, "popened")
  /\ UNCHANGED <<mode, near, pid, heap, stolen, child>>

(* fclose(f); close(p[1 - op]); return NULL.                               *)
Cleanup(t) ==
  /\ Goto(t, "cleanup", "idle")
  /\ HostClose({near[t], far[t]})
  /\ Forget(near, t) /\ Forget(far, t)
  /\ heap' = [heap EXCEPT ![t] = @ \ {"FILE"}]
  /\ Returns(t, "failed")
  /\ UNCHANGED <<mode, pid, stolen, child>>

-----------------------------------------------------------------------------
(* pclose(), system() and wait().                                          *)

(* Mutant: pclose() waits first.                                           *)
Pclose_WaitsFirst(t) ==
  /\ Goto(t, "open", "pclose_wait")
  /\ heap' = [heap EXCEPT ![t] = @ \ {"FILE"}]
  /\ UNCHANGED <<mode, near, far, pid, result, host>>
(* pclose() first closes its end, so that the child sees the end.          *)
Pclose(t) ==
  /\ Goto(t, "open", "pclose_wait")
  /\ HostClose({near[t]})
  /\ Forget(near, t)
  /\ heap' = [heap EXCEPT ![t] = @ \ {"FILE"}]
  /\ UNCHANGED <<mode, far, pid, result, stolen, child>>

System(t) ==
  /\ Goto(t, "idle", "sys_split")
  /\ Returns(t, "none")
  /\ UNCHANGED <<mode, near, far, pid, heap, host>>

SystemSplit(t) ==
  /\ pc[t] = "sys_split"
  /\ \/ /\ pc' = [pc EXCEPT ![t] = "sys_spawn"]
        /\ \E a \in Argvs : heap' = [heap EXCEPT ![t] = @ \cup a]
        /\ UNCHANGED result
     \/ /\ "argv" \in Faults
        /\ pc' = [pc EXCEPT ![t] = "idle"]
        /\ Returns(t, "failed")
        /\ UNCHANGED heap
  /\ UNCHANGED <<mode, near, far, pid, stolen, host>>

(* ENOENT becomes the shell's 127, any other error -1; argv is freed.      *)
SystemSpawn(t) ==
  /\ pc[t] = "sys_spawn"
  /\ \/ /\ HasName(t) /\ HostSpawn(t, "system")
        /\ pc' = [pc EXCEPT ![t] = "sys_wait"]
        /\ UNCHANGED result
     \/ /\ \/ HasName(t) /\ SpawnFails /\ \E r \in {"failed", "127"} : Returns(t, r)
           \/ ~HasName(t) /\ Returns(t, "failed")
        /\ pc' = [pc EXCEPT ![t] = "idle"]
        /\ UNCHANGED <<pid, child>>
  /\ heap' = [heap EXCEPT ![t] = FreeArgv(@)]
  /\ UNCHANGED <<mode, near, far, stolen, open, cloexec>>

Reap(p) == child' = [child EXCEPT ![p] = NoChild]

EndWait(t, r) ==
  /\ Returns(t, r)
  /\ Forget(pid, t)
  /\ pc' = [pc EXCEPT ![t] = "idle"]

(* Mutant: pclose() and system() give up when a signal interrupts them.    *)
Interrupted_GivesUp(t) == EndWait(t, "failed")
Interrupted(t) == UNCHANGED <<pc, pid, result>>

(* Mutant: pclose() and system() wait for any child.                       *)
Awaited_Any(t) == Pids
Awaited(t) == {pid[t]}

(* waitpid(pid, &status, 0) of pclose() and system(), repeated while a     *)
(* signal interrupts it.  The pid may be nobody's by now, or another's.    *)
(* Without a child both return -1: the status of system() starts as that.  *)
WaitOwn(t) ==
  /\ pc[t] \in {"pclose_wait", "sys_wait"}
  /\ \/ \E p \in Awaited(t) :
          /\ child[p].state = "zombie"
          /\ Reap(p)
          /\ EndWait(t, IF child[p].owner = t THEN "status" ELSE "other")
     \/ /\ \A p \in Awaited(t) : child[p].state = "free"
        /\ EndWait(t, "failed")
        /\ UNCHANGED child
     \/ /\ "signal" \in Faults
        /\ Interrupted(t)
        /\ UNCHANGED child
  /\ UNCHANGED <<mode, near, far, heap, stolen, open, cloexec>>

(* wait() takes any child, waitpid() the one it is told, whoever made it.  *)
(* Neither changes anything when it is interrupted, when there is no such  *)
(* child, when the child runs on and WNOHANG was given, or when stat_loc   *)
(* is NULL.                                                                *)
WaitAny(t) ==
  /\ AnyoneWaits
  /\ pc[t] = "idle"
  /\ \E p \in Pids :
       /\ child[p].state = "zombie"
       /\ Reap(p)
       /\ stolen' = (stolen \/ child[p].owner # Nothing)
  /\ UNCHANGED <<pc, mode, near, far, pid, heap, result, open, cloexec>>

(* posix_spawn() by the program itself, without file actions.              *)
SpawnOwn(t) ==
  /\ OwnSpawns /\ pc[t] = "idle"
  /\ \E p \in Pids : child[p].state = "free" /\ child' = [child EXCEPT ![p] = Own]
  /\ UNCHANGED <<callVars, open, cloexec, stolen>>

Step(t) ==
  \/ Pair(t) \/ Fdopen(t) \/ Actions(t) \/ Split(t) \/ Spawn(t) \/ CloseEnd(t) \/ Cleanup(t)
  \/ SystemSplit(t) \/ SystemSpawn(t) \/ WaitOwn(t)

Next ==
  \/ \E t \in Threads :
       Popen(t) \/ Pclose(t) \/ System(t) \/ WaitAny(t) \/ SpawnOwn(t) \/ Step(t)
  \/ \E p \in Pids : ChildExit(p)

Spec == Init /\ [][Next]_vars

(* The host schedules every thread, and ends every child that must end.    *)
(* A program need not close what it opened.                                *)
Fairness ==
  /\ \A t \in Threads : WF_vars(Step(t))
  /\ \A p \in Pids : WF_vars(ChildExit(p) /\ MustExit(p))

FairSpec == Spec /\ Fairness

-----------------------------------------------------------------------------
(* Properties.                                                             *)

TypeOK ==
  /\ pc \in [Threads -> Stages]
  /\ mode \in [Threads -> {"r", "w"}]
  /\ near \in [Threads -> Fds \cup {Nothing}]
  /\ far \in [Threads -> Fds \cup {Nothing}]
  /\ pid \in [Threads -> Pids \cup {Nothing}]
  /\ heap \in [Threads -> SUBSET {"FILE", "fa", "argv", "before", "behind"}]
  /\ result \in [Threads -> {"none", "popened", "status", "other", "failed", "127"}]
  /\ stolen \in BOOLEAN
  /\ open \subseteq Fds /\ cloexec \subseteq open
  /\ child \in [Pids -> Child]

Ends(t) ==
  CASE pc[t] \in {"fdopen", "actions", "split", "spawn", "close_end", "cleanup"} -> {near[t], far[t]}
    [] pc[t] = "open" -> {near[t]}
    [] OTHER -> {}

(* Whatever fails on the way, popen() gives back both ends of its pair, or *)
(* keeps the FILE's and closes the child's; no end is closed twice or      *)
(* shared, with any interleaving of calls.                                 *)
EndsAccounted ==
  /\ open = UNION {Ends(t) : t \in Threads}
  /\ \A t, u \in Threads : t # u => Ends(t) \cap Ends(u) = {}

(* Whatever fails, popen(), pclose() and system() free all they have       *)
(* allocated, save the FILE that a successful popen() keeps, and save one  *)
(* thing that they do lose: the strings behind an argument for which       *)
(* strdup() had no memory (lines 27 and 34, LostBehindNull of              *)
(* SplitCmdline).  Where strdup() does not fail nothing is left.           *)
Lost == IF "strdup" \in Faults THEN {"behind"} ELSE {}
NothingLeft ==
  \A t \in Threads :
    /\ pc[t] \in {"idle", "pclose_wait", "sys_wait"} => heap[t] \subseteq Lost
    /\ pc[t] = "open" => heap[t] \subseteq {"FILE"} \cup Lost /\ "FILE" \in heap[t]

(* Every child of theirs not reaped yet is one some call or FILE will      *)
(* still wait for: popen() and system() leave no orphan and no zombie,     *)
(* even when signals interrupt the waiting.                                *)
ChildrenAccounted ==
  \A p \in Pids :
    child[p].state # "free" /\ child[p].owner # Nothing =>
      LET t == child[p].owner IN
      /\ pc[t] \in {"close_end", "open", "pclose_wait", "sys_wait"}
      /\ pid[t] = p

(* pclose() and system() return the status of their own child, as long as  *)
(* nobody calls wait(): once a wait() has reaped such a child its pid can  *)
(* be a new child's, which is then waited for in its place.                *)
StatusIsOwn == \A t \in Threads : result[t] = "other" => stolen

(* As long as no wait() takes such a child, pclose() and system() stop     *)
(* waiting for one reason only, that their own child has ended, never with *)
(* -1; and nobody else reaps it, although pids are used again and other    *)
(* threads wait at the same time (lines 137-146, 159-161).                 *)
Waiting(t) == pc[t] \in {"pclose_wait", "sys_wait"}
StopsWaiting(t) == Waiting(t) /\ ~Waiting(t)'
Reaps(p, t) == child[p].owner = t /\ child'[p] = NoChild
AnswersOwn ==
  [][\A t \in Threads :
       /\ StopsWaiting(t) /\ ~stolen => Reaps(pid[t], t) /\ result'[t] = "status"
       /\ (\E p \in Pids : Reaps(p, t)) /\ ~stolen' => StopsWaiting(t)]_vars

(* system() returns, and pclose() returns once called: closing its end     *)
(* before waiting ends the child.                                          *)
WaitReturns == \A t \in Threads : pc[t] \in {"pclose_wait", "sys_wait"} ~> pc[t] = "idle"

(* Where a child has no descriptor of the guest that it should not have,   *)
(* whoever is waited for will end: system()'s children by assumption, and  *)
(* popen()'s because the guest and all children, also those of other       *)
(* threads, have let go of the other end of its stream (lines 104, 140).   *)
WaitedForEnds ==
  ~Inherit \/ Modes = {"w"} =>
    \A p \in Pids :
      /\ Running(p) /\ child[p].kind # "own"
      /\ pc[child[p].owner] \in {"pclose_wait", "sys_wait"}
      => MustExit(p)

-----------------------------------------------------------------------------
(* Why the safety properties hold: with them, an inductive invariant.      *)

(* The two ends of a pair that is still whole.                             *)
EndsValid ==
  \A t \in Threads :
    /\ pc[t] \in {"fdopen", "actions", "split", "spawn", "close_end", "cleanup"} =>
         near[t] # Nothing /\ far[t] # Nothing /\ near[t] # far[t]
    /\ pc[t] = "open" => near[t] # Nothing

HeapAt ==
  \A t \in Threads :
    /\ heap[t] \ {"before", "behind"} =
         CASE pc[t] \in {"actions", "close_end", "cleanup", "open"} -> {"FILE"}
           [] pc[t] = "split" -> {"FILE", "fa"}
           [] pc[t] = "spawn" -> {"FILE", "fa", "argv"}
           [] pc[t] = "sys_spawn" -> {"argv"}
           [] OTHER -> {}
    /\ "before" \in heap[t] => pc[t] \in {"spawn", "sys_spawn"}
    /\ "behind" \in heap[t] => "strdup" \in Faults

(* Without a wait(), the pid a thread remembers is its child's.            *)
HasChild(t) == pc[t] \in {"close_end", "open", "pclose_wait", "sys_wait"}
PidIsOwn ==
  ~stolen => \A t \in Threads :
    HasChild(t) => /\ pid[t] # Nothing
                   /\ child[pid[t]].state # "free" /\ child[pid[t]].owner = t

(* The FILE's end of a pair is never a child's; it has close-on-exec where *)
(* that is what keeps it from them.                                        *)
HasEnd(t) ==
  pc[t] \in {"fdopen", "actions", "split", "spawn", "close_end", "cleanup", "open"}
NearKept ==
  \A t \in Threads : HasEnd(t) =>
    /\ \A p \in Pids : near[t] \notin child[p].holds
    /\ Inherit => near[t] \in cloexec

(* A running child's other end is nobody's but its FILE's, and while the   *)
(* child runs no other descriptor has its name.                            *)
MateKept ==
  \A p \in Pids : Running(p) /\ child[p].kind \in {"r", "w"} =>
    /\ \A q \in Pids : child[p].mate \notin child[q].holds
    /\ child[p].mate \in open =>
         /\ pc[child[p].owner] \in {"close_end", "open"}
         /\ child[p].mate = near[child[p].owner]

Kept ==
  /\ mode \in [Threads -> Modes]
  /\ \A p \in Pids : Running(p) /\ child[p].kind # "own" => child[p].owner \in Threads
  /\ NearKept /\ MateKept

IInv ==
  /\ TypeOK /\ EndsAccounted /\ EndsValid /\ HeapAt /\ ChildrenAccounted
  /\ PidIsOwn /\ StatusIsOwn

-----------------------------------------------------------------------------
(* popen() counts on no more than PairService promises, which SocketPair   *)
(* implements: Pair is one step of it that succeeds or fails, its other    *)
(* steps close ends that it still has, each end once, and the two ends it  *)
(* has are each other's.                                                   *)
PairStatus(t) == IF pc[t] = "pair" THEN "busy" ELSE IF Ends(t) = {} THEN "idle" ELSE "ok"
Peers(f) == {g \in Fds \ {f} : \E t \in Threads : {f, g} \subseteq Ends(t)}

Pairs == INSTANCE PairService WITH
  status <- [t \in Threads |-> PairStatus(t)],
  stream <- [t \in Threads |-> TRUE],
  ends <- [t \in Threads |-> Ends(t)],
  link <- [f \in Fds |-> Peers(f)]
UsesPairService == Pairs!Spec
=============================================================================
