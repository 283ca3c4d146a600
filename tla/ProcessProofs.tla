--------------------------- MODULE ProcessProofs ---------------------------
(***************************************************************************)
(* Proofs about Process, for every set of threads, descriptors and pids    *)
(* and every set of faults, with or without wait() and inheritance.        *)
(***************************************************************************)
EXTENDS Process, TLAPS

USE ProcessAssumption

ThreadStep(t) ==
  Popen(t) \/ Pclose(t) \/ System(t) \/ WaitAny(t) \/ SpawnOwn(t) \/ Step(t)

(* What every step of a thread leaves alone.                               *)
Frame(t) ==
  /\ \A u \in Threads : u # t =>
       /\ pc'[u] = pc[u] /\ near'[u] = near[u] /\ far'[u] = far[u]
       /\ pid'[u] = pid[u] /\ heap'[u] = heap[u] /\ result'[u] = result[u]

LEMMA StepFrame ==
  ASSUME TypeOK, NEW t \in Threads, ThreadStep(t)
  PROVE  Frame(t)
<1> USE DEF TypeOK, Frame, Goto, Returns, Forget
<1>1. CASE Popen(t) BY <1>1 DEF Popen
<1>2. CASE Pair(t) BY <1>2 DEF Pair, PairFails
<1>3. CASE Fdopen(t) BY <1>3 DEF Fdopen
<1>4. CASE Actions(t) BY <1>4 DEF Actions
<1>5. CASE Split(t) BY <1>5 DEF Split
<1>6. CASE Spawn(t) BY <1>6 DEF Spawn, HostSpawn
<1>7. CASE CloseEnd(t) BY <1>7 DEF CloseEnd
<1>8. CASE Cleanup(t) BY <1>8 DEF Cleanup
<1>9. CASE Pclose(t) BY <1>9 DEF Pclose
<1>10. CASE System(t) BY <1>10 DEF System
<1>11. CASE SystemSplit(t) BY <1>11 DEF SystemSplit
<1>12. CASE SystemSpawn(t) BY <1>12 DEF SystemSpawn, HostSpawn
<1>13. CASE WaitOwn(t) BY <1>13 DEF WaitOwn, EndWait, Interrupted
<1>14. CASE WaitAny(t) BY <1>14 DEF WaitAny
<1>15. CASE SpawnOwn(t) BY <1>15 DEF SpawnOwn, callVars
<1> QED BY <1>1, <1>2, <1>3, <1>4, <1>5, <1>6, <1>7, <1>8, <1>9, <1>10, <1>11, <1>12,
           <1>13, <1>14, <1>15 DEF ThreadStep, Step

-----------------------------------------------------------------------------
(* Types.                                                                  *)

LEMMA NoChildType == NoChild \in Child
  BY DEF Child, NoChild

LEMMA OwnType == ASSUME TypeOK PROVE Own \in Child
<1>1. (IF Inherit THEN open \ cloexec ELSE {}) \in SUBSET Fds
  BY DEF TypeOK
<1> QED BY <1>1 DEF Own, Child

LEMMA ZombieType ==
  ASSUME NEW c \in Child
  PROVE  [c EXCEPT !.state = "zombie", !.holds = {}] \in Child
  BY DEF Child

LEMMA SpawnedType ==
  ASSUME TypeOK, NEW t \in Threads, NEW kind \in {"r", "w", "system"},
         kind # "system" => far[t] \in Fds
  PROVE  Spawned(t, kind) \in Child
<1>1. CASE kind = "system"
  BY <1>1 DEF TypeOK, Spawned, Child
<1>2. CASE kind # "system"
  <2>1. near[t] \in Fds \cup {Nothing} /\ far[t] \in Fds
    BY <1>2 DEF TypeOK
  <2>2. {far[t]} \cup (IF Inherit THEN open \ cloexec ELSE {}) \in SUBSET Fds
    BY <2>1 DEF TypeOK
  <2> QED BY <1>2, <2>1, <2>2 DEF Spawned, Child
<1> QED BY <1>1, <1>2

(* What the splitter leaves allocated.                                     *)
LEMMA ArgvsAre ==
  ASSUME NEW a \in Argvs
  PROVE  /\ a \subseteq {"argv", "before", "behind"} /\ "argv" \in a
         /\ "behind" \in a => "strdup" \in Faults
  BY DEF Argvs

LEMMA TypeStep ==
  ASSUME TypeOK, EndsValid, [Next]_vars
  PROVE  TypeOK'
<1> USE DEF TypeOK, Stages, Goto, Returns, Forget, host
<1>1. ASSUME NEW t \in Threads, Popen(t) PROVE TypeOK'
  BY <1>1 DEF Popen
<1>2. ASSUME NEW t \in Threads, Pair(t) PROVE TypeOK'
  BY <1>2 DEF Pair, PairFails, FreeFds, Cloexec
<1>3. ASSUME NEW t \in Threads, Fdopen(t) PROVE TypeOK'
  BY <1>3 DEF Fdopen, HostClose
<1>4. ASSUME NEW t \in Threads, Actions(t) PROVE TypeOK'
  BY <1>4 DEF Actions
<1>5. ASSUME NEW t \in Threads, Split(t) PROVE TypeOK'
  <2>1. (\E a \in Argvs : heap' = [heap EXCEPT ![t] = @ \cup a]) \/ heap' = [heap EXCEPT ![t] = @ \ {"fa"}]
    BY <1>5 DEF Split
  <2>2. \A a \in Argvs : a \subseteq {"argv", "before", "behind"}
    BY ArgvsAre
  <2>3. heap' \in [Threads -> SUBSET {"FILE", "fa", "argv", "before", "behind"}]
    BY <2>1, <2>2
  <2>4. pc' \in [Threads -> Stages] /\ UNCHANGED <<mode, near, far, pid, result, open, cloexec, child, stolen>>
    BY <1>5 DEF Split
  <2> QED BY <2>3, <2>4
<1>6. ASSUME NEW t \in Threads, Spawn(t) PROVE TypeOK'
  <2>1. Spawned(t, mode[t]) \in Child
    BY <1>6, SpawnedType DEF Spawn, EndsValid
  <2>2. heap' \in [Threads -> SUBSET {"FILE", "fa", "argv", "before", "behind"}]
    BY <1>6 DEF Spawn, FreeArgv
  <2>3. pc' \in [Threads -> Stages] /\ UNCHANGED <<mode, near, far, result, open, cloexec, stolen>>
    BY <1>6 DEF Spawn
  <2>4. pid' \in [Threads -> Pids \cup {Nothing}] /\ child' \in [Pids -> Child]
    BY <1>6, <2>1 DEF Spawn, HostSpawn
  <2> QED BY <2>2, <2>3, <2>4
<1>7. ASSUME NEW t \in Threads, CloseEnd(t) PROVE TypeOK'
  BY <1>7 DEF CloseEnd, HostClose
<1>8. ASSUME NEW t \in Threads, Cleanup(t) PROVE TypeOK'
  BY <1>8 DEF Cleanup, HostClose
<1>9. ASSUME NEW t \in Threads, Pclose(t) PROVE TypeOK'
  BY <1>9 DEF Pclose, HostClose
<1>10. ASSUME NEW t \in Threads, System(t) PROVE TypeOK'
  BY <1>10 DEF System
<1>11. ASSUME NEW t \in Threads, SystemSplit(t) PROVE TypeOK'
  <2>1. (\E a \in Argvs : heap' = [heap EXCEPT ![t] = @ \cup a]) \/ heap' = heap
    BY <1>11 DEF SystemSplit
  <2>2. \A a \in Argvs : a \subseteq {"argv", "before", "behind"}
    BY ArgvsAre
  <2>3. heap' \in [Threads -> SUBSET {"FILE", "fa", "argv", "before", "behind"}]
    BY <2>1, <2>2
  <2>4. /\ pc' \in [Threads -> Stages] /\ UNCHANGED <<mode, near, far, pid, open, cloexec, child, stolen>>
        /\ result' \in [Threads -> {"none", "popened", "status", "other", "failed", "127"}]
    BY <1>11 DEF SystemSplit
  <2> QED BY <2>3, <2>4
<1>12. ASSUME NEW t \in Threads, SystemSpawn(t) PROVE TypeOK'
  <2>1. Spawned(t, "system") \in Child
    BY SpawnedType
  <2>2. heap' \in [Threads -> SUBSET {"FILE", "fa", "argv", "before", "behind"}]
    BY <1>12 DEF SystemSpawn, FreeArgv
  <2>3. /\ pc' \in [Threads -> Stages] /\ UNCHANGED <<mode, near, far, open, cloexec, stolen>>
        /\ result' \in [Threads -> {"none", "popened", "status", "other", "failed", "127"}]
    BY <1>12 DEF SystemSpawn
  <2>4. pid' \in [Threads -> Pids \cup {Nothing}] /\ child' \in [Pids -> Child]
    BY <1>12, <2>1 DEF SystemSpawn, HostSpawn
  <2> QED BY <2>2, <2>3, <2>4
<1>13. ASSUME NEW t \in Threads, WaitOwn(t) PROVE TypeOK'
  BY <1>13, NoChildType DEF WaitOwn, EndWait, Interrupted, Reap
<1>14. ASSUME NEW t \in Threads, WaitAny(t) PROVE TypeOK'
  BY <1>14, NoChildType DEF WaitAny, Reap
<1>15. ASSUME NEW p \in Pids, ChildExit(p) PROVE TypeOK'
  <2>1. child' \in [Pids -> Child]
    <3>1. child'[p] = [child[p] EXCEPT !.state = "zombie", !.holds = {}]
      BY <1>15 DEF ChildExit
    <3>2. child[p] \in Child
      OBVIOUS
    <3>3. child'[p] \in Child
      BY <3>1, <3>2, ZombieType
    <3> QED BY <1>15, <3>3 DEF ChildExit
  <2> QED BY <1>15, <2>1 DEF ChildExit, callVars
<1>16. CASE UNCHANGED vars
  BY <1>16 DEF vars
<1>17. ASSUME NEW t \in Threads, SpawnOwn(t) PROVE TypeOK'
  BY <1>17, OwnType DEF SpawnOwn, callVars
<1> QED BY <1>1, <1>2, <1>3, <1>4, <1>5, <1>6, <1>7, <1>8, <1>9, <1>10, <1>11, <1>12,
           <1>13, <1>14, <1>15, <1>16, <1>17 DEF Next, Step

-----------------------------------------------------------------------------
(* Descriptors.                                                            *)

LEMMA Trade ==
  ASSUME EndsAccounted, NEW t \in Threads, Frame(t),
         open' = (open \ Ends(t)) \cup Ends(t)',
         Ends(t)' \cap (open \ Ends(t)) = {}
  PROVE  EndsAccounted'
<1>1. \A u \in Threads : u # t => Ends(u)' = Ends(u)
  BY DEF Frame, Ends
<1>2. \A u \in Threads : u # t => Ends(u) \subseteq open \ Ends(t)
  BY DEF EndsAccounted
<1>3. ASSUME NEW u \in Threads, NEW v \in Threads, u # v
      PROVE  Ends(u)' \cap Ends(v)' = {}
  <2>1. CASE u = t BY <1>1, <1>2, <1>3, <2>1
  <2>2. CASE v = t BY <1>1, <1>2, <1>3, <2>2
  <2>3. CASE u # t /\ v # t BY <1>1, <1>3, <2>3 DEF EndsAccounted
  <2> QED BY <2>1, <2>2, <2>3
<1>4. ASSUME NEW f \in open' PROVE \E u \in Threads : f \in Ends(u)'
  BY <1>1 DEF EndsAccounted
<1>5. ASSUME NEW u \in Threads, NEW f \in Ends(u)' PROVE f \in open'
  BY <1>1, <1>2
<1> QED BY <1>3, <1>4, <1>5 DEF EndsAccounted

(* A step that opens and closes nothing, between stages that account for   *)
(* the same ends.                                                          *)
LEMMA Keep ==
  ASSUME EndsAccounted, NEW t \in Threads, Frame(t), open' = open, Ends(t)' = Ends(t)
  PROVE  EndsAccounted'
<1>1. Ends(t) \subseteq open
  BY DEF EndsAccounted
<1> QED BY <1>1, Trade

LEMMA EndsStep ==
  ASSUME IInv, NEW t \in Threads, ThreadStep(t)
  PROVE  EndsAccounted' /\ EndsValid'
<1>1. TypeOK /\ EndsAccounted /\ EndsValid /\ Frame(t) /\ Ends(t) \subseteq open
  BY StepFrame DEF IInv, EndsAccounted
<1>2. ASSUME \/ pc'[t] \in {"idle", "pair", "pclose_wait", "sys_split", "sys_spawn", "sys_wait"}
             \/ near'[t] = near[t] /\ far'[t] = far[t] /\ near[t] # Nothing
                /\ far[t] # Nothing /\ near[t] # far[t]
             \/ pc'[t] = "open" /\ near'[t] = near[t] /\ near[t] # Nothing
      PROVE  EndsValid'
  BY <1>1, <1>2 DEF EndsValid, Frame
<1> USE DEF TypeOK, Goto, Returns, Forget, host
<1>3. CASE Popen(t) \/ System(t) \/ SystemSplit(t) \/ SystemSpawn(t) \/ WaitOwn(t)
  <2>1. open' = open /\ Ends(t)' = {} /\ Ends(t) = {}
    BY <1>1, <1>3 DEF Popen, System, SystemSplit, SystemSpawn, WaitOwn, EndWait, Interrupted, Ends
  <2>2. pc'[t] \in {"idle", "pair", "pclose_wait", "sys_split", "sys_spawn", "sys_wait"}
    BY <1>1, <1>3 DEF Popen, System, SystemSplit, SystemSpawn, WaitOwn, EndWait, Interrupted
  <2> QED BY <1>1, <1>2, <2>1, <2>2, Keep
<1>4. CASE WaitAny(t) \/ SpawnOwn(t)
  <2>1. open' = open /\ Ends(t)' = Ends(t) /\ EndsValid'
    BY <1>1, <1>4 DEF WaitAny, SpawnOwn, callVars, Ends, EndsValid
  <2> QED BY <1>1, <2>1, Keep
<1>5. CASE Pair(t)
  <2>1. CASE pc' = [pc EXCEPT ![t] = "idle"] /\ UNCHANGED <<near, far, open, cloexec>>
    <3>1. open' = open /\ Ends(t)' = {} /\ Ends(t) = {} /\ pc'[t] = "idle"
      BY <1>1, <1>5, <2>1 DEF Pair, PairFails, Ends
    <3> QED BY <1>1, <1>2, <3>1, Keep
  <2>2. CASE pc' = [pc EXCEPT ![t] = "fdopen"]
    <3>1. PICK a \in FreeFds, b \in FreeFds :
            /\ a # b /\ open' = open \cup {a, b}
            /\ near' = [near EXCEPT ![t] = IF mode[t] = "r" THEN a ELSE b]
            /\ far' = [far EXCEPT ![t] = IF mode[t] = "r" THEN b ELSE a]
      BY <1>1, <1>5, <2>2 DEF Pair, PairFails
    <3>2. a \in Fds /\ b \in Fds /\ a \notin open /\ b \notin open
      BY DEF FreeFds, Alive
    <3>3. Ends(t) = {} /\ Ends(t)' = {a, b}
      BY <1>1, <1>5, <2>2, <3>1 DEF Pair, PairFails, Ends
    <3>4. EndsValid'
      BY <1>1, <2>2, <3>1, <3>2 DEF EndsValid, Frame
    <3> QED BY <1>1, <3>1, <3>2, <3>3, <3>4, Trade
  <2> QED BY <1>5, <2>1, <2>2 DEF Pair, PairFails
<1>6. CASE /\ Fdopen(t) \/ Actions(t) \/ Split(t) \/ Spawn(t)
           /\ pc'[t] # "idle"
  <2>1. /\ open' = open /\ near'[t] = near[t] /\ far'[t] = far[t]
        /\ pc[t] \in {"fdopen", "actions", "split", "spawn"}
        /\ pc'[t] \in {"actions", "split", "spawn", "close_end", "cleanup"}
    BY <1>1, <1>6 DEF Fdopen, Actions, Split, Spawn
  <2>2. Ends(t)' = Ends(t)
    BY <2>1 DEF Ends
  <2>3. near[t] # Nothing /\ far[t] # Nothing /\ near[t] # far[t]
    BY <1>1, <2>1 DEF EndsValid
  <2> QED BY <1>1, <1>2, <2>1, <2>2, <2>3, Keep
<1>7. CASE Cleanup(t) \/ (Fdopen(t) /\ pc'[t] = "idle")
  <2>1. /\ open' = open \ {near[t], far[t]} /\ pc'[t] = "idle"
        /\ pc[t] \in {"fdopen", "cleanup"}
    BY <1>1, <1>7 DEF Cleanup, Fdopen, HostClose
  <2>2. Ends(t) = {near[t], far[t]} /\ Ends(t)' = {}
    BY <2>1 DEF Ends
  <2> QED BY <1>1, <1>2, <2>1, <2>2, Trade
<1>8. CASE CloseEnd(t)
  <2>1. /\ open' = open \ {far[t]} /\ pc[t] = "close_end" /\ pc'[t] = "open"
        /\ near'[t] = near[t]
    BY <1>1, <1>8 DEF CloseEnd, HostClose
  <2>2. Ends(t) = {near[t], far[t]} /\ Ends(t)' = {near[t]} /\ near[t] # far[t] /\ near[t] # Nothing
    BY <1>1, <2>1 DEF Ends, EndsValid
  <2> QED BY <1>1, <1>2, <2>1, <2>2, Trade
<1>9. CASE Pclose(t)
  <2>1. open' = open \ {near[t]} /\ pc[t] = "open" /\ pc'[t] = "pclose_wait"
    BY <1>1, <1>9 DEF Pclose, HostClose
  <2>2. Ends(t) = {near[t]} /\ Ends(t)' = {}
    BY <2>1 DEF Ends
  <2> QED BY <1>1, <1>2, <2>1, <2>2, Trade
<1>10. pc'[t] # "idle" \/ ~(Actions(t) \/ Split(t) \/ Spawn(t))
  BY <1>1 DEF Actions, Split, Spawn
<1> QED BY <1>3, <1>4, <1>5, <1>6, <1>7, <1>8, <1>9, <1>10 DEF ThreadStep, Step

LEMMA ExitEnds ==
  ASSUME EndsAccounted, EndsValid, UNCHANGED <<pc, near, far, open>>
  PROVE  EndsAccounted' /\ EndsValid'
<1>1. \A t \in Threads : Ends(t)' = Ends(t)
  BY DEF Ends
<1> QED BY <1>1 DEF EndsAccounted, EndsValid

-----------------------------------------------------------------------------
(* Memory.                                                                 *)

LEMMA HeapStep ==
  ASSUME IInv, NEW t \in Threads, ThreadStep(t)
  PROVE  HeapAt'
<1>1. TypeOK /\ HeapAt /\ Frame(t)
  BY StepFrame DEF IInv
<1> DEFINE At(stage) == CASE stage \in {"actions", "close_end", "cleanup", "open"} -> {"FILE"}
                          [] stage = "split" -> {"FILE", "fa"}
                          [] stage = "spawn" -> {"FILE", "fa", "argv"}
                          [] stage = "sys_spawn" -> {"argv"}
                          [] OTHER -> {}
           Fits(stage, blocks) ==
             /\ blocks \ {"before", "behind"} = At(stage)
             /\ "before" \in blocks => stage \in {"spawn", "sys_spawn"}
             /\ "behind" \in blocks => "strdup" \in Faults
<1>2. /\ pc \in [Threads -> Stages]
      /\ heap \in [Threads -> SUBSET {"FILE", "fa", "argv", "before", "behind"}]
      /\ Fits(pc[t], heap[t])
  BY <1>1 DEF TypeOK, HeapAt
<1>3. ASSUME NEW a \in Argvs, NEW to, heap' = [heap EXCEPT ![t] = @ \cup a], pc' = [pc EXCEPT ![t] = to],
             <<pc[t], to>> \in {<<"split", "spawn">>, <<"sys_split", "sys_spawn">>}
      PROVE  Fits(pc'[t], heap'[t])
  <2>1. a \ {"before", "behind"} = {"argv"} /\ ("behind" \in a => "strdup" \in Faults)
    BY ArgvsAre
  <2>2. heap'[t] = heap[t] \cup a /\ pc'[t] = to
    BY <1>2, <1>3
  <2>3. heap'[t] \ {"before", "behind"} = At(pc[t]) \cup {"argv"}
    BY <1>2, <2>1, <2>2
  <2>4. heap'[t] \ {"before", "behind"} = At(to) /\ to \in {"spawn", "sys_spawn"}
    BY <1>3, <2>3
  <2> QED BY <1>2, <2>1, <2>2, <2>4
<1>4. Fits(pc'[t], heap'[t])
  <2> USE <1>2 DEF Goto, Returns, Forget, host
  <2>1. CASE Popen(t) BY <2>1 DEF Popen
  <2>2. CASE Pair(t) BY <2>2 DEF Pair, PairFails
  <2>3. CASE Fdopen(t) BY <2>3 DEF Fdopen
  <2>4. CASE Actions(t) BY <2>4 DEF Actions
  <2>5. CASE Split(t)
    <3>1. CASE pc' = [pc EXCEPT ![t] = "spawn"] /\ \E a \in Argvs : heap' = [heap EXCEPT ![t] = @ \cup a]
      BY <1>3, <2>5, <3>1 DEF Split
    <3>2. CASE pc' = [pc EXCEPT ![t] = "cleanup"] /\ heap' = [heap EXCEPT ![t] = @ \ {"fa"}]
      BY <2>5, <3>2 DEF Split
    <3> QED BY <2>5, <3>1, <3>2 DEF Split
  <2>6. CASE Spawn(t)
    <3>1. heap'[t] = FreeArgv(heap[t] \ {"fa"}) /\ pc[t] = "spawn" /\ pc'[t] \in {"close_end", "cleanup"}
      BY <2>6 DEF Spawn
    <3> QED BY <3>1 DEF FreeArgv
  <2>7. CASE CloseEnd(t) BY <2>7 DEF CloseEnd
  <2>8. CASE Cleanup(t) BY <2>8 DEF Cleanup
  <2>9. CASE Pclose(t) BY <2>9 DEF Pclose
  <2>10. CASE System(t) BY <2>10 DEF System
  <2>11. CASE SystemSplit(t)
    <3>1. CASE pc' = [pc EXCEPT ![t] = "sys_spawn"] /\ \E a \in Argvs : heap' = [heap EXCEPT ![t] = @ \cup a]
      BY <1>3, <2>11, <3>1 DEF SystemSplit
    <3>2. CASE pc' = [pc EXCEPT ![t] = "idle"] /\ heap' = heap
      BY <2>11, <3>2 DEF SystemSplit
    <3> QED BY <2>11, <3>1, <3>2 DEF SystemSplit
  <2>12. CASE SystemSpawn(t)
    <3>1. heap'[t] = FreeArgv(heap[t]) /\ pc[t] = "sys_spawn" /\ pc'[t] \in {"sys_wait", "idle"}
      BY <2>12 DEF SystemSpawn
    <3> QED BY <3>1 DEF FreeArgv
  <2>13. CASE WaitOwn(t) BY <2>13 DEF WaitOwn, EndWait, Interrupted
  <2>14. CASE WaitAny(t) BY <2>14 DEF WaitAny
  <2>15. CASE SpawnOwn(t) BY <2>15 DEF SpawnOwn, callVars
  <2> QED BY <2>1, <2>2, <2>3, <2>4, <2>5, <2>6, <2>7, <2>8, <2>9, <2>10, <2>11, <2>12,
             <2>13, <2>14, <2>15 DEF ThreadStep, Step
<1> QED BY <1>1, <1>4 DEF HeapAt, Frame

-----------------------------------------------------------------------------
(* Children.                                                               *)

ChildrenOK == ChildrenAccounted /\ PidIsOwn /\ StatusIsOwn

(* A step that neither makes nor reaps a child.                            *)
LEMMA SameChildren ==
  ASSUME IInv, NEW t \in Threads, Frame(t), child' = child, pid'[t] = pid[t], stolen' = stolen,
         HasChild(t)' <=> HasChild(t), result'[t] = "other" => result[t] = "other"
  PROVE  ChildrenOK'
<1>1. \A u \in Threads : (HasChild(u)' <=> HasChild(u)) /\ pid'[u] = pid[u]
  BY DEF Frame, HasChild
<1>2. \A u \in Threads : result'[u] = "other" => result[u] = "other"
  BY DEF Frame
<1>3. \A p \in Pids : child[p].owner # Nothing => child[p].owner \in Threads
  BY DEF IInv, TypeOK, Child
<1> QED BY <1>1, <1>2, <1>3
        DEF IInv, ChildrenOK, ChildrenAccounted, PidIsOwn, StatusIsOwn, HasChild

(* A new child: nobody remembers a pid that is free, unless wait() took it. *)
LEMMA NewChild ==
  ASSUME IInv, NEW t \in Threads, Frame(t), NEW kind, HostSpawn(t, kind), stolen' = stolen,
         ~HasChild(t), HasChild(t)', result'[t] = result[t]
  PROVE  ChildrenOK'
<1>1. PICK p \in Pids : /\ child[p].state = "free"
                        /\ child' = [child EXCEPT ![p] = Spawned(t, kind)]
                        /\ pid' = [pid EXCEPT ![t] = p]
  BY DEF HostSpawn
<1>2. child'[p].owner = t /\ child'[p].state = "running" /\ pid'[t] = p /\ t # Nothing
  BY <1>1 DEF IInv, TypeOK, Spawned
<1>3. \A q \in Pids : q # p => child'[q] = child[q]
  BY <1>1 DEF IInv, TypeOK
<1>4. \A u \in Threads : u # t => (HasChild(u)' <=> HasChild(u)) /\ pid'[u] = pid[u]
  BY DEF Frame, HasChild
<1>5. \A q \in Pids : child[q].state # "free" /\ child[q].owner # Nothing =>
        child[q].owner \in Threads /\ child[q].owner # t
  BY DEF IInv, TypeOK, Child, ChildrenAccounted, HasChild
<1>7. ChildrenAccounted'
  <2>1. ASSUME NEW q \in Pids, child'[q].state # "free", child'[q].owner # Nothing
        PROVE  \E u \in Threads : child'[q].owner = u /\ HasChild(u)' /\ pid'[u] = q
    <3>1. CASE q = p BY <1>2, <3>1
    <3>2. CASE q # p
      <4>1. child[q].owner \in Threads \ {t}
        BY <1>3, <1>5, <2>1, <3>2
      <4>2. HasChild(child[q].owner) /\ pid[child[q].owner] = q
        BY <1>3, <2>1, <3>2 DEF IInv, ChildrenAccounted, HasChild
      <4> QED BY <1>3, <1>4, <3>2, <4>1, <4>2
    <3> QED BY <3>1, <3>2
  <2> QED BY <2>1 DEF ChildrenAccounted, HasChild
<1>8. PidIsOwn'
  <2>1. ASSUME ~stolen, NEW u \in Threads, HasChild(u)', u # t
        PROVE  /\ pid'[u] # Nothing
               /\ child'[pid'[u]].state # "free" /\ child'[pid'[u]].owner = u
    <3>1. /\ pid[u] \in Pids /\ child[pid[u]].state # "free" /\ child[pid[u]].owner = u
      BY <1>4, <2>1 DEF IInv, TypeOK, PidIsOwn
    <3> QED BY <1>1, <1>3, <1>4, <2>1, <3>1
  <2>2. pid'[t] # Nothing
    BY <1>2
  <2> QED BY <1>2, <2>1, <2>2 DEF PidIsOwn
<1>9. StatusIsOwn'
  BY DEF Frame, IInv, StatusIsOwn
<1> QED BY <1>7, <1>8, <1>9 DEF ChildrenOK

(* A caller that reaps its child, or finds that it is gone.                *)
LEMMA OwnReaped ==
  ASSUME IInv, NEW t \in Threads, Frame(t), stolen' = stolen,
         pc'[t] = "idle", HasChild(t),
         \/ Reap(pid[t])
         \/ child' = child /\ child[pid[t]].state = "free",
         result'[t] = "other" => child[pid[t]].owner # t
  PROVE  ChildrenOK'
<1>1. \A q \in Pids : q # pid[t] => child'[q] = child[q]
  BY DEF IInv, TypeOK, Reap
<1>2. pid[t] \in Pids => child'[pid[t]].state = "free"
  BY DEF IInv, TypeOK, Reap, NoChild
<1>3. \A u \in Threads : u # t => (HasChild(u)' <=> HasChild(u)) /\ pid'[u] = pid[u]
  BY DEF Frame, HasChild
<1>4. \A q \in Pids : child[q].state # "free" /\ child[q].owner # Nothing /\ q # pid[t] =>
        child[q].owner \in Threads /\ child[q].owner # t
  BY DEF IInv, TypeOK, Child, ChildrenAccounted
<1>6. ChildrenAccounted'
  <2>1. ASSUME NEW q \in Pids, child'[q].state # "free", child'[q].owner # Nothing
        PROVE  \E u \in Threads : child'[q].owner = u /\ HasChild(u)' /\ pid'[u] = q
    <3>1. q # pid[t]
      BY <1>2, <2>1
    <3>2. child[q].owner \in Threads \ {t}
      BY <1>1, <1>4, <2>1, <3>1
    <3>3. HasChild(child[q].owner) /\ pid[child[q].owner] = q
      BY <1>1, <2>1, <3>1 DEF IInv, ChildrenAccounted, HasChild
    <3> QED BY <1>1, <1>3, <3>1, <3>2, <3>3
  <2> QED BY <2>1 DEF ChildrenAccounted, HasChild
<1>7. PidIsOwn'
  <2>1. ASSUME ~stolen, NEW u \in Threads, HasChild(u)'
        PROVE  /\ pid'[u] # Nothing
               /\ child'[pid'[u]].state # "free" /\ child'[pid'[u]].owner = u
    <3>1. u # t /\ HasChild(u) /\ pid'[u] = pid[u]
      BY <1>3, <2>1 DEF HasChild
    <3>2. /\ pid[u] \in Pids /\ child[pid[u]].state # "free" /\ child[pid[u]].owner = u
          /\ child[pid[t]].owner = t
      BY <2>1, <3>1 DEF IInv, TypeOK, PidIsOwn
    <3> QED BY <1>1, <3>1, <3>2
  <2> QED BY <2>1 DEF PidIsOwn
<1>8. StatusIsOwn'
  BY DEF Frame, IInv, StatusIsOwn, PidIsOwn
<1> QED BY <1>6, <1>7, <1>8 DEF ChildrenOK

LEMMA ChildrenStep ==
  ASSUME IInv, NEW t \in Threads, ThreadStep(t)
  PROVE  ChildrenOK'
<1>1. TypeOK /\ Frame(t)
  BY StepFrame DEF IInv
<1> USE DEF TypeOK, Goto, Returns, Forget, host
<1>2. CASE \/ Popen(t) \/ Pair(t) \/ Fdopen(t) \/ Actions(t) \/ Split(t)
           \/ Cleanup(t) \/ System(t) \/ SystemSplit(t)
  <2>1. /\ child' = child /\ pid' = pid /\ stolen' = stolen
        /\ result'[t] = "other" => result[t] = "other"
    BY <1>1, <1>2 DEF Popen, Pair, PairFails, Fdopen, Actions, Split, Cleanup, System, SystemSplit
  <2>2. ~HasChild(t) /\ ~HasChild(t)'
    BY <1>1, <1>2 DEF Popen, Pair, PairFails, Fdopen, Actions, Split, Cleanup, System, SystemSplit, HasChild
  <2> QED BY <1>1, <2>1, <2>2, SameChildren
<1>3. CASE CloseEnd(t) \/ Pclose(t)
  <2>1. /\ child' = child /\ pid' = pid /\ stolen' = stolen
        /\ result'[t] = "other" => result[t] = "other"
    BY <1>1, <1>3 DEF CloseEnd, Pclose
  <2>2. HasChild(t) /\ HasChild(t)'
    BY <1>1, <1>3 DEF CloseEnd, Pclose, HasChild
  <2> QED BY <1>1, <2>1, <2>2, SameChildren
<1>4. CASE Spawn(t)
  <2>1. stolen' = stolen /\ result' = result /\ ~HasChild(t)
    BY <1>4 DEF Spawn, HasChild
  <2>2. CASE HostSpawn(t, mode[t]) /\ pc' = [pc EXCEPT ![t] = "close_end"]
    <3>1. HasChild(t)'
      BY <1>1, <2>2 DEF HasChild
    <3> QED BY <1>1, <2>1, <2>2, <3>1, NewChild
  <2>3. CASE pc' = [pc EXCEPT ![t] = "cleanup"] /\ UNCHANGED <<pid, child>>
    <3>1. ~HasChild(t)'
      BY <1>1, <2>3 DEF HasChild
    <3> QED BY <1>1, <2>1, <2>3, <3>1, SameChildren
  <2> QED BY <1>4, <2>2, <2>3 DEF Spawn
<1>5. CASE SystemSpawn(t)
  <2>1. stolen' = stolen /\ ~HasChild(t)
    BY <1>5 DEF SystemSpawn, HasChild
  <2>2. CASE /\ HostSpawn(t, "system") /\ pc' = [pc EXCEPT ![t] = "sys_wait"]
             /\ result' = result
    <3>1. HasChild(t)'
      BY <1>1, <2>2 DEF HasChild
    <3> QED BY <1>1, <2>1, <2>2, <3>1, NewChild
  <2>3. CASE /\ pc' = [pc EXCEPT ![t] = "idle"] /\ UNCHANGED <<pid, child>>
             /\ \E r \in {"failed", "127"} : result' = [result EXCEPT ![t] = r]
    <3>1. ~HasChild(t)' /\ result'[t] # "other"
      BY <1>1, <2>3 DEF HasChild
    <3> QED BY <1>1, <2>1, <2>3, <3>1, SameChildren
  <2> QED BY <1>5, <2>2, <2>3 DEF SystemSpawn
<1>6. CASE WaitOwn(t)
  <2>1. stolen' = stolen /\ HasChild(t)
    BY <1>6 DEF WaitOwn, HasChild
  <2>2. CASE /\ Reap(pid[t])
             /\ EndWait(t, IF child[pid[t]].owner = t THEN "status" ELSE "other")
    BY <1>1, <2>1, <2>2, OwnReaped DEF EndWait
  <2>3. CASE child[pid[t]].state = "free" /\ EndWait(t, "failed") /\ child' = child
    BY <1>1, <2>1, <2>3, OwnReaped DEF EndWait
  <2>4. CASE UNCHANGED <<pc, pid, result, child>>
    <3>1. HasChild(t)' <=> HasChild(t)
      BY <2>4 DEF HasChild
    <3> QED BY <1>1, <2>1, <2>4, <3>1, SameChildren
  <2> QED BY <1>6, <2>2, <2>3, <2>4 DEF WaitOwn, Awaited, Interrupted
<1>7. CASE WaitAny(t)
  <2>1. PICK p \in Pids : /\ child[p].state = "zombie" /\ Reap(p)
                          /\ stolen' = (stolen \/ child[p].owner # Nothing)
    BY <1>7 DEF WaitAny
  <2>2. UNCHANGED <<pc, pid, result>>
    BY <1>7 DEF WaitAny
  <2>3. \A q \in Pids : child'[q].state # "free" => child'[q] = child[q]
    BY <1>1, <2>1 DEF Reap, NoChild
  <2>4. \A u \in Threads : HasChild(u)' <=> HasChild(u)
    BY <2>2 DEF HasChild
  <2>5. PidIsOwn'
    <3>1. ASSUME ~stolen', NEW u \in Threads, HasChild(u)
          PROVE  /\ pid[u] # Nothing
                 /\ child'[pid[u]].state # "free" /\ child'[pid[u]].owner = u
      <4>1. /\ pid[u] \in Pids /\ child[pid[u]].state # "free"
            /\ child[pid[u]].owner = u /\ child[p].owner = Nothing
        <5>1. ~stolen /\ child[p].owner = Nothing
          BY <1>1, <2>1, <3>1 DEF TypeOK
        <5>2. pid[u] # Nothing /\ pid[u] \in Pids
          BY <1>1, <3>1, <5>1 DEF IInv, PidIsOwn, TypeOK
        <5> QED BY <3>1, <5>1, <5>2 DEF IInv, PidIsOwn
      <4>2. child'[pid[u]] = child[pid[u]]
        BY <1>1, <2>1, <4>1 DEF Reap
      <4> QED BY <4>1, <4>2
    <3> QED BY <2>2, <2>4, <3>1 DEF PidIsOwn
  <2>6. ChildrenAccounted' /\ StatusIsOwn'
    BY <2>1, <2>2, <2>3 DEF IInv, ChildrenAccounted, StatusIsOwn
  <2> QED BY <2>5, <2>6 DEF ChildrenOK
<1>8. CASE SpawnOwn(t)
  <2>1. PICK p \in Pids : child[p].state = "free" /\ child' = [child EXCEPT ![p] = Own]
    BY <1>8 DEF SpawnOwn
  <2>2. UNCHANGED <<pc, pid, result, stolen>>
    BY <1>8 DEF SpawnOwn, callVars
  <2>3. \A q \in Pids : q # p => child'[q] = child[q]
    BY <1>1, <2>1
  <2>4. child'[p].owner = Nothing
    BY <1>1, <2>1 DEF Own
  <2>5. \A u \in Threads : HasChild(u)' <=> HasChild(u)
    BY <2>2 DEF HasChild
  <2>6. PidIsOwn'
    BY <1>1, <2>1, <2>2, <2>3, <2>5 DEF IInv, PidIsOwn
  <2>7. ChildrenAccounted' /\ StatusIsOwn'
    BY <2>2, <2>3, <2>4 DEF IInv, ChildrenAccounted, StatusIsOwn
  <2> QED BY <2>6, <2>7 DEF ChildrenOK
<1> QED BY <1>2, <1>3, <1>4, <1>5, <1>6, <1>7, <1>8 DEF ThreadStep, Step

LEMMA ExitChildren ==
  ASSUME IInv, NEW p \in Pids, ChildExit(p)
  PROVE  ChildrenOK'
<1>1. \A q \in Pids :
        /\ child'[q].owner = child[q].owner
        /\ child'[q].state # "free" => child[q].state # "free"
        /\ child[q].state # "free" => child'[q].state # "free"
  BY DEF ChildExit, Running, IInv, TypeOK, Child
<1>2. UNCHANGED <<pc, pid, result, stolen>>
  BY DEF ChildExit, callVars
<1>3. \A u \in Threads : HasChild(u) /\ ~stolen => pid[u] \in Pids
  BY DEF IInv, TypeOK, PidIsOwn
<1>4. \A u \in Threads : HasChild(u)' <=> HasChild(u)
  BY <1>2 DEF HasChild
<1>6. ChildrenAccounted'
  BY <1>1, <1>2 DEF IInv, ChildrenAccounted
<1>7. PidIsOwn'
  BY <1>1, <1>2, <1>3, <1>4 DEF IInv, PidIsOwn
<1>8. StatusIsOwn'
  BY <1>2 DEF IInv, StatusIsOwn
<1> QED BY <1>6, <1>7, <1>8 DEF ChildrenOK

-----------------------------------------------------------------------------
(* The theorems.                                                           *)

LEMMA InitInv == Init => IInv
<1> SUFFICES ASSUME Init PROVE IInv
  OBVIOUS
<1> USE DEF Init
<1>1. TypeOK
  BY NoChildType DEF TypeOK, Stages
<1>2. EndsAccounted /\ EndsValid
  BY DEF EndsAccounted, EndsValid, Ends
<1>3. HeapAt
  BY DEF HeapAt
<1>4. ChildrenOK
  BY DEF ChildrenOK, ChildrenAccounted, PidIsOwn, StatusIsOwn, HasChild, NoChild
<1> QED BY <1>1, <1>2, <1>3, <1>4 DEF IInv, ChildrenOK

LEMMA StepInv == IInv /\ [Next]_vars => IInv'
<1> SUFFICES ASSUME IInv, [Next]_vars PROVE IInv'
  OBVIOUS
<1>1. TypeOK'
  BY TypeStep DEF IInv
<1>2. ASSUME NEW t \in Threads, ThreadStep(t) PROVE IInv'
  BY <1>1, <1>2, EndsStep, HeapStep, ChildrenStep DEF IInv, ChildrenOK
<1>3. ASSUME NEW p \in Pids, ChildExit(p) PROVE IInv'
  <2>1. UNCHANGED <<pc, near, far, heap, open>>
    BY <1>3 DEF ChildExit, callVars
  <2>2. EndsAccounted' /\ EndsValid'
    BY <2>1, ExitEnds DEF IInv
  <2>3. HeapAt'
    BY <2>1 DEF IInv, HeapAt
  <2>4. ChildrenOK'
    BY <1>3, ExitChildren
  <2> QED BY <1>1, <2>2, <2>3, <2>4 DEF IInv, ChildrenOK
<1>4. CASE UNCHANGED vars
  <2>1. EndsAccounted' /\ EndsValid'
    BY <1>4, ExitEnds DEF vars, IInv
  <2>2. HeapAt' /\ ChildrenAccounted' /\ PidIsOwn' /\ StatusIsOwn'
    BY <1>4 DEF vars, IInv, HeapAt, ChildrenAccounted, PidIsOwn, StatusIsOwn, HasChild
  <2> QED BY <1>1, <2>1, <2>2 DEF IInv
<1> QED BY <1>2, <1>3, <1>4 DEF Next, ThreadStep

(* The inductive invariant holds in every reachable state of popen(),      *)
(* pclose(), system() and wait().                                          *)
THEOREM Invariance == Spec => []IInv
  BY InitInv, StepInv, PTL DEF Spec

(* Every open descriptor is an end some call or FILE accounts for.         *)
THEOREM EndsAccountedHolds == Spec => []EndsAccounted
<1>1. IInv => EndsAccounted
  BY DEF IInv
<1> QED BY <1>1, Invariance, PTL

(* No path of popen(), pclose() or system() leaves memory behind.          *)
THEOREM NothingLeftHolds == Spec => []NothingLeft
<1>1. IInv => NothingLeft
  BY DEF IInv, HeapAt, NothingLeft, Lost
<1> QED BY <1>1, Invariance, PTL

(* Every child not reaped yet is still going to be waited for.             *)
THEOREM ChildrenAccountedHolds == Spec => []ChildrenAccounted
<1>1. IInv => ChildrenAccounted
  BY DEF IInv
<1> QED BY <1>1, Invariance, PTL

(* Only a wait() can make pclose() or system() report another's status.    *)
THEOREM StatusIsOwnHolds == Spec => []StatusIsOwn
<1>1. IInv => StatusIsOwn
  BY DEF IInv
<1> QED BY <1>1, Invariance, PTL

(* The types of popen()'s and system()'s variables and the host's tables.  *)
THEOREM TypeCorrect == Spec => []TypeOK
<1>1. IInv => TypeOK
  BY DEF IInv
<1> QED BY <1>1, Invariance, PTL

-----------------------------------------------------------------------------
(* Who reaps a child.                                                      *)

(* A child changes hands only when it is reaped.                           *)
LEMMA NotReaped ==
  ASSUME TypeOK, NEW u \in Threads, NEW p \in Pids,
         \/ child'[p] = child[p]
         \/ child'[p].state # "free"
  PROVE  ~Reaps(p, u)
<1>1. NoChild.state = "free" /\ NoChild.owner = Nothing /\ u # Nothing
  BY DEF NoChild, TypeOK
<1> QED BY <1>1 DEF Reaps

(* A step of a thread reaps children of its own, and only when it stops    *)
(* waiting.                                                                *)
LEMMA StepReaps ==
  ASSUME IInv, NEW t \in Threads, ThreadStep(t), ~stolen',
         NEW u \in Threads, NEW p \in Pids, Reaps(p, u)
  PROVE  u = t /\ StopsWaiting(t)
<1>1. TypeOK
  BY DEF IInv
<1>2. child'[p] # child[p] /\ child'[p].state = "free"
  BY <1>1, NotReaped
<1>3. ASSUME NEW kind, HostSpawn(t, kind) PROVE FALSE
  <2>1. PICK q \in Pids : child' = [child EXCEPT ![q] = Spawned(t, kind)]
    BY <1>3 DEF HostSpawn
  <2>2. child'[p] = IF p = q THEN Spawned(t, kind) ELSE child[p]
    BY <1>1, <2>1 DEF TypeOK
  <2>3. Spawned(t, kind).state = "running"
    BY DEF Spawned
  <2> QED BY <1>2, <2>2, <2>3
<1>4. child' # child
  BY <1>2
<1>5. CASE Spawn(t)
  BY <1>3, <1>4, <1>5 DEF Spawn
<1>6. CASE SystemSpawn(t)
  BY <1>3, <1>4, <1>6 DEF SystemSpawn
<1>7. CASE WaitOwn(t)
  <2>1. ~stolen /\ HasChild(t) /\ Waiting(t)
    BY <1>7 DEF WaitOwn, HasChild, Waiting
  <2>2. Reap(pid[t]) /\ pc' = [pc EXCEPT ![t] = "idle"]
    BY <1>4, <1>7 DEF WaitOwn, Awaited, EndWait
  <2>3. p = pid[t]
    BY <1>1, <1>2, <2>2 DEF Reap, TypeOK
  <2>4. child[pid[t]].owner = t
    BY <2>1 DEF IInv, PidIsOwn
  <2> QED BY <1>1, <2>1, <2>2, <2>3, <2>4 DEF Reaps, StopsWaiting, Waiting, TypeOK
<1>8. CASE WaitAny(t)
  <2>1. PICK q \in Pids : Reap(q) /\ stolen' = (stolen \/ child[q].owner # Nothing)
    BY <1>8 DEF WaitAny
  <2>2. p = q
    BY <1>1, <1>2, <2>1 DEF Reap, TypeOK
  <2>3. child[q].owner # Nothing
    BY <1>1, <2>2 DEF Reaps, TypeOK
  <2> QED BY <1>1, <2>1, <2>3 DEF TypeOK
<1>9. CASE SpawnOwn(t)
  <2>1. PICK q \in Pids : child' = [child EXCEPT ![q] = Own]
    BY <1>9 DEF SpawnOwn
  <2>2. child'[p] = IF p = q THEN Own ELSE child[p]
    BY <1>1, <2>1 DEF TypeOK
  <2>3. Own.state = "running"
    BY DEF Own
  <2> QED BY <1>2, <2>2, <2>3
<1> QED BY <1>4, <1>5, <1>6, <1>7, <1>8, <1>9
        DEF ThreadStep, Step, Popen, Pclose, System, Pair, Fdopen, Actions, Split, CloseEnd,
            Cleanup, SystemSplit, host

(* A thread stops waiting with the status of its own child.                *)
LEMMA WaitAnswered ==
  ASSUME IInv, NEW t \in Threads, ThreadStep(t), StopsWaiting(t), ~stolen
  PROVE  Reaps(pid[t], t) /\ result'[t] = "status"
<1>1. TypeOK
  BY DEF IInv
<1>2. WaitOwn(t)
  BY DEF StopsWaiting, Waiting, ThreadStep, Step, Popen, Pclose, System, WaitAny, SpawnOwn,
         callVars, Pair, Fdopen, Actions, Split, Spawn, CloseEnd, Cleanup, SystemSplit,
         SystemSpawn, Goto
<1>3. HasChild(t) /\ child[pid[t]].state # "free" /\ child[pid[t]].owner = t /\ pid[t] \in Pids
  BY <1>1, <1>2 DEF WaitOwn, HasChild, IInv, PidIsOwn, TypeOK
<1>4. pc' # pc
  BY DEF StopsWaiting, Waiting
<1>5. Reap(pid[t]) /\ result' = [result EXCEPT ![t] = "status"]
  BY <1>2, <1>3, <1>4 DEF WaitOwn, Awaited, EndWait, Returns, Interrupted
<1> QED BY <1>1, <1>3, <1>5 DEF Reap, Reaps, TypeOK

(* As long as no wait() takes their children, pclose() and system() never  *)
(* stop waiting without the status of their own child, and nobody else     *)
(* reaps it.                                                               *)
THEOREM AnswersOwnHolds == Spec => AnswersOwn
<1>1. IInv /\ [Next]_vars =>
        [\A t \in Threads :
           /\ StopsWaiting(t) /\ ~stolen => Reaps(pid[t], t) /\ result'[t] = "status"
           /\ (\E p \in Pids : Reaps(p, t)) /\ ~stolen' => StopsWaiting(t)]_vars
  <2> SUFFICES ASSUME IInv, Next, NEW t \in Threads
               PROVE  /\ StopsWaiting(t) /\ ~stolen => Reaps(pid[t], t) /\ result'[t] = "status"
                      /\ (\E p \in Pids : Reaps(p, t)) /\ ~stolen' => StopsWaiting(t)
    OBVIOUS
  <2>1. CASE \E u \in Threads : ThreadStep(u)
    <3>1. PICK u \in Threads : ThreadStep(u)
      BY <2>1
    <3>2. u # t => pc'[t] = pc[t]
      BY <3>1, StepFrame DEF IInv, Frame
    <3>3. StopsWaiting(t) => u = t
      BY <3>2 DEF StopsWaiting, Waiting
    <3> QED BY <3>1, <3>3, StepReaps, WaitAnswered
  <2>2. ASSUME NEW q \in Pids, ChildExit(q)
        PROVE  ~StopsWaiting(t) /\ \A p \in Pids : ~Reaps(p, t)
    <3>1. TypeOK /\ ~StopsWaiting(t)
      BY <2>2 DEF IInv, ChildExit, callVars, StopsWaiting, Waiting
    <3>2. ASSUME NEW p \in Pids PROVE child'[p] = child[p] \/ child'[p].state # "free"
      BY <2>2, <3>1 DEF ChildExit, TypeOK, Child
    <3> QED BY <3>1, <3>2, NotReaped
  <2> QED BY <2>1, <2>2 DEF Next, ThreadStep
<1> QED BY Invariance, <1>1, PTL DEF Spec, AnswersOwn

-----------------------------------------------------------------------------
(* popen() as a caller of socketpair().  What it shows of a thread is made *)
(* of the thread's own stage and ends, so one lemma for each kind of step  *)
(* says what becomes of the links, and the callers' steps only have to be  *)
(* sorted.                                                                 *)

LEMMA OthersSeen ==
  ASSUME NEW t \in Threads, Frame(t), NEW u \in Threads, u # t
  PROVE  Ends(u)' = Ends(u) /\ PairStatus(u)' = PairStatus(u)
<1>1. Ends(u)' = Ends(u)
  BY DEF Frame, Ends
<1> QED BY <1>1 DEF Frame, PairStatus

(* A step that leaves its thread's ends alone shows only its status.       *)
LEMMA SameEnds ==
  ASSUME NEW t \in Threads, Frame(t), Ends(t)' = Ends(t)
  PROVE  /\ [u \in Threads |-> PairStatus(u)]' =
              [[u \in Threads |-> PairStatus(u)] EXCEPT ![t] = PairStatus(t)']
         /\ [u \in Threads |-> Ends(u)]' = [u \in Threads |-> Ends(u)]
         /\ [f \in Fds |-> Peers(f)]' = [f \in Fds |-> Peers(f)]
<1>1. \A u \in Threads : Ends(u)' = Ends(u) /\ (u # t => PairStatus(u)' = PairStatus(u))
  BY OthersSeen
<1>2. \A f \in Fds : Peers(f)' = Peers(f)
  BY <1>1 DEF Peers
<1> QED BY <1>1, <1>2

LEMMA Hidden ==
  ASSUME NEW t \in Threads, Frame(t), Ends(t)' = Ends(t), PairStatus(t)' = PairStatus(t)
  PROVE  UNCHANGED Pairs!vars
<1>1. \A u \in Threads : PairStatus(u)' = PairStatus(u)
  BY OthersSeen
<1>2. [u \in Threads |-> PairStatus(u)]' = [u \in Threads |-> PairStatus(u)]
  BY <1>1
<1>3. /\ [u \in Threads |-> Ends(u)]' = [u \in Threads |-> Ends(u)]
      /\ [f \in Fds |-> Peers(f)]' = [f \in Fds |-> Peers(f)]
  BY SameEnds
<1> QED BY <1>2, <1>3 DEF Pairs!vars

(* Ends that are closed are nobody's peers, and the others keep theirs.    *)
LEMMA PeersClosed ==
  ASSUME EndsAccounted, NEW t \in Threads, Frame(t),
         NEW fds \in SUBSET Ends(t), Ends(t)' = Ends(t) \ fds, NEW f \in Fds
  PROVE  Peers(f)' = IF f \in fds THEN {} ELSE Peers(f) \ fds
<1>1. \A u \in Threads : u # t => Ends(u)' = Ends(u) /\ Ends(u) \cap fds = {}
  BY OthersSeen DEF EndsAccounted
<1>2. \A u \in Threads : Ends(u)' = Ends(u) \ fds
  BY <1>1
<1> QED BY <1>2 DEF Peers

(* Two fresh descriptors are each other's only peers.                      *)
LEMMA PeersOpened ==
  ASSUME EndsAccounted, NEW t \in Threads, Frame(t),
         NEW a \in Fds \ open, NEW b \in Fds \ open, a # b,
         Ends(t) = {}, Ends(t)' = {a, b}, NEW f \in Fds
  PROVE  Peers(f)' = IF f = b THEN {a} ELSE IF f = a THEN {b} ELSE Peers(f)
<1>1. \A u \in Threads : u # t => Ends(u)' = Ends(u) /\ a \notin Ends(u) /\ b \notin Ends(u)
  BY OthersSeen DEF EndsAccounted
<1>2. CASE f \in {a, b}
  <2>1. \A u \in Threads, g \in Fds : {f, g} \subseteq Ends(u)' <=> u = t /\ g \in {a, b}
    BY <1>1, <1>2
  <2> QED BY <1>2, <2>1 DEF Peers
<1>3. CASE f \notin {a, b}
  <2>1. \A u \in Threads, g \in Fds : {f, g} \subseteq Ends(u)' <=> {f, g} \subseteq Ends(u)
    BY <1>1, <1>3
  <2> QED BY <1>3, <2>1 DEF Peers
<1> QED BY <1>2, <1>3

LEMMA PopenBegins ==
  ASSUME IInv, NEW t \in Threads, Popen(t)
  PROVE  Pairs!Begin(t)
<1>1. /\ Frame(t) /\ pc[t] = "idle" /\ pc'[t] = "pair"
  BY StepFrame DEF ThreadStep, Popen, Goto, IInv, TypeOK
<1>2. /\ Ends(t) = {} /\ Ends(t)' = {} /\ PairStatus(t) = "idle" /\ PairStatus(t)' = "busy"
  BY <1>1 DEF Ends, PairStatus
<1>3. /\ [u \in Threads |-> PairStatus(u)]' = [[u \in Threads |-> PairStatus(u)] EXCEPT ![t] = "busy"]
      /\ [u \in Threads |-> Ends(u)]' = [u \in Threads |-> Ends(u)]
      /\ [f \in Fds |-> Peers(f)]' = [f \in Fds |-> Peers(f)]
  BY <1>1, <1>2, SameEnds
<1>4. \E b \in BOOLEAN : [u \in Threads |-> TRUE]' = [[u \in Threads |-> TRUE] EXCEPT ![t] = b]
  BY TRUE \in BOOLEAN
<1> QED BY <1>2, <1>3, <1>4 DEF Pairs!Begin

LEMMA PairFailed ==
  ASSUME IInv, NEW t \in Threads, Pair(t), pc'[t] = "idle"
  PROVE  Pairs!Fail(t)
<1>1. /\ Frame(t) /\ pc[t] = "pair"
  BY StepFrame DEF ThreadStep, Step, Pair, IInv
<1>2. /\ Ends(t) = {} /\ Ends(t)' = {} /\ PairStatus(t) = "busy" /\ PairStatus(t)' = "idle"
  BY <1>1 DEF Ends, PairStatus
<1>3. /\ [u \in Threads |-> PairStatus(u)]' = [[u \in Threads |-> PairStatus(u)] EXCEPT ![t] = "idle"]
      /\ [u \in Threads |-> Ends(u)]' = [u \in Threads |-> Ends(u)]
      /\ [f \in Fds |-> Peers(f)]' = [f \in Fds |-> Peers(f)]
  BY <1>1, <1>2, SameEnds
<1> QED BY <1>2, <1>3 DEF Pairs!Fail

LEMMA PairMade ==
  ASSUME IInv, NEW t \in Threads, Pair(t), pc'[t] # "idle"
  PROVE  Pairs!Succeed(t)
<1>1. /\ Frame(t) /\ pc[t] = "pair" /\ TypeOK /\ EndsAccounted
  BY StepFrame DEF ThreadStep, Step, Pair, IInv
<1>2. PICK a \in FreeFds, b \in FreeFds :
        /\ a # b /\ pc' = [pc EXCEPT ![t] = "fdopen"]
        /\ near' = [near EXCEPT ![t] = IF mode[t] = "r" THEN a ELSE b]
        /\ far' = [far EXCEPT ![t] = IF mode[t] = "r" THEN b ELSE a]
  BY <1>1 DEF Pair, PairFails, TypeOK
<1>3. a \in Fds \ open /\ b \in Fds \ open
  BY DEF FreeFds, Alive
<1>4. /\ Ends(t) = {} /\ Ends(t)' = {a, b} /\ PairStatus(t) = "busy" /\ PairStatus(t)' = "ok"
  <2>1. /\ pc'[t] = "fdopen" /\ {near'[t], far'[t]} = {a, b}
    BY <1>1, <1>2 DEF TypeOK
  <2> QED BY <1>1, <2>1 DEF Ends, PairStatus
<1>5. [u \in Threads |-> PairStatus(u)]' = [[u \in Threads |-> PairStatus(u)] EXCEPT ![t] = "ok"]
  BY <1>1, <1>4, OthersSeen
<1>6. [u \in Threads |-> Ends(u)]' = [[u \in Threads |-> Ends(u)] EXCEPT ![t] = {a, b}]
  BY <1>1, <1>4, OthersSeen
<1>7. \A f \in Fds : Peers(f)' = IF f = b THEN {a} ELSE IF f = a THEN {b} ELSE Peers(f)
  BY <1>1, <1>2, <1>3, <1>4, PeersOpened
<1>8. [f \in Fds |-> Peers(f)]' = [[f \in Fds |-> Peers(f)] EXCEPT ![a] = {b}, ![b] = {a}]
  BY <1>2, <1>3, <1>7
<1>9. a \in Fds \ Pairs!HandedOut /\ b \in Fds \ Pairs!HandedOut
  BY <1>1, <1>3 DEF Pairs!HandedOut, EndsAccounted
<1> QED BY <1>2, <1>4, <1>5, <1>6, <1>8, <1>9 DEF Pairs!Succeed

LEMMA EndsClosed ==
  ASSUME IInv, NEW t \in Threads, Frame(t), NEW fds \in SUBSET Ends(t), fds # {},
         Ends(t)' = Ends(t) \ fds,
         PairStatus(t)' = IF fds = Ends(t) THEN "idle" ELSE "ok"
  PROVE  Pairs!Close(t)
<1>1. [u \in Threads |-> PairStatus(u)]' =
        [[u \in Threads |-> PairStatus(u)] EXCEPT ![t] = IF fds = Ends(t) THEN "idle" ELSE "ok"]
  BY OthersSeen
<1>2. [u \in Threads |-> Ends(u)]' = [[u \in Threads |-> Ends(u)] EXCEPT ![t] = Ends(t) \ fds]
  BY OthersSeen
<1>3. \A f \in Fds : Peers(f)' = IF f \in fds THEN {} ELSE Peers(f) \ fds
  BY PeersClosed DEF IInv
<1>4. [f \in Fds |-> Peers(f)]' =
        [f \in Fds |-> IF f \in fds THEN {} ELSE [g \in Fds |-> Peers(g)][f] \ fds]
  BY <1>3
<1>5. \E s \in (SUBSET [u \in Threads |-> Ends(u)][t]) \ {{}} :
        /\ [u \in Threads |-> Ends(u)]' = [[u \in Threads |-> Ends(u)] EXCEPT ![t] = @ \ s]
        /\ [u \in Threads |-> PairStatus(u)]' =
             [[u \in Threads |-> PairStatus(u)] EXCEPT
                ![t] = IF s = [u \in Threads |-> Ends(u)][t] THEN "idle" ELSE "ok"]
        /\ [f \in Fds |-> Peers(f)]' =
             [f \in Fds |-> IF f \in s THEN {} ELSE [g \in Fds |-> Peers(g)][f] \ s]
        /\ UNCHANGED [u \in Threads |-> TRUE]
  <2>1. [u \in Threads |-> Ends(u)][t] = Ends(t)
    OBVIOUS
  <2>2. fds \in (SUBSET [u \in Threads |-> Ends(u)][t]) \ {{}}
    BY <2>1
  <2>3. [u \in Threads |-> Ends(u)]' = [[u \in Threads |-> Ends(u)] EXCEPT ![t] = @ \ fds]
    BY <1>2, <2>1
  <2>4. [u \in Threads |-> PairStatus(u)]' =
          [[u \in Threads |-> PairStatus(u)] EXCEPT
             ![t] = IF fds = [u \in Threads |-> Ends(u)][t] THEN "idle" ELSE "ok"]
    BY <1>1, <2>1
  <2> WITNESS fds \in (SUBSET [u \in Threads |-> Ends(u)][t]) \ {{}}
  <2> QED BY <1>4, <2>3, <2>4
<1> QED BY <1>5 DEF Pairs!Close

LEMMA PairsStep ==
  ASSUME IInv, [Next]_vars
  PROVE  [Pairs!Next]_(Pairs!vars)
<1>1. ASSUME NEW t \in Threads, ThreadStep(t) PROVE [Pairs!Next]_(Pairs!vars)
  <2>1. Frame(t) /\ TypeOK /\ EndsAccounted /\ EndsValid
    BY <1>1, StepFrame DEF IInv
  <2> USE DEF Goto
  <2>2. CASE Popen(t)
    BY <2>2, PopenBegins DEF Pairs!Next
  <2>3. CASE Pair(t)
    BY <2>3, PairMade, PairFailed DEF Pairs!Next
  <2>4. CASE Cleanup(t) \/ (Fdopen(t) /\ pc'[t] = "idle")
    <3>1. pc[t] \in {"fdopen", "cleanup"} /\ pc'[t] = "idle"
      BY <2>1, <2>4 DEF Cleanup, Fdopen, TypeOK
    <3>2. /\ Ends(t) = {near[t], far[t]} /\ Ends(t)' = Ends(t) \ Ends(t)
          /\ Ends(t) # {} /\ PairStatus(t)' = "idle"
      BY <3>1 DEF Ends, PairStatus
    <3>3. Pairs!Close(t)
      BY <2>1, <3>2, EndsClosed
    <3> QED BY <3>3 DEF Pairs!Next
  <2>5. CASE CloseEnd(t)
    <3>1. /\ pc[t] = "close_end" /\ pc'[t] = "open" /\ near'[t] = near[t]
          /\ near[t] # far[t]
      BY <2>1, <2>5 DEF CloseEnd, TypeOK, EndsValid
    <3>2. /\ Ends(t) = {near[t], far[t]} /\ Ends(t)' = Ends(t) \ {far[t]}
          /\ Ends(t)' # {} /\ {far[t]} # Ends(t) /\ {far[t]} \in SUBSET Ends(t)
      BY <3>1 DEF Ends
    <3>3. PairStatus(t)' = "ok"
      BY <3>1, <3>2 DEF PairStatus
    <3>4. Pairs!Close(t)
      BY <2>1, <3>2, <3>3, EndsClosed
    <3> QED BY <3>4 DEF Pairs!Next
  <2>6. CASE Pclose(t)
    <3>1. pc[t] = "open" /\ pc'[t] = "pclose_wait"
      BY <2>1, <2>6 DEF Pclose, TypeOK
    <3>2. /\ Ends(t) = {near[t]} /\ Ends(t)' = Ends(t) \ Ends(t)
          /\ Ends(t) # {} /\ PairStatus(t)' = "idle"
      BY <3>1 DEF Ends, PairStatus
    <3>3. Pairs!Close(t)
      BY <2>1, <3>2, EndsClosed
    <3> QED BY <3>3 DEF Pairs!Next
  <2>7. CASE /\ Fdopen(t) \/ Actions(t) \/ Split(t) \/ Spawn(t)
             /\ pc'[t] # "idle"
    <3>1. /\ near'[t] = near[t] /\ far'[t] = far[t]
          /\ pc[t] \in {"fdopen", "actions", "split", "spawn"}
          /\ pc'[t] \in {"actions", "split", "spawn", "close_end", "cleanup"}
      BY <2>1, <2>7 DEF Fdopen, Actions, Split, Spawn, TypeOK
    <3>2. Ends(t)' = Ends(t)
      BY <3>1 DEF Ends
    <3>3. PairStatus(t)' = PairStatus(t)
      BY <3>1, <3>2 DEF PairStatus
    <3> QED BY <2>1, <3>2, <3>3, Hidden
  <2>8. CASE System(t) \/ SystemSplit(t) \/ SystemSpawn(t) \/ WaitOwn(t)
    <3>1. /\ pc[t] \in {"idle", "sys_split", "sys_spawn", "sys_wait", "pclose_wait"}
          /\ pc'[t] \in {"idle", "sys_split", "sys_spawn", "sys_wait", "pclose_wait"}
      BY <2>1, <2>8 DEF System, SystemSplit, SystemSpawn, WaitOwn, EndWait, Interrupted, TypeOK
    <3>2. Ends(t) = {} /\ Ends(t)' = {}
      BY <3>1 DEF Ends
    <3>3. PairStatus(t)' = PairStatus(t)
      BY <3>1, <3>2 DEF PairStatus
    <3> QED BY <2>1, <3>2, <3>3, Hidden
  <2>9. CASE WaitAny(t) \/ SpawnOwn(t)
    <3>1. UNCHANGED <<pc, near, far>>
      BY <2>9 DEF WaitAny, SpawnOwn, callVars
    <3>2. Ends(t)' = Ends(t)
      BY <3>1 DEF Ends
    <3>3. PairStatus(t)' = PairStatus(t)
      BY <3>1, <3>2 DEF PairStatus
    <3> QED BY <2>1, <3>2, <3>3, Hidden
  <2>10. pc'[t] # "idle" \/ ~(Actions(t) \/ Split(t) \/ Spawn(t))
    BY <2>1 DEF Actions, Split, Spawn, TypeOK
  <2> QED BY <1>1, <2>2, <2>3, <2>4, <2>5, <2>6, <2>7, <2>8, <2>9, <2>10 DEF ThreadStep, Step
<1>2. ASSUME UNCHANGED <<pc, near, far>> PROVE UNCHANGED Pairs!vars
  <2>1. \A t \in Threads : Ends(t)' = Ends(t)
    BY <1>2 DEF Ends
  <2>2. \A t \in Threads : PairStatus(t)' = PairStatus(t)
    BY <1>2, <2>1 DEF PairStatus
  <2>3. \A f \in Fds : Peers(f)' = Peers(f)
    BY <2>1 DEF Peers
  <2> QED BY <2>1, <2>2, <2>3 DEF Pairs!vars
<1>3. ASSUME NEW p \in Pids, ChildExit(p) PROVE UNCHANGED Pairs!vars
  BY <1>2, <1>3 DEF ChildExit, callVars
<1>4. CASE UNCHANGED vars
  BY <1>2, <1>4 DEF vars
<1> QED BY <1>1, <1>3, <1>4 DEF Next, ThreadStep

(* popen() and pclose() use socketpair() within its promises: they treat   *)
(* as theirs only what it handed out, and close each end once.  With       *)
(* SocketPairProofs!ServiceImplemented, which proves the same promises of  *)
(* the code behind the call, it is sound to take Pair as one step.         *)
THEOREM UsesPairServiceHolds == Spec => UsesPairService
<1>1. Init => Pairs!Init
  <2> SUFFICES ASSUME Init PROVE Pairs!Init
    OBVIOUS
  <2>1. \A t \in Threads : Ends(t) = {}
    BY DEF Init, Ends
  <2>2. \A t \in Threads : PairStatus(t) = "idle"
    BY <2>1 DEF Init, PairStatus
  <2>3. \A f \in Fds : Peers(f) = {}
    BY <2>1 DEF Peers
  <2>4. [t \in Threads |-> TRUE] \in [Threads -> BOOLEAN]
    OBVIOUS
  <2> QED BY <2>1, <2>2, <2>3, <2>4 DEF Pairs!Init
<1>2. IInv /\ [Next]_vars => [Pairs!Next]_(Pairs!vars)
  BY PairsStep
<1> QED BY Invariance, <1>1, <1>2, PTL DEF Spec, UsesPairService, Pairs!Spec

-----------------------------------------------------------------------------
(* Who holds the ends of pairs.                                            *)

(* The FILE's end is one of a thread's ends, so it is open and nobody      *)
(* else's.                                                                 *)
LEMMA NearIsEnd ==
  ASSUME NEW t \in Threads, HasEnd(t)
  PROVE  near[t] \in Ends(t)
  BY DEF HasEnd, Ends

LEMMA NearAlone ==
  ASSUME IInv, NEW t \in Threads, HasEnd(t)
  PROVE  /\ near[t] \in open
         /\ \A u \in Threads : u # t => near[t] \notin Ends(u)
  BY NearIsEnd DEF IInv, EndsAccounted

(* A step that opens and closes nothing and leaves every child with no     *)
(* more than it had.                                                       *)
LEMMA KeptFewer ==
  ASSUME Kept, mode' \in [Threads -> Modes], UNCHANGED <<open, cloexec, near>>,
         \A u \in Threads : HasEnd(u)' => HasEnd(u),
         \A u \in Threads : pc[u] \in {"close_end", "open"} => pc'[u] = pc[u],
         \A p \in Pids : Running(p)' => child'[p] = child[p],
         \A p \in Pids : child'[p].holds \subseteq child[p].holds
  PROVE  Kept'
<1>1. NearKept'
  BY DEF Kept, NearKept
<1>2. \A p \in Pids : Running(p)' => Running(p)
  BY DEF Running
<1>3. MateKept'
  <2> SUFFICES ASSUME NEW p \in Pids, Running(p)', child'[p].kind \in {"r", "w"}
               PROVE  /\ \A q \in Pids : child'[p].mate \notin child'[q].holds
                      /\ child'[p].mate \in open' =>
                           /\ pc'[child'[p].owner] \in {"close_end", "open"}
                           /\ child'[p].mate = near'[child'[p].owner]
    BY DEF MateKept
  <2>1. child'[p] = child[p] /\ Running(p) /\ child[p].owner \in Threads
    BY <1>2 DEF Kept
  <2> QED BY <2>1 DEF Kept, MateKept
<1>4. \A p \in Pids : Running(p)' /\ child'[p].kind # "own" => child'[p].owner \in Threads
  BY <1>2 DEF Kept
<1> QED BY <1>1, <1>3, <1>4 DEF Kept

(* Closing ends.                                                           *)
LEMMA KeptClosed ==
  ASSUME IInv, Kept, NEW t \in Threads, Frame(t), mode' = mode, child' = child,
         NEW fds \in SUBSET Ends(t), HostClose(fds),
         HasEnd(t)' => HasEnd(t) /\ near'[t] = near[t] /\ near[t] \notin fds,
         pc[t] \in {"close_end", "open"} =>
           near[t] \in fds \/ (pc'[t] = "open" /\ near'[t] = near[t])
  PROVE  Kept'
<1>1. \A u \in Threads : u # t => pc'[u] = pc[u] /\ near'[u] = near[u] /\ (HasEnd(u)' <=> HasEnd(u))
  BY DEF Frame, HasEnd
<1>2. \A u \in Threads : u # t /\ HasEnd(u) => near[u] \notin fds
  BY NearAlone
<1>3. NearKept'
  BY <1>1, <1>2 DEF Kept, NearKept, HostClose
<1>4. MateKept'
  <2> SUFFICES ASSUME NEW p \in Pids, Running(p), child[p].kind \in {"r", "w"},
                      child[p].mate \in open'
               PROVE  /\ pc'[child[p].owner] \in {"close_end", "open"}
                      /\ child[p].mate = near'[child[p].owner]
    BY DEF Kept, MateKept, Running
  <2>1. /\ child[p].owner \in Threads /\ pc[child[p].owner] \in {"close_end", "open"}
        /\ child[p].mate = near[child[p].owner] /\ child[p].mate \notin fds
    BY DEF Kept, MateKept, HostClose
  <2> QED BY <1>1, <2>1
<1> QED BY <1>3, <1>4 DEF Kept, Running

(* A new child that is given neither a FILE's end nor a running child's    *)
(* other end.                                                              *)
LEMMA KeptSpawned ==
  ASSUME IInv, Kept, NEW t \in Threads, Frame(t), UNCHANGED <<mode, open, cloexec, near>>,
         HasEnd(t)' => HasEnd(t), pc[t] \notin {"close_end", "open"},
         NEW p \in Pids, NEW c, child' = [child EXCEPT ![p] = c],
         c.kind # "own" => c.owner = t,
         c.kind \in {"r", "w"} => c.mate = near[t] /\ pc'[t] = "close_end",
         \A u \in Threads : HasEnd(u) => near[u] \notin c.holds,
         \A q \in Pids : Running(q) /\ child[q].kind \in {"r", "w"} => child[q].mate \notin c.holds
  PROVE  Kept'
<1>1. child'[p] = c /\ \A q \in Pids : q # p => child'[q] = child[q]
  BY DEF IInv, TypeOK
<1>2. \A u \in Threads : /\ u # t => pc'[u] = pc[u]
                         /\ HasEnd(u)' => HasEnd(u)
  BY DEF Frame, HasEnd
<1>3. NearKept'
  BY <1>1, <1>2 DEF Kept, NearKept
<1>4. MateKept'
  <2>1. ASSUME c.kind \in {"r", "w"}
        PROVE  /\ \A q \in Pids : c.mate \notin child'[q].holds
               /\ pc'[c.owner] \in {"close_end", "open"} /\ c.mate = near'[c.owner]
    <3>1. c.owner = t /\ c.mate = near[t] /\ HasEnd(t)
      BY <1>2, <2>1 DEF HasEnd
    <3> QED BY <1>1, <2>1, <3>1 DEF Kept, NearKept
  <2>2. ASSUME NEW q \in Pids, q # p, Running(q), child[q].kind \in {"r", "w"}
        PROVE  /\ \A r \in Pids : child[q].mate \notin child'[r].holds
               /\ child[q].mate \in open =>
                    /\ pc'[child[q].owner] \in {"close_end", "open"}
                    /\ child[q].mate = near[child[q].owner]
    <3>1. child[q].owner \in Threads
      BY <2>2 DEF Kept
    <3>2. child[q].mate \in open => pc[child[q].owner] \in {"close_end", "open"} /\ child[q].owner # t
      BY <2>2 DEF Kept, MateKept
    <3> QED BY <1>1, <1>2, <2>2, <3>1, <3>2 DEF Kept, MateKept
  <2> QED BY <1>1, <2>1, <2>2 DEF MateKept, Running
<1>5. \A q \in Pids : Running(q)' /\ child'[q].kind # "own" => child'[q].owner \in Threads
  BY <1>1 DEF Kept, Running
<1> QED BY <1>3, <1>4, <1>5 DEF Kept

(* What a child may inherit, and the end dup2'd for it, are no such ends.  *)
LEMMA Inherited ==
  ASSUME IInv, Kept
  PROVE  LET h == IF Inherit THEN open \ cloexec ELSE {} IN
         /\ \A u \in Threads : HasEnd(u) => near[u] \notin h
         /\ \A q \in Pids : Running(q) /\ child[q].kind \in {"r", "w"} => child[q].mate \notin h
<1>1. ASSUME NEW q \in Pids, Running(q), child[q].kind \in {"r", "w"}, child[q].mate \in open, Inherit
      PROVE  child[q].mate \in cloexec
  <2>1. child[q].owner \in Threads /\ HasEnd(child[q].owner) /\ child[q].mate = near[child[q].owner]
    BY <1>1 DEF Kept, MateKept, HasEnd
  <2> QED BY <1>1, <2>1 DEF Kept, NearKept
<1> QED BY <1>1 DEF Kept, NearKept

LEMMA FarAlone ==
  ASSUME IInv, Kept, NEW t \in Threads, pc[t] = "spawn"
  PROVE  /\ \A u \in Threads : HasEnd(u) => near[u] # far[t]
         /\ \A q \in Pids : Running(q) /\ child[q].kind \in {"r", "w"} => child[q].mate # far[t]
<1>1. far[t] \in Ends(t) /\ far[t] \in open /\ far[t] # near[t]
  BY DEF IInv, EndsAccounted, EndsValid, Ends
<1>2. ASSUME NEW u \in Threads, HasEnd(u) PROVE near[u] # far[t]
  BY <1>1, <1>2, NearAlone
<1>3. ASSUME NEW q \in Pids, Running(q), child[q].kind \in {"r", "w"} PROVE child[q].mate # far[t]
  <2> SUFFICES ASSUME child[q].mate = far[t] PROVE FALSE
    OBVIOUS
  <2>1. child[q].owner \in Threads /\ HasEnd(child[q].owner) /\ child[q].mate = near[child[q].owner]
    BY <1>1, <1>3 DEF Kept, MateKept, HasEnd
  <2> QED BY <1>2, <2>1
<1> QED BY <1>2, <1>3

LEMMA KeptStep ==
  ASSUME IInv, Kept, ~Inherit \/ Modes = {"w"}, NEW t \in Threads, ThreadStep(t)
  PROVE  Kept'
<1>1. /\ TypeOK /\ EndsValid /\ Frame(t) /\ mode \in [Threads -> Modes]
      /\ \A u \in Threads : u # t => pc'[u] = pc[u] /\ near'[u] = near[u] /\ (HasEnd(u)' <=> HasEnd(u))
  BY StepFrame DEF IInv, Frame, HasEnd, Kept
<1> USE DEF TypeOK, Goto, Returns, Forget, host
<1>2. CASE \/ Popen(t) \/ System(t) \/ SystemSplit(t) \/ Actions(t) \/ Split(t)
           \/ Fdopen(t) /\ pc'[t] # "idle"
           \/ Pair(t) /\ pc'[t] = "idle"
           \/ Spawn(t) /\ pc'[t] = "cleanup"
           \/ SystemSpawn(t) /\ pc'[t] = "idle"
  <2>1. /\ child' = child /\ open' = open /\ cloexec' = cloexec /\ near' = near
        /\ mode' \in [Threads -> Modes]
        /\ pc[t] \notin {"close_end", "open"}
    BY <1>1, <1>2 DEF Popen, System, SystemSplit, Actions, Split, Fdopen, Pair, PairFails, Spawn, SystemSpawn
  <2>2. HasEnd(t)' => HasEnd(t)
    BY <1>1, <1>2 DEF HasEnd, Popen, System, SystemSplit, Actions, Split, Fdopen, Pair, PairFails, Spawn, SystemSpawn
  <2> QED BY <1>1, <2>1, <2>2, KeptFewer DEF Running
<1>3. CASE Pair(t) /\ pc'[t] # "idle"
  <2>1. PICK a \in FreeFds, b \in FreeFds :
          /\ a # b /\ open' = open \cup {a, b} /\ cloexec' = cloexec \cup {b}
          /\ near' = [near EXCEPT ![t] = IF mode[t] = "r" THEN a ELSE b]
          /\ child' = child /\ mode' = mode /\ pc[t] = "pair" /\ pc'[t] = "fdopen"
    BY <1>1, <1>3 DEF Pair, PairFails, Cloexec
  <2>2. /\ near'[t] \in {a, b} /\ (Inherit => near'[t] = b)
    BY <1>1, <2>1
  <2>3. \A p \in Pids : /\ a \notin child[p].holds /\ b \notin child[p].holds
                        /\ Running(p) => child[p].mate # a /\ child[p].mate # b
    BY DEF FreeFds, Alive
  <2>4. NearKept'
    BY <1>1, <2>1, <2>2, <2>3 DEF Kept, NearKept
  <2>5. MateKept'
    <3> SUFFICES ASSUME NEW p \in Pids, Running(p), child[p].kind \in {"r", "w"}, child[p].mate \in open
                 PROVE  /\ pc'[child[p].owner] \in {"close_end", "open"}
                        /\ child[p].mate = near'[child[p].owner]
      BY <2>1, <2>3 DEF Kept, MateKept, Running
    <3>1. /\ child[p].owner \in Threads /\ pc[child[p].owner] \in {"close_end", "open"}
          /\ child[p].mate = near[child[p].owner]
      BY DEF Kept, MateKept
    <3> QED BY <1>1, <2>1, <3>1
  <2> QED BY <2>1, <2>4, <2>5 DEF Kept, Running
<1>4. CASE Cleanup(t) \/ (Fdopen(t) /\ pc'[t] = "idle")
  <2>1. /\ HostClose({near[t], far[t]}) /\ pc'[t] = "idle" /\ child' = child /\ mode' = mode
        /\ pc[t] \in {"fdopen", "cleanup"}
    BY <1>1, <1>4 DEF Cleanup, Fdopen
  <2>2. {near[t], far[t]} \in SUBSET Ends(t) /\ ~HasEnd(t)'
    BY <2>1 DEF Ends, HasEnd
  <2> QED BY <1>1, <2>1, <2>2, KeptClosed
<1>5. CASE CloseEnd(t)
  <2>1. /\ HostClose({far[t]}) /\ pc[t] = "close_end" /\ pc'[t] = "open" /\ child' = child
        /\ mode' = mode /\ near'[t] = near[t] /\ near[t] # far[t]
    BY <1>1, <1>5 DEF CloseEnd, EndsValid
  <2>2. {far[t]} \in SUBSET Ends(t) /\ HasEnd(t)
    BY <2>1 DEF Ends, HasEnd
  <2> QED BY <1>1, <2>1, <2>2, KeptClosed
<1>6. CASE Pclose(t)
  <2>1. /\ HostClose({near[t]}) /\ pc[t] = "open" /\ pc'[t] = "pclose_wait" /\ child' = child
        /\ mode' = mode
    BY <1>1, <1>6 DEF Pclose
  <2>2. {near[t]} \in SUBSET Ends(t) /\ ~HasEnd(t)'
    BY <2>1 DEF Ends, HasEnd
  <2> QED BY <1>1, <2>1, <2>2, KeptClosed
<1>7. CASE Spawn(t) /\ pc'[t] # "cleanup"
  <2>1. PICK p \in Pids : child' = [child EXCEPT ![p] = Spawned(t, mode[t])]
    BY <1>1, <1>7 DEF Spawn, HostSpawn
  <2>2. /\ UNCHANGED <<mode, open, cloexec, near>> /\ pc[t] = "spawn" /\ pc'[t] = "close_end"
        /\ HasEnd(t)
    BY <1>1, <1>7 DEF Spawn, HasEnd
  <2>3. /\ Spawned(t, mode[t]).owner = t /\ Spawned(t, mode[t]).kind = mode[t]
        /\ Spawned(t, mode[t]).mate = near[t] /\ mode[t] # "system"
        /\ Spawned(t, mode[t]).holds = {far[t]} \cup (IF Inherit THEN open \ cloexec ELSE {})
    BY <1>1 DEF Spawned
  <2>4. \A u \in Threads : HasEnd(u) => near[u] \notin Spawned(t, mode[t]).holds
    BY <2>2, <2>3, FarAlone, Inherited
  <2>5. \A q \in Pids : Running(q) /\ child[q].kind \in {"r", "w"} =>
          child[q].mate \notin Spawned(t, mode[t]).holds
    BY <2>2, <2>3, FarAlone, Inherited
  <2> QED BY <1>1, <2>1, <2>2, <2>3, <2>4, <2>5, KeptSpawned
<1>8. CASE SystemSpawn(t) /\ pc'[t] # "idle"
  <2>1. PICK p \in Pids : child' = [child EXCEPT ![p] = Spawned(t, "system")]
    BY <1>1, <1>8 DEF SystemSpawn, HostSpawn
  <2>2. UNCHANGED <<mode, open, cloexec, near>> /\ pc[t] = "sys_spawn" /\ pc'[t] = "sys_wait"
    BY <1>1, <1>8 DEF SystemSpawn
  <2>3. /\ Spawned(t, "system").owner = t /\ Spawned(t, "system").kind = "system"
        /\ Spawned(t, "system").holds = (IF Inherit THEN open \ cloexec ELSE {})
    BY DEF Spawned
  <2>4. ~HasEnd(t)'
    BY <2>2 DEF HasEnd
  <2>5. /\ \A u \in Threads : HasEnd(u) => near[u] \notin Spawned(t, "system").holds
        /\ \A q \in Pids : Running(q) /\ child[q].kind \in {"r", "w"} =>
             child[q].mate \notin Spawned(t, "system").holds
    BY <2>3, Inherited
  <2> QED BY <1>1, <2>1, <2>2, <2>3, <2>4, <2>5, KeptSpawned
<1>9. CASE SpawnOwn(t)
  <2>1. PICK p \in Pids : child' = [child EXCEPT ![p] = Own]
    BY <1>9 DEF SpawnOwn
  <2>2. UNCHANGED <<mode, open, cloexec, near, pc>> /\ pc[t] = "idle"
    BY <1>9 DEF SpawnOwn, callVars
  <2>3. Own.kind = "own" /\ Own.holds = (IF Inherit THEN open \ cloexec ELSE {})
    BY DEF Own
  <2>4. ~HasEnd(t)'
    BY <2>2 DEF HasEnd
  <2>5. /\ \A u \in Threads : HasEnd(u) => near[u] \notin Own.holds
        /\ \A q \in Pids : Running(q) /\ child[q].kind \in {"r", "w"} => child[q].mate \notin Own.holds
    BY <2>3, Inherited
  <2> QED BY <1>1, <2>1, <2>2, <2>3, <2>4, <2>5, KeptSpawned
<1>10. CASE WaitOwn(t) \/ WaitAny(t)
  <2>1. /\ UNCHANGED <<mode, open, cloexec, near>> /\ pc[t] \notin {"close_end", "open"}
        /\ pc'[t] \in {pc[t], "idle"}
    BY <1>1, <1>10 DEF WaitOwn, EndWait, Interrupted, WaitAny
  <2>2. HasEnd(t)' => HasEnd(t)
    BY <2>1 DEF HasEnd
  <2>3. child' = child \/ \E p : Reap(p)
    BY <1>10 DEF WaitOwn, WaitAny
  <2>4. \A p \in Pids : child'[p] = child[p] \/ child'[p] = NoChild
    BY <1>1, <2>3 DEF Reap
  <2>5. \A p \in Pids : /\ Running(p)' => child'[p] = child[p]
                        /\ child'[p].holds \subseteq child[p].holds
    BY <2>4 DEF Running, NoChild
  <2> QED BY <1>1, <2>1, <2>2, <2>5, KeptFewer
<1> QED BY <1>2, <1>3, <1>4, <1>5, <1>6, <1>7, <1>8, <1>9, <1>10 DEF ThreadStep, Step

LEMMA KeptNext == IInv /\ Kept /\ (~Inherit \/ Modes = {"w"}) /\ [Next]_vars => Kept'
<1> SUFFICES ASSUME IInv, Kept, ~Inherit \/ Modes = {"w"}, [Next]_vars PROVE Kept'
  OBVIOUS
<1>1. ASSUME NEW t \in Threads, ThreadStep(t) PROVE Kept'
  BY <1>1, KeptStep
<1>2. ASSUME NEW p \in Pids, ChildExit(p) PROVE Kept'
  <2>1. UNCHANGED <<pc, mode, near, open, cloexec>>
    BY <1>2 DEF ChildExit, callVars
  <2>2. \A q \in Pids : /\ Running(q)' => child'[q] = child[q]
                        /\ child'[q].holds \subseteq child[q].holds
    BY <1>2 DEF ChildExit, Running, IInv, TypeOK, Child
  <2> QED BY <2>1, <2>2, KeptFewer DEF HasEnd, Kept
<1>3. CASE UNCHANGED vars
  BY <1>3, KeptFewer DEF vars, HasEnd, Kept, Running
<1> QED BY <1>1, <1>2, <1>3 DEF Next, ThreadStep

(* Nobody waits for a child that has no reason to end: when pclose() waits *)
(* for it, neither the guest nor any child, its own or another thread's,   *)
(* still holds the other end of its stream.                                *)
THEOREM WaitedForEndsHolds == Spec => []WaitedForEnds
<1>1. CASE ~Inherit \/ Modes = {"w"}
  <2>1. Init => Kept
    BY DEF Init, Kept, NearKept, MateKept, HasEnd, Running, NoChild
  <2>2. IInv /\ Kept /\ [Next]_vars => Kept'
    BY <1>1, KeptNext
  <2>3. IInv /\ Kept => WaitedForEnds
    <3> SUFFICES ASSUME IInv, Kept, NEW p \in Pids, Running(p), child[p].kind # "own",
                        pc[child[p].owner] \in {"pclose_wait", "sys_wait"}
                 PROVE  MustExit(p)
      BY DEF WaitedForEnds
    <3>1. child[p].kind \in {"r", "w", "system"}
      BY DEF IInv, TypeOK, Child
    <3>2. CASE child[p].kind \in {"r", "w"}
      <4>1. child[p].mate \notin open /\ \A q \in Pids : child[p].mate \notin child[q].holds
        BY <3>2 DEF Kept, MateKept
      <4> QED BY <4>1 DEF MustExit, Alive
    <3> QED BY <3>1, <3>2 DEF MustExit
  <2> QED BY <2>1, <2>2, <2>3, Invariance, PTL DEF Spec
<1>2. CASE Inherit /\ Modes # {"w"}
  <2>1. WaitedForEnds
    BY <1>2 DEF WaitedForEnds
  <2>2. TRUE => WaitedForEnds
    BY <2>1
  <2> QED BY <2>2, PTL
<1> QED BY <1>1, <1>2
=============================================================================
