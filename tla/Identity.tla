------------------------------ MODULE Identity ------------------------------
(***************************************************************************)
(* Who am I: getpid(), gettid() and gethostname() of wamr-ext-libc/src/    *)
(* utility.c, the thread names of src/pthread_ext.c.  getpid() keeps its   *)
(* answer in a variable all threads share and nothing protects; gettid()   *)
(* and the names use thread-local variables, so that their calls are one   *)
(* step each.  Threads end, and others start in their place.               *)
(***************************************************************************)
EXTENDS Naturals, Sequences

CONSTANTS
  Threads,
  Pid,         \* the host's answer to "sysinfo.pid"
  Tids,        \* the host's thread numbers
  Chars,
  Names,       \* the names programs give to threads: sequences of characters
  NameSize,    \* the size of thread_name, 32
  Node,        \* uname()'s nodename
  Lengths,     \* the buffer sizes programs use
  NUL

ASSUME IdentityAssumption ==
  /\ Pid \in Nat \ {0} /\ Tids \subseteq Nat \ {0}
  /\ NameSize \in Nat \ {0} /\ Lengths \subseteq Nat
  /\ Names \subseteq Seq(Chars) /\ Node \in Seq(Chars) /\ NUL \notin Chars

VARIABLES
  g_pid,   \* the cached process number
  pc,      \* where each thread is in getpid()
  tmp,     \* its temp_pid
  doubt,   \* history: a sysctl for the number failed in some thread's call
           \* while this thread's call was under way, or before it and the 0
           \* was yet to be stored when it began
  tid,     \* the threads' tid variables
  name,    \* the threads' thread_name
  host,    \* the number the host gave each thread
  named,   \* history: the name each thread last gave itself
  last     \* the answer of the call that has just ended

vars == <<g_pid, pc, tmp, doubt, tid, name, host, named, last>>
pidVars == <<g_pid, pc, tmp, doubt>>
tlsVars == <<tid, name, host, named>>

Nothing == [by |-> "none", thread |-> 0, value |-> 0, whole |-> << >>]

Init ==
  /\ g_pid = 0 /\ last = Nothing
  /\ pc = [t \in Threads |-> "idle"] /\ tmp = [t \in Threads |-> 0]
  /\ doubt = [t \in Threads |-> FALSE]
  /\ tid = [t \in Threads |-> 0] /\ name = [t \in Threads |-> << >>]
  /\ host \in {h \in [Threads -> Tids] :
                 \A t, u \in Threads : h[t] = h[u] => t = u}
  /\ named = [t \in Threads |-> << >>]

(* What snprintf() leaves of a string in a buffer.                         *)
Cut(s, size) == IF size = 0 THEN << >>
                ELSE SubSeq(s, 1, IF Len(s) < size THEN Len(s) ELSE size - 1)

-----------------------------------------------------------------------------
(* getpid().                                                               *)

(* Mutant: whatever is there is taken.                                     *)
Cached_Any(v) == TRUE
Cached(v) == v # 0

(* A thread that has failed and has not yet stored its 0 puts every call   *)
(* in doubt.                                                               *)
GetPid(t) ==
  /\ pc[t] = "idle"
  /\ pc' = [pc EXCEPT ![t] = IF Cached(g_pid) THEN "return" ELSE "ask"]
  /\ tmp' = [tmp EXCEPT ![t] = g_pid]
  /\ doubt' = [doubt EXCEPT
       ![t] = \E u \in Threads : pc[u] = "store" /\ tmp[u] = 0]
  /\ last' = Nothing
  /\ UNCHANGED <<g_pid, tlsVars>>

(* wamr_ext_sysctl(): on an error the buffer keeps its 0.                  *)
AskPid(t) ==
  /\ pc[t] = "ask"
  /\ pc' = [pc EXCEPT ![t] = "store"]
  /\ \/ tmp' = [tmp EXCEPT ![t] = Pid] /\ UNCHANGED doubt
     \/ /\ tmp' = [tmp EXCEPT ![t] = 0]
        /\ doubt' = [u \in Threads |-> doubt[u] \/ u = t \/ pc[u] # "idle"]
  /\ last' = Nothing
  /\ UNCHANGED <<g_pid, tlsVars>>

StorePid(t) ==
  /\ pc[t] = "store"
  /\ g_pid' = tmp[t]
  /\ pc' = [pc EXCEPT ![t] = "return"]
  /\ last' = Nothing
  /\ UNCHANGED <<tmp, doubt, tlsVars>>

(* The variable is read again, or the value the thread last saw is used:   *)
(* the compiler may do either.                                             *)
ReturnPid(t) ==
  /\ pc[t] = "return"
  /\ \E v \in {g_pid, tmp[t]} :
       last' = [Nothing EXCEPT !.by = "getpid", !.thread = t, !.value = v]
  /\ pc' = [pc EXCEPT ![t] = "idle"] /\ tmp' = [tmp EXCEPT ![t] = 0]
  /\ UNCHANGED <<g_pid, doubt, tlsVars>>

-----------------------------------------------------------------------------
(* gettid() and the thread names.                                          *)

(* Mutants: the variable is static, one for all threads.                   *)
TidOf_Static(t) == CHOOSE u \in Threads : TRUE
TidOf(t) == t
NameOf_Static(t) == CHOOSE u \in Threads : TRUE
NameOf(t) == t

(* A sysctl that fails leaves 0, which is asked for again.                 *)
GetTid(t) ==
  /\ pc[t] = "idle"
  /\ \E answer \in IF tid[TidOf(t)] = 0 THEN {0, host[t]}
                   ELSE {tid[TidOf(t)]} :
       /\ tid' = [tid EXCEPT ![TidOf(t)] = answer]
       /\ last' = [Nothing EXCEPT !.by = "gettid", !.thread = t,
                                  !.value = answer]
  /\ UNCHANGED <<pidVars, name, host, named>>

(* A null name is EINVAL; the host's name for the thread serves debugging  *)
(* only.                                                                   *)
SetName(t, new) ==
  /\ pc[t] = "idle"
  /\ name' = [name EXCEPT ![NameOf(t)] = Cut(new, NameSize)]
  /\ named' = [named EXCEPT ![t] = new]
  /\ last' = Nothing
  /\ UNCHANGED <<pidVars, tid, host>>

GetName(t, len) ==
  /\ pc[t] = "idle"
  /\ last' = [Nothing EXCEPT !.by = "getname", !.thread = t, !.value = len,
                             !.whole = Cut(name[NameOf(t)], len)]
  /\ UNCHANGED <<pidVars, tlsVars>>

(* A thread ends and another takes its place, with fresh variables.        *)
Restart(t) ==
  /\ pc[t] = "idle"
  /\ \E n \in Tids \ {host[u] : u \in Threads} :
       host' = [host EXCEPT ![t] = n]
  /\ tid' = [tid EXCEPT ![t] = 0] /\ name' = [name EXCEPT ![t] = << >>]
  /\ named' = [named EXCEPT ![t] = << >>]
  /\ last' = Nothing
  /\ UNCHANGED pidVars

-----------------------------------------------------------------------------
(* gethostname(): value is 1 on success, 0 on an error: uname() failed and *)
(* nothing is written, or the name does not fit (ENAMETOOLONG).            *)

(* Mutant: the terminator is not counted.                                  *)
NodeLen_NoTerminator == Len(Node)
NodeLen == Len(Node) + 1

GetHostName(t, len) ==
  /\ pc[t] = "idle"
  /\ LET copied == IF len < NodeLen THEN len ELSE NodeLen
         outcome == [Nothing EXCEPT !.by = "gethostname", !.thread = t] IN
     \/ last' = outcome
     \/ last' = [outcome EXCEPT
                   !.whole = SubSeq(Append(Node, NUL), 1, copied),
                   !.value = IF NodeLen > len THEN 0 ELSE 1]
  /\ UNCHANGED <<pidVars, tlsVars>>

Next ==
  \E t \in Threads :
    \/ GetPid(t) \/ AskPid(t) \/ StorePid(t) \/ ReturnPid(t)
    \/ GetTid(t) \/ Restart(t)
    \/ \E n \in Names : SetName(t, n)
    \/ \E len \in Lengths : GetName(t, len) \/ GetHostName(t, len)

Spec == Init /\ [][Next]_vars

-----------------------------------------------------------------------------
(* The types of the variables that calls read.                             *)
TypeOK ==
  /\ g_pid \in {0, Pid}
  /\ pc \in [Threads -> {"idle", "ask", "store", "return"}]
  /\ tmp \in [Threads -> {0, Pid}] /\ doubt \in [Threads -> BOOLEAN]
  /\ tid \in [Threads -> Tids \cup {0}] /\ host \in [Threads -> Tids]
  /\ name \in [Threads -> Seq(Chars)] /\ named \in [Threads -> Seq(Chars)]

(* getpid() answers the process's number, or 0 if a sysctl failed in some  *)
(* thread while the call was under way, or had failed before it in one     *)
(* that had not stored its 0 yet; a failure whose 0 is stored does no harm *)
(* to later calls (lines 27-33 of utility.c).                              *)
PidRight ==
  last.by = "getpid" =>
    last.value = Pid \/ (last.value = 0 /\ doubt[last.thread])

(* A thread is told its own number, or 0 if the host does not say, never   *)
(* that of a thread before it or beside it (lines 37-42 of utility.c).     *)
OwnTid ==
  last.by = "gettid" => last.value \in {0, host[last.thread]}

(* A thread reads the name it gave itself, cut to the shorter of the two   *)
(* buffers (lines 13-30 of pthread_ext.c).                                 *)
OwnName ==
  last.by = "getname" =>
    last.whole = Cut(Cut(named[last.thread], NameSize), last.value)

(* gethostname() succeeds only with the whole name and its terminator in   *)
(* the buffer (lines 15-21 of utility.c).                                  *)
HostNameWhole ==
  last.by = "gethostname" =>
    (last.value = 1 <=> last.whole = Append(Node, NUL))

-----------------------------------------------------------------------------
(* Why they hold.                                                          *)

(* A 0 that is yet to be stored puts every call under way in doubt, and a  *)
(* call about to return finds the number twice unless it is in doubt.      *)
Doubtful ==
  /\ (\E u \in Threads : pc[u] = "store" /\ tmp[u] = 0) =>
       \A t \in Threads : pc[t] # "idle" => doubt[t]
  /\ \A t \in Threads : pc[t] = "return" /\ ~doubt[t] => g_pid = Pid /\ tmp[t] = Pid

(* The thread-local variables are those of their thread.                   *)
OwnVariables ==
  \A t \in Threads : tid[t] \in {0, host[t]} /\ name[t] = Cut(named[t], NameSize)

IInv == TypeOK /\ Doubtful /\ OwnVariables
=============================================================================
