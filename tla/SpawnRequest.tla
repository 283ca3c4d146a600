---------------------------- MODULE SpawnRequest ----------------------------
(***************************************************************************)
(* posix_spawnp() of wamr-ext-libc/src/process.c, lines 184-251: it turns  *)
(* musl's list of file actions and the argument vector into a request for  *)
(* the host, makes the request, and frees what it built.  One step is one  *)
(* iteration of a loop.                                                    *)
(*                                                                         *)
(* musl's posix_spawn_file_actions_add*() put each action at the head of   *)
(* the list, so __actions is the newest and op->next goes back in time.    *)
(***************************************************************************)
EXTENDS Naturals, Sequences

CONSTANTS
  Args,         \* program names and arguments
  ActionLists,  \* the lists of file actions that callers pass
  ArgLists,     \* the argument vectors that callers pass
  Faults,       \* what may fail: "memory", "host"
  Null

(* Of an action only its kind matters here; its descriptors are copied.    *)
(* An argument vector is the memory that exec_argv points to, up to the    *)
(* last NULL in it: popen() and system() may pass one with a NULL before   *)
(* that (SplitCmdline).  It is empty where exec_argv itself is NULL.       *)
ASSUME RequestAssumption ==
  /\ ActionLists \subseteq Seq({"dup2", "close", "open"})
  /\ ArgLists \subseteq Seq(Args \cup {Null})
  /\ \A v \in ArgLists : v # << >> => v[Len(v)] = Null

VARIABLES
  pc,
  added,      \* the file actions in the order in which they were added
  file,       \* the program, or "" when none is named
  exec_argv,  \* the argument vector
  op,         \* the action the loop is at: its place in added, or 0
  fa,         \* req.fa, head first; a node is the place of its action
  heap,       \* the nodes that are allocated
  argc,       \* req.argc: req.argv is exec_argv from its second place on
  request,    \* history: req.fa as the host was given it
  lost,       \* history: actions whose node could not be allocated
  ret         \* the returned error; *pid is set when it is "ok"

input == <<added, file, exec_argv>>
vars == <<pc, added, file, exec_argv, op, fa, heap, argc, request, lost, ret>>

Init ==
  /\ pc = "begin"
  /\ added \in ActionLists /\ exec_argv \in ArgLists
  /\ file \in Args \cup {""}
  /\ op = Len(added)
  /\ fa = << >> /\ heap = {} /\ argc = 0
  /\ request = << >> /\ lost = {}
  /\ ret = "none"

Goto(from, to) == pc = from /\ pc' = to

Refuse ==
  /\ Goto("begin", "done")
  /\ file = ""
  /\ ret' = "EINVAL"
  /\ UNCHANGED <<input, op, fa, heap, argc, request, lost>>

(* Mutant: that the vector names nothing at all is not looked for.         *)
HasName_PointerOnly == exec_argv # << >>
HasName == exec_argv # << >> /\ exec_argv[1] # Null

Begin ==
  /\ Goto("begin", IF HasName THEN "count" ELSE "build")
  /\ file # ""
  /\ UNCHANGED <<input, op, fa, heap, argc, request, lost, ret>>

(* exec_argv[0] is ignored; req.argv[req.argc] is the place after the next.*)
Count ==
  /\ pc = "count"
  /\ IF exec_argv[argc + 2] = Null THEN pc' = "build" /\ UNCHANGED argc
     ELSE argc' = argc + 1 /\ UNCHANGED pc
  /\ UNCHANGED <<input, op, fa, heap, request, lost, ret>>

IsDup2(k) == added[k] = "dup2"

(* Mutant: the new node goes to the end of the list.                       *)
Link_AtEnd(k) == fa' = Append(fa, k)
Link(k) == fa' = <<k>> \o fa

(* Only dup2 has a counterpart in the request.  malloc() is not checked:   *)
(* without memory the fields are written through NULL, which WebAssembly   *)
(* does not trap, and no node is linked.                                   *)
Translate ==
  /\ pc = "build" /\ op > 0
  /\ op' = op - 1
  /\ \/ /\ IsDup2(op)
        /\ Link(op)
        /\ heap' = heap \cup {op}
        /\ UNCHANGED lost
     \/ /\ IsDup2(op) /\ "memory" \in Faults
        /\ lost' = lost \cup {op}
        /\ UNCHANGED <<fa, heap>>
     \/ /\ ~IsDup2(op)
        /\ UNCHANGED <<fa, heap, lost>>
  /\ UNCHANGED <<pc, input, argc, request, ret>>

(* Mutant: a refused request is not freed.                                 *)
AfterCall_FreesOnSuccess(err) == IF err = "ok" THEN "free" ELSE "done"
AfterCall(err) == "free"

HostCall ==
  /\ pc = "build" /\ op = 0
  /\ request' = fa
  /\ \E err \in {"ok"} \cup (IF "host" \in Faults THEN {"ENOENT"} ELSE {}) :
       /\ ret' = err
       /\ pc' = AfterCall(err)
  /\ UNCHANGED <<input, op, fa, heap, argc, lost>>

FreeNode ==
  /\ pc = "free" /\ fa # << >>
  /\ heap' = heap \ {Head(fa)}
  /\ fa' = Tail(fa)
  /\ UNCHANGED <<pc, input, op, argc, request, lost, ret>>

Return ==
  /\ Goto("free", "done")
  /\ fa = << >>
  /\ UNCHANGED <<input, op, fa, heap, argc, request, lost, ret>>

Next == Refuse \/ Begin \/ Count \/ Translate \/ HostCall \/ FreeNode \/ Return

Spec == Init /\ [][Next]_vars

-----------------------------------------------------------------------------
(* Properties.                                                             *)

TypeOK ==
  /\ pc \in {"begin", "count", "build", "free", "done"}
  /\ added \in ActionLists /\ exec_argv \in ArgLists /\ file \in Args \cup {""}
  /\ op \in 0 .. Len(added)
  /\ fa \in Seq(1 .. Len(added)) /\ request \in Seq(1 .. Len(added))
  /\ heap \subseteq 1 .. Len(added) /\ lost \subseteq 1 .. Len(added)
  /\ argc \in Nat
  /\ ret \in {"none", "ok", "ENOENT", "EINVAL"}

Called == ret \in {"ok", "ENOENT"}

(* The host gets the dup2 actions in the order in which the program added  *)
(* them, each once and none that is missing for another reason than        *)
(* memory: walking the newest-first list and linking at the head undo each *)
(* other.  Order matters when one action's target is another's source.     *)
RequestInOrder ==
  Called =>
    /\ \A i, j \in 1 .. Len(request) : i < j => request[i] < request[j]
    /\ {request[i] : i \in 1 .. Len(request)} = {k \in 1 .. Len(added) : IsDup2(k)} \ lost

(* Every node is freed, whether the host spawned the child or not, and     *)
(* until then the list holds exactly the nodes that are allocated.         *)
NodesFreed ==
  /\ heap = {fa[i] : i \in 1 .. Len(fa)}
  /\ pc = "done" => heap = {}

(* The count of the arguments never looks behind the vector's memory, and  *)
(* the host is given the arguments from the second up to the first NULL,   *)
(* and those only, with a NULL in the middle and with none at all (lines   *)
(* 214-219).                                                               *)
FirstNull(k) ==
  /\ k \in DOMAIN exec_argv /\ exec_argv[k] = Null
  /\ \A i \in 1 .. k - 1 : exec_argv[i] # Null
ArgumentsCounted ==
  /\ pc = "count" => argc + 2 <= Len(exec_argv)
  /\ Called => IF exec_argv = << >> \/ FirstNull(1) THEN argc = 0 ELSE FirstNull(argc + 2)

-----------------------------------------------------------------------------
(* Why they hold: with the types, an inductive invariant.                  *)

Places(s) == {s[i] : i \in 1 .. Len(s)}
Increasing(s) == \A i, j \in 1 .. Len(s) : i < j => s[i] < s[j]
Wanted(from) == {k \in from .. Len(added) : IsDup2(k)}

(* What is linked so far: all the later dup2 actions, in order.            *)
Built ==
  /\ Increasing(fa) /\ heap = Places(fa)
  /\ pc \in {"begin", "count"} => fa = << >> /\ lost = {} /\ op = Len(added)
  /\ pc \in {"begin", "count", "build"} => Places(fa) = Wanted(op + 1) \ lost /\ lost \subseteq op + 1 .. Len(added)
  /\ pc = "done" => fa = << >>

Stage ==
  /\ pc \in {"begin", "count", "build"} => ret = "none"
  /\ pc = "free" => ret \in {"ok", "ENOENT"}

(* What is counted so far are arguments.                                   *)
Counted ==
  /\ pc = "begin" => argc = 0
  /\ pc = "count" => \A i \in 1 .. argc + 1 : i \in DOMAIN exec_argv /\ exec_argv[i] # Null
  /\ pc = "build" \/ Called => IF HasName THEN FirstNull(argc + 2) ELSE argc = 0

IInv == TypeOK /\ Built /\ Stage /\ Counted /\ RequestInOrder
=============================================================================
