# wamr-ext-libc in TLA+

`wamr-ext-libc` gives programs compiled to WebAssembly the POSIX calls that
WASI lacks: sockets, child processes, record locks, network interfaces, signal
sets.  Most functions turn their arguments into one *host call*
(`__imported_wamr_ext_syscall`) and its answer into a result and `errno`.  The
interesting ones build a POSIX call out of several host calls, and that is what
can go wrong between threads, on failures, and at limits.

These modules model those functions, model-check them on small instances, and
prove the main safety properties for all instances.  Paths below are relative
to `src/wamr-ext-libc/`.

## The system

| Part | State | Operations | Talks to |
|---|---|---|---|
| Socketpair emulation, `src/socket_api.c` 531-609 | locals of the call; descriptors, ports and connections in the host | `socketpair` | host sockets; other threads, through ports and descriptors |
| Socket names, `src/socket_api.c` 33-357 | the program's address buffer and its length | `bind`, `connect`, `sendto`, `sendmsg`; `accept`, `getsockname`, `getpeername`, `recvfrom`, `recvmsg` | host sockets |
| Other socket calls, `src/socket_api.c` 142-153, 215-268 | none | `listen`, `shutdown`, `getsockopt`, `setsockopt` | host |
| Network interfaces, `src/socket_api.c` 359-529 | tables, lists and arrays on the heap | `getifaddrs`, `freeifaddrs`, `if_nametoindex`, `if_indextoname`, `if_nameindex`, `if_freenameindex` | host, which allocates through a callback |
| Command lines, `src/process.c` 22-81 | scan position, quote, escape, buffer, growing `argv` | `__process_split_cmdline`, `__process_add_arg` | called by `popen`, `system` |
| Child processes, `src/process.c` 84-173, 253-278 | `FILE` with `pipe_pid`; descriptors; children in the host | `popen`, `pclose`, `system`, `wait`, `waitpid` | `socketpair`, the splitting, `posix_spawnp`, host |
| Spawning, `src/process.c` 175-251 | the request and its list of nodes | `posix_spawn`, `posix_spawnp` | musl's file actions; host |
| Files, `src/filesystem.c` 46-68, 90-150 | record locks, in the host | `statvfs`, `fstatvfs`, `fcntl` locks, `flock` | host; patched `fcntl` of wasi-libc |
| Signal sets, `src/signal.c` | a word | `sigaddset` and the like | nothing |
| Identity, `src/utility.c`, `src/wamr_ext.c`, `src/pthread_ext.c` | `g_pid`, thread-local `tid` and `thread_name` | `getpid`, `gettid`, `gethostname`, `wamr_ext_sysctl`, `pthread_setname_np`, `pthread_getname_np` | host |
| `src/sysconf.c`, `src/malloc.c` | none | one host call each | host |
| `src/cxxabi.c`, `src/user_group.c`, `src/main.c` | none | constant answers, forwarding | nothing, host |

Around it are patches of wasi-libc, build scripts, scripts for third-party
libraries, and test programs.

How parts interact: `popen` calls `socketpair(AF_LOCAL, ...)`, which works
because `include/sys/socket.h:42` defines `AF_LOCAL` as `AF_INET`; it then
splits the command line, builds file actions, and calls `posix_spawnp`; the
`FILE` carries the pid to `pclose`, which closes and waits.  `socketpair` calls
`bind`, `connect` and `accept`, whose addresses pass through the conversions.

What is hard, and what makes each part correct:

* **Threads race.**  `socketpair` lets the host accept whichever connection is
  queued on a random port; the pair must still be connected to itself
  (`PairConnected`), and nobody else's touched (`OthersUntouched`).  `popen`,
  `pclose`, `system` and `wait` of several threads share descriptors and children
  (`EndsAccounted`, `AnswersOwn`).  `getpid`
  fills a variable that nothing protects (`PidRight`); the threads of a process
  share its record locks, and another process waits for them (`FlockExcludes`).
* **Any step can fail.**  Both `socketpair` and `popen` have a failure path per
  step, and must give back exactly what they hold (`Ownership`,
  `EndsAccounted`, `NothingLeft`, `NodesFreed`, `NothingLeaks`,
  `DescriptorsAccounted`).  An argument that could not be allocated looks like
  the end of `argv` to all that read it: what is lost then, and nothing else,
  is said by `LostBehindNull`, `NothingLeft` and `ArgumentsCounted`.
* **Calls block.**  `accept` waits for a connection the same thread began
  (`AwaitsOwn`, `ReturnsUnlessNotStarted`), and nothing before or after it may go
  round for ever (`CallsMoveOn`); `pclose` waits for a child that waits
  for its input to end (`WaitedForEnds`, `WaitReturns`); `flock` waits unless it
  was told not to (`NonBlocking`).
* **Signals interrupt**, so a wait is repeated (`ChildrenAccounted`,
  `AnswersOwn`).
* **Buffers end.**  `argv` grows by five (`InBounds`); addresses are cut to a
  length that each call reads and writes (`NoOverrun`, `NameSurvives`);
  interface names are cut (`IndexComesBack`), as are host and thread names
  (`HostNameWhole`, `OwnName`); signal numbers exceed the word, and the shift
  (`MembersAsAsked`).
* **Order and quoting.**  File actions are kept newest first and linked at the
  head (`RequestInOrder`); quotes and escapes interact (`SplitsAsDefined`,
  `RoundTrip`); the array of `if_nameindex` ends with the entry that
  `if_freenameindex` looks for (`NamesListed`).

The complete list of hazards with their lines, including those no property
covers yet, is in `PROJECT.json`.

## Modules

```
PairService     <- implemented by -  SocketPair    - MCSocketPair,   SocketPairProofs
                <- used within   -   Process       - MCProcess,      ProcessProofs
                                     SplitCmdline  - MCSplitCmdline, SplitCmdlineProofs
                                     SpawnRequest  - MCSpawnRequest, SpawnRequestProofs
                                     SocketNames   - MCSocketNames,  SocketNamesProofs
                                     NetInterfaces - MCNetInterfaces, NetInterfacesProofs
                                     FileLock      - MCFileLock,     FileLockProofs
                                     Identity      - MCIdentity,     IdentityProofs
                                     SignalSet     - MCSignalSet,    IdentityProofs
```

Each module's `MC...` module defines the constants of its runs and its
`...Proofs` module its theorems (those about `SignalSet` are in
`IdentityProofs`).  Definitions named `X_Something` next to a
definition `X` are deliberate mistakes (mutants): a property counts only if
replacing `X` by its mutant breaks it.

**SocketPair** has one action per host call of `socketpair`, in the order of the
code, for every thread.  `pc`, `lsock`, `csock`, `ssock`, `laddr` and `tries`
are the locals; the counter `r` of the bind loop is `tries`, so that `MaxTries`
is 100.  `clean_l` and `clean_c` are the two closes after `do { } while
(false)`.  `host` is the host's descriptor table, external: a connection is
`syn` while its handshake is under way, `queued` when the listener can accept
it, `est` when it is accepted.  A random port is a choice from `Ports`.
`Faults` lists the host calls that may fail without a reason the model knows;
wanting a free descriptor or port is modelled anyway.  `fcntl` failures are
ignored as in the code, and `SetBlocking` is the `F_GETFL` and the `F_SETFL` of
`__socket_set_blocking` in one step.  The caller then closes the two ends one
after the other, either first (`CloseEnd`; it is `half` through in between), so
that a number may be given to the next call while its old peer is still open.
Closing the peer of a socket leaves it `reset`, also where it is a datagram
socket, which a real host would leave connected to an address nobody has.

**PairService** says what a caller may count on: a call it begins (`Begin`)
gives it two fresh descriptors, linked to each other (`Succeed`), or nothing
(`Fail`), and it may close one end or both (`Close`), which leaves the other
linked to nothing.  A datagram pair is linked in one direction only, because the
code connects `csock` to `lsock` and never the reverse.

**Process** takes `socketpair` as one atomic step.  That is sound because of two
refinements that meet in *PairService*: `SocketPair` implements it
(`ImplementsService`), and `popen` and `pclose` use no more than it promises
(`UsesPairService`). Its actions are the stages of `popen` (`Pair`, `Fdopen`,
`Actions`, `Split`, `Spawn`, `CloseEnd`, `Cleanup`), `Pclose`, the stages of
`system`, `WaitOwn` for the `waitpid` of both, and `WaitAny` for `wait`.  `near`
and `far` are `p[op]` and `p[1 - op]`.  `heap` is what a thread's calls have
allocated: the `FILE`, the file actions, the array `argv`, and its strings as
two blocks, those before and those behind the first that `strdup` could not make
(`Argvs`); without any before it the command has no name and `posix_spawnp`
refuses it (`HasName`).  `Fdopen`, when it fails, and `Cleanup` each close both
ends in one step, which are two host calls of the code.  `child` is the host's
process table: a process is `running`, then a `zombie` until it is waited for,
and then its pid is free again.  A process remembers who made it, what
descriptors it keeps open, and which end held by the program it depends on. With
`OwnSpawns` the program also spawns children of its own and waits for them by
pid.  `stolen` is a history variable for `AnswersOwn` and `StatusIsOwn`.

**SplitCmdline** has `Iterate`, with a disjunct for each branch of the loop,
`Finish` for what follows it, and `FreeString` and `FreeArray` for the steps of
`__process_free_argv`.  A character is a blank, one of two quotes, a backslash,
or something else.  With `StrdupFails` any argument may become a null pointer,
which ends the `argv` that callers see and is where the release stops.  `heap`
is the blocks allocated.  `ArgLists` are the lists of
arguments that `RoundTrip` quotes as a program would for a shell; no code in the
repository does that.

**SpawnRequest** has one action per iteration of the three loops of
`posix_spawnp`.  An argument vector is the memory up to its last NULL, with
NULLs before that where `strdup` failed; `argc` counts in it.  A node is the
place of its action in the list the program built; `lost` records the actions
for whose node there was no memory.

**SocketNames** has one buffer and its length, used by calls that tell a name
(`GetName`, `Recv`) and calls that give one (`Attach`, `Send`).  A name is a row
of cells, its family first, so that a cut name and a mixture of two names can be
told from a whole one.

**NetInterfaces** is a program that uses the interface calls one after the
other.  A host call (`HostCall`) is a step of its own: it returns any of the
tables in `Tables`, one row per address, in a block that the library allocated
for it; for an empty table it may or may not have asked for one, since the host
is not in the repository.  What follows it in each function releases the block,
or leaves it (`Released`); `empties` is the history of the functions that were
given one for an empty table.  The loops of `if_nameindex` and
`if_freenameindex` are stepwise (`Scan`, `Finish`, `FreeEntry`, `FreeArray`),
and `heap` is the set of blocks allocated. What the memory of a new node held is
a choice (`junk`).  `trip` remembers an index, its name, and the index of that
name.

**FileLock** has the host's record locks (external: per process and byte) under
`__wamr_ext_fcntl`, `flock` and `statvfs`.  A lock call is one step, or two when
it waits in the host.  `temps` counts the descriptors that `statvfs` has opened
and not closed yet; their close drops all locks of the process on the file, as
that of any descriptor does.  `held` is a history variable for `FlockExcludes`.

**Identity** has `getpid` in four steps, because the threads share `g_pid`
without protection: the second read of it in `return` may or may not be made by
the compiler.  The other calls use thread-local variables and are one step each.
Threads end and others start in their place (`Restart`).  `sysctl` and `uname`
may fail at any time.  `doubt` is a history variable for `PidRight`.

**SignalSet** has a word as the set of its bits.  No line refuses a number beyond
the width of `unsigned int`; its shift is undefined in C, so its mask is any
word, among them the one 32-bit wasm gives (33 acts as 1).  `gained` and `lost`
record which sets may have got or lost a bit that way.

## Runs

| Run | Checks | Instance and what it shows | States |
|---|---|---|---|
| `pair_safety` | `Ownership`, `PairConnected`, `AwaitsOwn`, `ImplementsService`, `OthersUntouched`, `CallsMoveOn` | Every host call may fail; stream, datagram, blocking and non-blocking requests of both families and of one the library refuses; the ends of a pair closed in any order | 173 028 |
| `pair_live` | `ModeAsRequested`, `ReturnsUnlessNotStarted`, `FailsOnlyForResources` | Fairness, stream requests, one port for two threads, a `connect` that may say `EAGAIN` | 577 656 |
| `split` | `InBounds`, `SplitsAsDefined`, `RoundTrip`, `LostBehindNull` | All lines of up to five characters, lines of up to twelve words, all pairs of quoted arguments of up to two characters; `strdup` may fail | 120 114 |
| `process_faults` | `EndsAccounted`, `NothingLeft`, `ChildrenAccounted`, `UsesPairService`, `AnswersOwn` | Memory, `strdup` apart from the rest, spawning and waiting may fail or be interrupted; `wait()` and children of its own in the program | 101 602 |
| `process_live` | `WaitReturns` | Fairness, both modes; a child has only its own descriptors | 31 824 |
| `process_cloexec` | `WaitedForEnds`, `WaitReturns` | Fairness, mode `"w"`; a child, the program's own included, inherits what is not close-on-exec | 93 552 |
| `spawn_request` | `RequestInOrder`, `NodesFreed`, `ArgumentsCounted` | All lists of up to five actions; all vectors of up to three places, with NULLs anywhere, and none | 229 700 |
| `socket_names` | `NameSurvives`, `NoOverrun` | Two families of two and four cells, a buffer of five | 500 |
| `net_interfaces` | `TypeOK`, `NothingLeaks`, `NamesListed`, `ListShowsTable`, `IndexComesBack` | All tables of up to three rows, with an alias, a name that is cut to another's, and an unknown family; an empty table with and without a block; `strdup` may fail | 430 560 |
| `file_lock` | `FlockExcludes`, `NonBlocking`, `DescriptorsAccounted` | Two processes, one with two threads and a read-only descriptor; one file of two bytes; interrupted waits, `fstatvfs` that fails | 279 536 |
| `identity` | `PidRight`, `OwnTid`, `OwnName`, `HostNameWhole` | Two threads of three numbers; `sysctl` and `uname` may fail at any time; names and buffers shorter than, as long as, and longer than `NameSize` | 182 520 |
| `signal_set` | `MembersAsAsked` | Two sets of three bits, masks of four, signals 0 to 5 | 188 356 |

### Bounds, and why they are enough

* *Two threads.*  The races are between a call and what another does between
  two of its steps.  The second thread is that other, and repeats its calls
  without bound, since released descriptors, ports and pids are used again.
* *Five descriptors* are one fewer than two stream calls need at once (three
  each), so descriptors run out in the middle of a call and the rest of the
  runs have enough.  *Four* in the live runs of `Process` are two whole pairs.
* *Two ports and two attempts to bind* let a thread succeed at once, succeed
  after a collision, and exhaust its attempts; `pair_live` has one port, so that
  two threads always collide.
* *Two pids* are one for each thread's child, or one for a child of the
  program's own: pids run out when one more child is wanted, and are reused.
* *Five characters* hold a quote, a character in it, its end, an escape and a
  blank; *twelve words* pass the two places where `argv` grows again (5, 10).
* *Three places* of a vector hold a NULL at its start, in its middle and at its
  end.
* *Five file actions* hold two `dup2` with any others before, between and after.
* *Five cells* are one more than the longer name: lengths below, at and above
  both sizes occur.
* *Three rows* of a table hold two rows of one index with another before,
  between or after them, which is what the search for duplicates can get wrong.
* *Two processes, one with two threads*: a lock conflicts with another process's
  and is shared within one; *two bytes* tell a lock on the whole file from one
  on a part of it.
* *Three thread numbers for two threads*: a thread that takes the place of
  another has a number that was never used or one used before.
* *Three bits, four in a mask, signals to five*: numbers in the word, beyond the
  word, beyond the shift, and 0.

Threads, descriptors, ports and pids are symmetric in `pair_safety` and
`process_faults`, and the two threads of one process in `file_lock`; no run of a
liveness property uses symmetry (`ImplementsService`, `UsesPairService` and the
action properties are safety properties).
The type invariants of `SocketPair`, `Process`, `SplitCmdline`, `FileLock` and
`Identity` are proved (`TypeCorrect`) and in no run; so are `StatusIsOwn`, which
follows from `AnswersOwn`, and `NoEmptyArgument`, which follows from
`SplitsAsDefined`.
Deadlock is checked in every run but `split` and `spawn_request`, whose
functions end.

### Fairness

`SocketPair!Fairness` is weak fairness of every thread's `Step` and of every
handshake: the host schedules threads, and its loopback finishes what it
starts.  The program is not obliged to call or to close anything.
`Process!Fairness` is weak fairness of every thread's `Step` and of the exit of
a child that must exit: one that `system` ran, or whose other end is gone, which
is at the end of its input or when nobody reads its output.  A child of
`system` that never ends keeps `system` waiting in any implementation.  Nothing
obliges the program to call `pclose`, or the host to send no signals: signals
may interrupt a wait any number of times, and the child still becomes a zombie
and the wait still succeeds, because it stays enabled.

`ReturnsUnlessNotStarted` is checked on a host whose `connect` may say `EAGAIN`
and have started nothing (the fault `again`): line 587 takes that for progress,
and `accept` then waits for ever, which is the one exception the property makes.
No text in the repository says what the host means by `EAGAIN`.

### Readings of the results

* `PairConnected` holds although nothing in the code checks whose connection was
  accepted: the client connects to the address of a listener that its own thread
  has bound, and no other socket is reached at that address meanwhile.
* A `SOCK_NONBLOCK` request may fail for want of nothing, because `accept` does
  not wait for the handshake; `FailsOnlyForResources` says that this, and the
  `EAGAIN` above, are the only such failures.
* `AnswersOwn` and `StatusIsOwn` are implications: once another thread's
  `wait()` has reaped a child of `popen` or `system`, its pid may be a new
  child's, and `pclose` then waits for that and returns its status.
* `accept` cannot be told `SOCK_CLOEXEC`, so of `popen`'s pair only `p[1]` has
  it.  For mode `"w"` that is the program's end, and `WaitReturns` depends on it
  (the mutant without it fails).  For mode `"r"` the program's end is `p[0]`,
  which a child inherits on a host where children inherit descriptors; whether
  the host does is not said, so `process_cloexec` has mode `"w"` only.
* `FlockExcludes` is about a lock for as long as its process does nothing else to
  its locks on the file.  It has to be: record locks go when *any* descriptor of
  the file is closed, and `statvfs` on a locked file closes one.
* `flock` on two descriptors of one process excludes nothing, as record locks do
  not; the property is about processes.
* `getpid` may answer 0 when a `sysctl` failed in *another* thread during the
  call, because that thread stores its 0 over the right number.  `PidRight` says
  that nothing worse happens and that the next calls recover.
* `strdup` failing in the middle of a command line loses memory: the place of the
  argument is NULL, `__process_free_argv` takes it for the end, and the strings
  behind it stay allocated.  The child is started with the arguments before it.
  `LostBehindNull` and `NothingLeft` say that exactly these strings are lost, and
  nothing where `strdup` does not fail.  No text in the repository says what a
  lack of memory should do.
* `NothingLeaks` holds although `strdup` may fail, because `if_freenameindex`
  stops at a zero index *and* a null name, not at the first null name.  Its
  exception is the block of an empty table: `getifaddrs`, `if_nametoindex` and
  `if_indextoname` return before their `free`, so if the host asks for a block
  also then, it is lost, once per call.
* `IndexComesBack`: a name that was cut to `IF_NAMESIZE` translates back to the
  interface that has the cut name for its full name, which is another one, or to
  none.
* `MembersAsAsked` is about the signals from 1 to the width of the shift (1 to
  32).  Those beyond the word among them are accepted and lost, and stand for no
  other.  Beyond the shift signals *do* stand for others, since no line refuses
  them: of such a call the property says only that an addition takes no signal
  away and a deletion brings none, until the set is emptied or filled again.
* A datagram pair is linked one way, and *PairService* promises no more; nothing
  in the repository says that it should.

## Proofs

Proved for every value of the constants, from the assumptions named in each
module (`SocketPairAssumption`, `NoAddrAssumption`, `ProcessAssumption`,
`SplitAssumption`, `RequestAssumption`, `NamesAssumption`,
`InterfacesAssumption`, `FileLockAssumption`, `IdentityAssumption`,
`SignalSetAssumption`); they only
say that null values are not members of the sets they extend, that bounds are
numbers, that inputs are sequences or functions of the right kind, and that
interface indices, process and thread numbers are not 0, which the code takes
for none.  The argument lists of `RoundTrip` have no empty argument, because the
splitting drops those (`NoEmptyArgument`).  `ServiceImplemented` also assumes
`DatagramsConnect`: that where `again` is among the faults only stream pairs are
asked for, since after such a `connect` a datagram client is not connected.

| Module | Theorems | Argument |
|---|---|---|
| SocketPairProofs | `TypeCorrect`, `OwnershipHolds`, `PairConnectedHolds`, `AwaitsOwnHolds`, `ModeAsRequestedHolds`, `FailsOnlyForResourcesHolds`, `OthersUntouchedHolds`, `CallsMoveOnHolds`, `ServiceImplemented` | `IInv`, `ModeInv`, `WaitInv`, `PlainInv` |
| ProcessProofs | `TypeCorrect`, `EndsAccountedHolds`, `NothingLeftHolds`, `ChildrenAccountedHolds`, `StatusIsOwnHolds`, `AnswersOwnHolds`, `UsesPairServiceHolds`, `WaitedForEndsHolds` | `IInv`, `Kept` |
| SplitCmdlineProofs | `TypeCorrect`, `InBoundsHolds`, `NoEmptyArgumentHolds`, `LostBehindNullHolds`, `SplitsAsDefinedHolds`, `RoundTripHolds` | `Inv`, `Scanned`; induction over positions |
| SpawnRequestProofs | `RequestInOrderHolds`, `NodesFreedHolds`, `ArgumentsCountedHolds` | `IInv` |
| SocketNamesProofs | `NameSurvivesHolds`, `NoOverrunHolds` | `IInv` |
| NetInterfacesProofs | `TypeCorrect`, `NothingLeaksHolds`, `NamesListedHolds`, `ListShowsTableHolds`, `IndexComesBackHolds` | `IInv` |
| FileLockProofs | `TypeCorrect`, `FlockExcludesHolds`, `NonBlockingHolds`, `DescriptorsAccountedHolds` | `IInv`; finite cardinalities |
| IdentityProofs | `TypeCorrect`, `PidRightHolds`, `OwnTidHolds`, `OwnNameHolds`, `HostNameWholeHolds`; of *SignalSet* `MembersAsAskedHolds` | `IInv`; `SigInv` |

*SocketPair.*  `PairConnected` is not inductive.  `IInv` adds that what a thread
holds is open and nobody else's (`Ownership`), that a listener which is not
connected is the only socket reached at its address (`AddressUnique`), that a
thread's listener has the address the thread remembers (`ListenerBound`), and
that connections not accepted yet are of the thread's own client to its own
listener (`ClientAtHome`, `PeersAtHome`).  Then what `connect` reaches and what
`accept` takes is the thread's own, and from `accept` on the ends are each
other's (`Linked`).  The proof of a step has a part for the thread that moves
(`OwnInv`), one for the others, whose descriptors it does not touch
(`OthersInv`), and one for the table (`TableStep`).  That it does not touch them
(`Untouched`) is a property of its own, `OthersUntouched`.

`CallsMoveOn` counts down: `StepsLeft` is the number of calls into the host ahead
at each stage and the attempts to bind that are left.  Every step of a call
lowers it (`StepFalls`), because in the loop fewer than `MaxTries` attempts were
made (`LocalsValid`), and nobody else's step changes it.

`ModeAsRequested` needs the mode of each end at each point of the call
(`ModeInv`), which `connect` and `accept` must not depend on.  For the
refinement, `PlainInv` says that a listener has no peer and a datagram client
has its listener as peer, so that the links that appear when the call ends are
those `PairService` promises.  Then `Call`,
`Restore`, `CleanClient` and `CloseEnd` are the four steps a caller sees
(`BeginStep`, `SucceedStep`, `FailStep`, `CloseStep`), and every other step of a
call, and every handshake, is a stutter (`Unseen`).  That a number closed by one
call and opened by another never shows up as a peer of the pair it left is
`PeersAtHome`.

`AwaitsOwn` and `FailsOnlyForResources` need `WaitInv`: a client's connection is
not begun before `connect`, is under way after it, and is neither refused nor
accepted by anyone else; and a listener listens.  With
`ModeInv` the one way left to give up in `accept` is a listener that was told not
to wait and whose client is still on its way (`GivesUp`).

*Process.*  `IInv` adds which ends are valid (`EndsValid`), exactly what is
allocated at each stage, and what may have been lost before (`HeapAt`), and that
the pid a thread remembers is its own child's until a `wait()` takes one
(`PidIsOwn`).  Seen from *PairService* a thread has `PairStatus` and `Ends`, and
a descriptor has the `Peers` it was handed out with; what two disjoint sets of
ends (`EndsAccounted`) do to the peers when one is opened or closed is
`PeersOpened` and `PeersClosed`, and `PairsStep` sorts the steps of `popen` and
`pclose` into `Begin`, `Succeed`, `Fail`, `Close` and stutters.

`AnswersOwn` follows from `IInv`: `PidIsOwn` leaves the wait of `pclose` and
`system` no pid that is free or another's (`WaitAnswered`), and every other step
reaps nothing, or a child of nobody (`StepReaps`).

`WaitedForEnds` needs `Kept`: the end in a `FILE` is held by no child, and has
close-on-exec where children inherit (`NearKept`); and while a child runs, the
other end of its stream is open only as the end in its own `FILE`, is held by no
child, and its number is not given to anybody else (`MateKept`).  So when
`pclose` has closed that end it is gone, whatever other threads spawned
meanwhile.

*SplitCmdline.*  `Blocks`: the room of `argv` is a multiple of five and one, and
its arguments fill the last five, so that growing at multiples of five is
growing in time.  `LostBehindNull` needs `HeapIs`: the strings allocated are
those of the arguments so far, and in the release, which has seen no NULL yet,
those from its place on.  `SplitsAsDefined` is stated with functions that recur
over the positions of the line.  That they exist and satisfy their equations
(`RecursionFollows`) is proved by taking the least length at which they fail,
because the library's induction theorems cannot be used here.  `Scanned` then
says that the flags, the buffer and `argv` are what these functions give for the
part already read, and one iteration advances it by one (`IterateScanned`).
`RoundTrip` follows from `SplitsAsDefined` by reading a quoted line from left to
right: a quoted character adds itself to the current piece (`QuotedCharRead`), a
quoted argument is one piece (`QuotedRead`), and the blank ends it (`LineRead`).

*SpawnRequest.*  `Built`: what is linked so far is every `dup2` after the place
of the loop, in increasing order, and the allocated nodes are the linked ones.
`Counted`: the places counted so far are arguments, so the vector goes on, as its
last place is NULL (`VectorEnds`).

*SocketNames.*  A name that had room is whole in the buffer; one that had not
still shows its family, or has length zero, and its length is too short.

*NetInterfaces.*  `Progress` says how far a loop is: the entries so far list the
rows so far without duplicates (`ListsFirst`), and there are fewer of them than
rows, so that the last one fits.  `HeapIs` says which blocks exist at each point:
during the release, the names from the place of the loop on; and always those
that `empties` says were left (`LeftBy`).

*FileLock.*  `IInv` says that the host's locks exclude each other
(`HostExcludes`), that what `held` says of a process is on every byte of the
file (`WholeFileLocked`), and that a waiting call is on a descriptor of its
thread's process (`CallOwn`).  `DescriptorsAccounted` counts the threads of a
process that are in `statvfs`.

*Identity.*  `Doubtful`: while a 0 is about to be stored, every call under way is
in doubt; so a call that is not finds the number in `g_pid` and in its local.
`OwnVariables`: a thread-local number is 0 or the thread's own.

*SignalSet.*  `SigInv`: a word that has lost nothing holds every bit it reaches
of the signals put into it, and one that has gained nothing holds no other
(`Holds`).

Only model-checked: the two liveness properties, `ReturnsUnlessNotStarted` and
`WaitReturns`, and deadlock.  They rest on fairness and on which steps are
enabled, which the prover does not reach.  Their safety halves are proved: that
what is waited for is on its way (`AwaitsOwnHolds`, `WaitedForEndsHolds`), that
no call goes round for ever (`CallsMoveOnHolds`), and that a wait ends with the
answer that was waited for (`AnswersOwnHolds`).  Every other property of a run
is proved.

## Not modelled

* Data that no property tells apart: payloads, flags, `errno` where no decision
  depends on it, environment and spawn attributes (which the code ignores), the
  ancillary data of messages.
* Unchecked allocations of arrays and structures: a null pointer written to does
  not trap in WebAssembly, and what then happens is not defined by anything.
  Those whose effect is defined are modelled: a lost file action
  (`SpawnRequest`), a null argument (`SplitCmdline`), a null interface name
  (`NetInterfaces`).
* `shutdown`, `getsockopt`, `setsockopt`, `sysconf`, `src/malloc.c`: one host
  call each, with a copied result and no state of their own, so that a model
  would restate them.  `listen` and the socket calls are modelled as `socketpair`
  uses them.
* `dup`, `dup2`, `chown`, `chmod`, `umask` and their kin, `src/cxxabi.c`,
  `src/user_group.c`, `sethostname`: constant answers that change nothing.
* Headers, among them the macro `WIFEXITED` (true for status 0 only): no state.
* The patches of wasi-libc, build scripts, scripts for third-party libraries,
  and test programs: the code they change or build is not in the repository.

What could still be done: popen `"r"` where children inherit descriptors, once
the host's answer is known; a host that keeps the address of a datagram socket
whose peer was closed.
