----------------------------- MODULE SocketPair -----------------------------
(***************************************************************************)
(* socketpair() of wamr-ext-libc/src/socket_api.c, lines 531-609.          *)
(*                                                                         *)
(* WASI has no AF_UNIX sockets, so the library builds the pair out of two  *)
(* loopback sockets: it binds a listener to a random port, connects a      *)
(* non-blocking client to it, accepts, and closes the listener.  Threads   *)
(* of one guest run the protocol concurrently and compete for descriptors  *)
(* and for ports.  Each call into the host is one atomic step.             *)
(*                                                                         *)
(* The host's side (the Host... operators and Handshake) is external: it   *)
(* is modelled from the way socketpair() uses it.                          *)
(***************************************************************************)
EXTENDS Naturals

CONSTANTS
  Threads,   \* guest threads that call socketpair()
  Fds,       \* the descriptors the host can hand out
  Ports,     \* the ports the random number generator may choose
  Requests,  \* the (domain, type) arguments the callers use
  MaxTries,  \* attempts to bind before giving up: 100 in the code
  Faults,    \* host calls that may fail for a reason outside this model
  NoFd,      \* -1
  NoAddr     \* an unbound socket's address

Request == [domain : {"inet", "inet6", "other"}, stream : BOOLEAN, nonblock : BOOLEAN]

ASSUME SocketPairAssumption ==
  /\ Requests \subseteq Request
  /\ MaxTries \in Nat \ {0}
  /\ NoFd \notin Fds

(* An address is a port of one domain and one transport: two sockets are   *)
(* in conflict when all three agree.                                       *)
Addr(r, p) == <<r.domain, r.stream, p>>
Addrs == {Addr(r, p) : r \in Request, p \in Ports}
ASSUME NoAddrAssumption == NoAddr \notin Addrs

VARIABLES
  pc,      \* where each thread is in socketpair()
  req,     \* its domain and type arguments
  lsock, csock, ssock,  \* its local variables of those names
  laddr,   \* the address it last tried to bind
  tries,   \* its loop counter r
  host     \* the host's descriptor table

locals == <<pc, req, lsock, csock, ssock, laddr, tries>>
vars == <<locals, host>>

Stages == {"idle", "open_l", "open_c", "bind", "listen", "nb_c", "connect",
           "accept", "close_l", "nb_s", "restore", "ok", "half", "clean_l",
           "clean_c", "failed"}

(* phase is the connection state: "syn" while a handshake is under way,    *)
(* "queued" once the listener can accept it, "est" when both ends exist,   *)
(* "reset" after the other end was closed.                                 *)
Socket == [open : BOOLEAN, addr : Addrs \cup {NoAddr}, listening : BOOLEAN,
           nonblock : BOOLEAN, peer : Fds \cup {NoFd},
           phase : {"none", "syn", "queued", "est", "reset"}]

Closed == [open |-> FALSE, addr |-> NoAddr, listening |-> FALSE,
           nonblock |-> FALSE, peer |-> NoFd, phase |-> "none"]

Init ==
  /\ pc = [t \in Threads |-> "idle"]
  /\ req \in [Threads -> Requests]
  /\ lsock = [t \in Threads |-> NoFd]
  /\ csock = [t \in Threads |-> NoFd]
  /\ ssock = [t \in Threads |-> NoFd]
  /\ laddr = [t \in Threads |-> NoAddr]
  /\ tries = [t \in Threads |-> 0]
  /\ host = [f \in Fds |-> Closed]

-----------------------------------------------------------------------------
(* The host.                                                               *)

FreeFds == {f \in Fds : ~host[f].open}

NewSocket(nb) == [Closed EXCEPT !.open = TRUE, !.nonblock = nb]

(* close() of the descriptors fds: whoever was connected, or connecting,   *)
(* to one of them is reset.                                                *)
HostClose(fds) ==
  host' = [f \in Fds |->
             IF f \in fds THEN Closed
             ELSE IF host[f].open /\ host[f].peer \in fds
                  THEN [host[f] EXCEPT !.peer = NoFd, !.phase = "reset"]
                  ELSE host[f]]

AddrInUse(a) == \E f \in Fds : host[f].open /\ host[f].addr = a

(* The sockets a client reaches at address a.  An accepted socket shares   *)
(* the address of its listener but is not reached through it.              *)
Reachable(a) == {f \in Fds : host[f].open /\ host[f].addr = a /\ host[f].phase = "none"}

(* A TCP handshake over the loopback ends some time after a non-blocking   *)
(* connect() returned EINPROGRESS.                                         *)
Handshake(c) ==
  /\ host[c].phase = "syn"
  /\ host' = [host EXCEPT ![c].phase = "queued"]
  /\ UNCHANGED locals

Queued(l) == {c \in Fds : host[c].phase = "queued" /\ host[c].peer = l}

-----------------------------------------------------------------------------
(* One call of socketpair() by thread t.                                   *)

At(t, from, to) == pc[t] = from /\ pc' = [pc EXCEPT ![t] = to]

Call(t) ==
  /\ At(t, "idle", "open_l")
  /\ \E r \in Requests : req' = [req EXCEPT ![t] = r]
  /\ UNCHANGED <<lsock, csock, ssock, laddr, tries, host>>

SocketFails == FreeFds = {} \/ "socket" \in Faults

(* int lsock = socket(domain, type, protocol);                             *)
OpenListener(t) ==
  /\ At(t, "open_l", "open_c")
  /\ \/ \E f \in FreeFds :
          /\ lsock' = [lsock EXCEPT ![t] = f]
          /\ host' = [host EXCEPT ![f] = NewSocket(req[t].nonblock)]
     \/ /\ SocketFails
        /\ lsock' = [lsock EXCEPT ![t] = NoFd]
        /\ UNCHANGED host
  /\ UNCHANGED <<req, csock, ssock, laddr, tries>>

(* int csock = socket(...), whatever became of lsock; then both are tested.*)
OpenClient(t) ==
  /\ pc[t] = "open_c"
  /\ \/ \E f \in FreeFds :
          /\ csock' = [csock EXCEPT ![t] = f]
          /\ host' = [host EXCEPT ![f] = NewSocket(req[t].nonblock)]
     \/ /\ SocketFails
        /\ csock' = [csock EXCEPT ![t] = NoFd]
        /\ UNCHANGED host
  /\ pc' = [pc EXCEPT ![t] = IF lsock[t] = NoFd \/ csock'[t] = NoFd
                             THEN "clean_l" ELSE "bind"]
  /\ tries' = [tries EXCEPT ![t] = 0]
  /\ UNCHANGED <<req, lsock, ssock, laddr>>

(* One pass of the bind loop.  bind() itself refuses a domain other than   *)
(* AF_INET and AF_INET6 with EINVAL, and the host an address in use.       *)
AfterBind(t) == IF req[t].stream THEN "listen" ELSE "nb_c"
BindWorks(t, a) == req[t].domain # "other" /\ ~AddrInUse(a)

(* Mutant: failed attempts are not counted.                                *)
Counted_Never(r) == r
Counted(r) == r + 1

BindAt(t, a, afterLastTry) ==
  /\ laddr' = [laddr EXCEPT ![t] = a]
  /\ \/ /\ BindWorks(t, a)
        /\ host' = [host EXCEPT ![lsock[t]].addr = a]
        /\ pc' = [pc EXCEPT ![t] = AfterBind(t)]
        /\ UNCHANGED tries
     \/ /\ ~BindWorks(t, a) \/ "bind" \in Faults
        /\ tries' = [tries EXCEPT ![t] = Counted(@)]
        /\ pc' = [pc EXCEPT ![t] = IF Counted(tries[t]) >= MaxTries THEN afterLastTry ELSE "bind"]
        /\ UNCHANGED host
  /\ UNCHANGED <<req, lsock, csock, ssock>>

(* Mutant: the exhausted loop is not noticed (no "if (r >= 100) break").   *)
Bind_IgnoresExhaustion(t) ==
  /\ pc[t] = "bind"
  /\ \E p \in Ports : BindAt(t, Addr(req[t], p), AfterBind(t))
Bind(t) ==
  /\ pc[t] = "bind"
  /\ \E p \in Ports : BindAt(t, Addr(req[t], p), "clean_l")

Listen(t) ==
  /\ pc[t] = "listen"
  /\ \/ /\ host' = [host EXCEPT ![lsock[t]].listening = TRUE]
        /\ pc' = [pc EXCEPT ![t] = "nb_c"]
     \/ /\ "listen" \in Faults
        /\ pc' = [pc EXCEPT ![t] = "clean_l"]
        /\ UNCHANGED host
  /\ UNCHANGED <<req, lsock, csock, ssock, laddr, tries>>

(* __socket_set_blocking(): a failing fcntl() is ignored and leaves the    *)
(* descriptor's mode as it was.                                            *)
SetBlocking(fd, blocking) ==
  \/ host' = [host EXCEPT ![fd].nonblock = ~blocking]
  \/ "fcntl" \in Faults /\ UNCHANGED host

(* Mutant: accept() comes before connect().                                *)
SetClientNonblocking_AcceptFirst(t) ==
  /\ At(t, "nb_c", "accept")
  /\ SetBlocking(csock[t], FALSE)
  /\ UNCHANGED <<req, lsock, csock, ssock, laddr, tries>>
SetClientNonblocking(t) ==
  /\ At(t, "nb_c", "connect")
  /\ SetBlocking(csock[t], FALSE)
  /\ UNCHANGED <<req, lsock, csock, ssock, laddr, tries>>

(* connect() to the address just bound.  A datagram client is connected at *)
(* once; a stream client either at once or, when it does not block, with   *)
(* EINPROGRESS, which the code treats as success.  It treats EAGAIN so     *)
(* too, with which a host says that nothing was started ("again").         *)
AfterConnect(t) == IF req[t].stream THEN "accept" ELSE "restore"

Connected(t, phases) ==
  /\ \E l \in Reachable(laddr[t]), ph \in phases :
       /\ req[t].stream => host[l].listening
       /\ (ph = "est") <=> ~req[t].stream
       /\ ph = "syn" => host[csock[t]].nonblock
       /\ host' = [host EXCEPT ![csock[t]].peer = l, ![csock[t]].phase = ph]
  /\ pc' = [pc EXCEPT ![t] = AfterConnect(t)]

NotStarted(t) ==
  /\ "again" \in Faults
  /\ pc' = [pc EXCEPT ![t] = AfterConnect(t)]
  /\ UNCHANGED host

Refused(t, reasons) ==
  /\ reasons
  /\ pc' = [pc EXCEPT ![t] = "clean_l"]
  /\ UNCHANGED host

NobodyThere(t) == \A l \in Reachable(laddr[t]) : req[t].stream /\ ~host[l].listening

(* Mutant: EINPROGRESS is taken for a failure.                             *)
Connect_InProgressFails(t) ==
  /\ pc[t] = "connect"
  /\ Connected(t, {"est", "queued"}) \/ Refused(t, req[t].stream)
  /\ UNCHANGED <<req, lsock, csock, ssock, laddr, tries>>
Connect(t) ==
  /\ pc[t] = "connect"
  /\ \/ Connected(t, {"est", "queued", "syn"})
     \/ NotStarted(t)
     \/ Refused(t, "connect" \in Faults \/ NobodyThere(t))
  /\ UNCHANGED <<req, lsock, csock, ssock, laddr, tries>>

(* accept() takes any queued connection, blocks while there is none, and   *)
(* returns EAGAIN instead when the listener does not block.  Hosts differ  *)
(* in whether the new descriptor inherits the listener's mode.             *)
AcceptFails(t) ==
  \/ host[lsock[t]].nonblock /\ Queued(lsock[t]) = {}
  \/ Queued(lsock[t]) # {} /\ FreeFds = {}
  \/ "accept" \in Faults

Accepted(nb, addr, c) == [NewSocket(nb) EXCEPT !.addr = addr, !.peer = c, !.phase = "est"]

Accepts(t, s, c, nb) ==
  /\ ssock' = [ssock EXCEPT ![t] = s]
  /\ host' = [f \in Fds |->
                IF f = s THEN Accepted(nb, host[lsock[t]].addr, c)
                ELSE IF f = c THEN [host[c] EXCEPT !.peer = s, !.phase = "est"]
                ELSE host[f]]
  /\ pc' = [pc EXCEPT ![t] = "close_l"]

AcceptsSome(t) ==
  \E s \in FreeFds, c \in Queued(lsock[t]), nb \in {FALSE, host[lsock[t]].nonblock} :
    Accepts(t, s, c, nb)

Accept(t) ==
  /\ pc[t] = "accept"
  /\ \/ AcceptsSome(t)
     \/ /\ AcceptFails(t)
        /\ pc' = [pc EXCEPT ![t] = "clean_l"]
        /\ UNCHANGED <<ssock, host>>
  /\ UNCHANGED <<req, lsock, csock, laddr, tries>>

CloseListener(t) ==
  /\ At(t, "close_l", "nb_s")
  /\ HostClose({lsock[t]})
  /\ UNCHANGED <<req, lsock, csock, ssock, laddr, tries>>

SetServerBlocking(t) ==
  /\ At(t, "nb_s", "restore")
  /\ SetBlocking(ssock[t], ~req[t].nonblock)
  /\ UNCHANGED <<req, lsock, csock, ssock, laddr, tries>>

(* Mutant: the client is left non-blocking.                                *)
Restore_Forgotten(t) == At(t, "restore", "ok") /\ UNCHANGED <<req, lsock, csock, ssock, laddr, tries, host>>
(* The client goes back to blocking mode unless SOCK_NONBLOCK was asked.   *)
Restore(t) ==
  /\ At(t, "restore", "ok")
  /\ IF req[t].nonblock THEN UNCHANGED host ELSE SetBlocking(csock[t], TRUE)
  /\ UNCHANGED <<req, lsock, csock, ssock, laddr, tries>>

(* Mutant: the listener is not closed when a later step failed.            *)
CleanListener_Forgotten(t) ==
  At(t, "clean_l", "clean_c") /\ UNCHANGED <<req, lsock, csock, ssock, laddr, tries, host>>
(* The two ifs after do { } while (false).                                 *)
CleanListener(t) ==
  /\ At(t, "clean_l", "clean_c")
  /\ IF lsock[t] # NoFd THEN HostClose({lsock[t]}) ELSE UNCHANGED host
  /\ UNCHANGED <<req, lsock, csock, ssock, laddr, tries>>

CleanClient(t) ==
  /\ At(t, "clean_c", "failed")
  /\ IF csock[t] # NoFd THEN HostClose({csock[t]}) ELSE UNCHANGED host
  /\ UNCHANGED <<req, lsock, csock, ssock, laddr, tries>>

(* Mutant: the accepted socket is returned whatever the type.              *)
Vector_AlwaysAccepted(t) == <<ssock[t], csock[t]>>
(* socket_vector as the caller sees it.                                    *)
Vector(t) == IF req[t].stream THEN <<ssock[t], csock[t]>> ELSE <<lsock[t], csock[t]>>

(* The descriptors the caller has: both of them, one ("half"), or none.    *)
Ends(t) == IF pc[t] \in {"ok", "half"} THEN {Vector(t)[1], Vector(t)[2]} \ {NoFd} ELSE {}

Only(local, t, fds) == [local EXCEPT ![t] = IF @ \in fds THEN @ ELSE NoFd]

(* The caller closes one of them, either one first; the call's other       *)
(* locals are forgotten.                                                   *)
CloseEnd(t) ==
  \E f \in Ends(t) :
    LET left == Ends(t) \ {f} IN
    /\ HostClose({f})
    /\ pc' = [pc EXCEPT ![t] = IF left = {} THEN "idle" ELSE "half"]
    /\ lsock' = Only(lsock, t, left)
    /\ csock' = Only(csock, t, left)
    /\ ssock' = Only(ssock, t, left)
    /\ laddr' = [laddr EXCEPT ![t] = NoAddr]
    /\ tries' = [tries EXCEPT ![t] = 0]
    /\ UNCHANGED req

(* A call that failed is over.                                             *)
Release(t) ==
  /\ At(t, "failed", "idle")
  /\ lsock' = [lsock EXCEPT ![t] = NoFd]
  /\ csock' = [csock EXCEPT ![t] = NoFd]
  /\ ssock' = [ssock EXCEPT ![t] = NoFd]
  /\ laddr' = [laddr EXCEPT ![t] = NoAddr]
  /\ tries' = [tries EXCEPT ![t] = 0]
  /\ UNCHANGED <<req, host>>

(* What the library does once called: everything but the caller's own steps.*)
Step(t) ==
  \/ OpenListener(t) \/ OpenClient(t) \/ Bind(t) \/ Listen(t)
  \/ SetClientNonblocking(t) \/ Connect(t) \/ Accept(t) \/ CloseListener(t)
  \/ SetServerBlocking(t) \/ Restore(t) \/ CleanListener(t) \/ CleanClient(t)

Next ==
  \/ \E t \in Threads : Call(t) \/ Step(t) \/ CloseEnd(t) \/ Release(t)
  \/ \E c \in Fds : Handshake(c)

Spec == Init /\ [][Next]_vars

(* The host schedules every guest thread and finishes every handshake on   *)
(* its loopback.  Nobody is obliged to call socketpair() or to close.      *)
Fairness ==
  /\ \A t \in Threads : WF_vars(Step(t))
  /\ \A c \in Fds : WF_vars(Handshake(c))

FairSpec == Spec /\ Fairness

-----------------------------------------------------------------------------
(* Properties.                                                             *)

(* The types of the variables.                                             *)
TypeOK ==
  /\ pc \in [Threads -> Stages]
  /\ req \in [Threads -> Requests]
  /\ lsock \in [Threads -> Fds \cup {NoFd}]
  /\ csock \in [Threads -> Fds \cup {NoFd}]
  /\ ssock \in [Threads -> Fds \cup {NoFd}]
  /\ laddr \in [Threads -> Addrs \cup {NoAddr}]
  /\ tries \in [Threads -> 0 .. MaxTries]
  /\ host \in [Fds -> Socket]

(* The descriptors a thread answers for at each point of the protocol: its *)
(* caller's once it returned, its own before.                              *)
HoldsListener(t) ==
  /\ lsock[t] # NoFd
  /\ \/ pc[t] \in {"open_c", "bind", "listen", "nb_c", "connect", "accept", "close_l", "clean_l"}
     \/ pc[t] \in {"restore", "ok", "half"} /\ ~req[t].stream
HoldsClient(t) ==
  /\ csock[t] # NoFd
  /\ pc[t] \in {"bind", "listen", "nb_c", "connect", "accept", "close_l", "nb_s", "restore",
                "ok", "half", "clean_l", "clean_c"}
HoldsServer(t) ==
  \/ pc[t] \in {"close_l", "nb_s"}
  \/ pc[t] \in {"restore", "ok"} /\ req[t].stream
  \/ pc[t] = "half" /\ req[t].stream /\ ssock[t] # NoFd

Held(t) ==
  {f \in Fds : \/ HoldsListener(t) /\ f = lsock[t]
               \/ HoldsClient(t) /\ f = csock[t]
               \/ HoldsServer(t) /\ f = ssock[t]}

Open == {f \in Fds : host[f].open}
NothingLeaks == Open = UNION {Held(t) : t \in Threads}
NothingShared == \A t, u \in Threads : t # u => Held(t) \cap Held(u) = {}

(* Whatever fails and wherever the threads are interrupted, every open     *)
(* descriptor belongs to exactly one call in progress or returned pair     *)
(* (nothing leaks), and everything a thread still counts on is open        *)
(* (nothing is closed twice, which would hit a descriptor that the host    *)
(* has given to another thread meanwhile).                                 *)
Ownership == NothingLeaks /\ NothingShared

(* A returned stream pair is connected end to end to each other, never to  *)
(* a socket of a concurrent call, for as long as the caller keeps it.  The *)
(* accepted connection is whichever was queued: nothing in the code checks *)
(* that it is its own client.                                              *)
PairConnected ==
  \A t \in Threads :
    pc[t] = "ok" /\ req[t].stream =>
      /\ host[ssock[t]].peer = csock[t] /\ host[csock[t]].peer = ssock[t]
      /\ host[ssock[t]].phase = "est" /\ host[csock[t]].phase = "est"

(* Both ends of a returned pair block exactly when the caller did not ask  *)
(* for SOCK_NONBLOCK, although the client is switched to non-blocking in   *)
(* between and the server inherits an unknown mode; provided fcntl() works.*)
ModeAsRequested ==
  \A t \in Threads :
    pc[t] \in {"ok", "half"} /\ "fcntl" \notin Faults =>
      \A f \in Held(t) : host[f].nonblock = req[t].nonblock

(* On a host that at most says EAGAIN to connect() a request is given up   *)
(* only because descriptors or attempts to bind ran out, never because of  *)
(* the interplay of a non-blocking connect() with another thread; and a    *)
(* SOCK_NONBLOCK request besides when its accept() comes before its own    *)
(* handshake has ended, since its listener does not wait (lines 570-593).  *)
TooEarly(t) ==
  req[t].nonblock /\ pc[t] = "accept" /\ host[csock[t]].phase \in {"none", "syn"}
FailsOnlyForResources ==
  [][\A t \in Threads :
       pc[t] # "clean_l" /\ pc'[t] = "clean_l" /\ Faults \subseteq {"again"}
       => FreeFds = {} \/ lsock[t] = NoFd \/ tries'[t] = MaxTries \/ TooEarly(t)]_vars

(* Every call returns: no accept() waits for a connection that will never  *)
(* come, except where EAGAIN of connect() meant that nothing was started;  *)
(* and a call that waits so for ever does not keep the others from         *)
(* returning, although it keeps its port (lines 584-593).                  *)
ReturnsUnlessNotStarted ==
  \A t \in Threads :
    pc[t] = "open_l" ~> \/ pc[t] \in {"ok", "failed"}
                        \/ pc[t] = "accept" /\ host[csock[t]].phase = "none"

(* What accept() waits for is its own client's connection, under way to    *)
(* its own listener, and it can take no other; only an EAGAIN that meant   *)
(* that nothing was started leaves it with nothing to wait for (line 591). *)
AwaitsOwn ==
  \A t \in Threads : pc[t] = "accept" =>
    /\ Queued(lsock[t]) \subseteq {csock[t]}
    /\ \/ host[csock[t]].phase \in {"syn", "queued"} /\ host[csock[t]].peer = lsock[t]
       \/ host[csock[t]].phase = "none" /\ "again" \in Faults

(* Whatever a thread does in its call, or closes, the sockets of other     *)
(* calls and pairs stay as they are: although connect() goes to a port,    *)
(* accept() takes what is queued, close() resets whoever is connected, and *)
(* the number in a local may have been another's (lines 566-607).          *)
OthersUntouched ==
  [][\A t \in Threads : \A u \in Threads \ {t} :
       Step(t) \/ CloseEnd(t) => \A f \in Held(u) : host'[f] = host[f]]_vars

(* The host calls that a call can still make: those ahead of it, and the  *)
(* attempts to bind that are left (lines 566-607).                         *)
CallsAhead ==
  [open_l |-> 11, open_c |-> 10, bind |-> 9, listen |-> 9, nb_c |-> 8, connect |-> 7,
   accept |-> 6, close_l |-> 5, nb_s |-> 4, restore |-> 3, clean_l |-> 2, clean_c |-> 1,
   idle |-> 0, ok |-> 0, half |-> 0, failed |-> 0]
TriesLeft(t) ==
  IF pc[t] \in {"open_l", "open_c"} THEN MaxTries ELSE IF pc[t] = "bind" THEN MaxTries - tries[t] ELSE 0
StepsLeft(t) == CallsAhead[pc[t]] + TriesLeft(t)

(* No call goes round for ever, whatever fails and whatever other threads  *)
(* bind: each host call that returns brings its end nearer, and nobody     *)
(* else puts it off.  So only the accept() of AwaitsOwn can keep it.       *)
CallsMoveOn ==
  [][\A t \in Threads :
       /\ Step(t) => StepsLeft(t)' < StepsLeft(t)
       /\ StepsLeft(t)' > StepsLeft(t) => Call(t)]_vars

-----------------------------------------------------------------------------
(* Why the properties hold: the parts of an inductive invariant.           *)

(* A closed descriptor keeps nothing of its last use.                      *)
ClosedIsBlank == \A f \in Fds : host[f].open \/ host[f] = Closed

(* At most one socket is reached at an address.                            *)
AddressUnique ==
  \A f, g \in Fds :
    /\ host[f].phase = "none" /\ host[g].phase = "none"
    /\ host[f].addr = host[g].addr /\ host[f].addr # NoAddr
    => f = g

(* Which of a thread's locals are valid, and distinct, at each stage.      *)
LocalsValid(t) ==
  /\ pc[t] = "bind" => tries[t] < MaxTries
  /\ pc[t] \in {"listen", "accept", "close_l", "nb_s"} => req[t].stream
  /\ pc[t] \in {"bind", "listen", "nb_c", "connect", "accept", "close_l"} =>
       lsock[t] # NoFd /\ csock[t] # NoFd
  /\ HoldsServer(t) => ssock[t] # NoFd /\ ssock[t] # csock[t]
  /\ HoldsServer(t) /\ pc[t] # "half" => csock[t] # NoFd
  /\ pc[t] = "close_l" => ssock[t] # lsock[t]
  /\ pc[t] \in {"restore", "ok"} => csock[t] # NoFd /\ (~req[t].stream => lsock[t] # NoFd)
  /\ HoldsListener(t) /\ HoldsClient(t) => lsock[t] # csock[t]

(* Its listener is not connected, and is reached at the address it         *)
(* remembers.                                                              *)
ListenerBound(t) ==
  /\ HoldsListener(t) /\ pc[t] # "half" => host[lsock[t]].phase = "none"
  /\ pc[t] \in {"listen", "nb_c", "connect", "accept"} =>
       host[lsock[t]].addr = laddr[t] /\ laddr[t] # NoAddr

(* Its sockets are connected to each other or to nothing.                  *)
PeersAtHome(t) == \A f \in Held(t) : host[f].peer \in Held(t) \cup {NoFd}

(* A connection of its that is not accepted yet is its client's, to its    *)
(* listener, and it is in accept() or gave up there.                       *)
ClientAtHome(t) ==
  \A f \in Held(t) :
    host[f].phase \in {"syn", "queued"} =>
      /\ pc[t] \in {"accept", "clean_l"}
      /\ f = csock[t] /\ lsock[t] # NoFd /\ host[f].peer = lsock[t]

(* From accept() on the two ends are each other's peers, while both exist. *)
Linked(t) ==
  HoldsServer(t) /\ pc[t] # "half" =>
    /\ host[ssock[t]].peer = csock[t] /\ host[csock[t]].peer = ssock[t]
    /\ host[ssock[t]].phase = "est" /\ host[csock[t]].phase = "est"

ThreadInv(t) ==
  LocalsValid(t) /\ ListenerBound(t) /\ PeersAtHome(t) /\ ClientAtHome(t) /\ Linked(t)

(* The mode of each end on its way to the one asked for, when fcntl()      *)
(* works.                                                                  *)
ModeInv(t) ==
  /\ HoldsListener(t) => host[lsock[t]].nonblock = req[t].nonblock
  /\ pc[t] \in {"bind", "listen", "nb_c", "ok", "half"} /\ csock[t] # NoFd =>
       host[csock[t]].nonblock = req[t].nonblock
  /\ pc[t] \in {"connect", "accept", "close_l", "nb_s", "restore"} =>
       host[csock[t]].nonblock
  /\ pc[t] \in {"restore", "ok", "half"} /\ HoldsServer(t) =>
       host[ssock[t]].nonblock = req[t].nonblock

(* How far the handshake of its client is: not begun before connect(), and *)
(* from then on under way, neither refused nor accepted by anybody else,   *)
(* until accept(); unless EAGAIN meant that it was not begun.              *)
WaitInv(t) ==
  /\ pc[t] \in {"nb_c", "connect"} /\ req[t].stream => host[lsock[t]].listening
  /\ pc[t] \in {"bind", "listen", "nb_c", "connect"} => host[csock[t]].phase = "none"
  /\ pc[t] = "accept" =>
       /\ host[csock[t]].phase \in {"none", "syn", "queued"}
       /\ host[csock[t]].phase = "none" => "again" \in Faults

IInv ==
  /\ TypeOK /\ Ownership /\ ClosedIsBlank /\ AddressUnique
  /\ \A t \in Threads : ThreadInv(t)

-----------------------------------------------------------------------------
(* The promise of PairService, with an unfinished call hidden from its     *)
(* caller: only the descriptors of a returned pair, and their peers, show. *)
Status(t) ==
  CASE pc[t] \in {"idle", "failed"} -> "idle"
    [] pc[t] \in {"ok", "half"} -> "ok"
    [] OTHER -> "busy"
Link(f) == IF \E t \in Threads : f \in Ends(t) THEN {host[f].peer} \ {NoFd} ELSE {}

Service == INSTANCE PairService WITH
  status <- [t \in Threads |-> Status(t)],
  stream <- [t \in Threads |-> req[t].stream],
  ends <- [t \in Threads |-> Ends(t)],
  link <- [f \in Fds |-> Link(f)]
ImplementsService == Service!Spec
=============================================================================
