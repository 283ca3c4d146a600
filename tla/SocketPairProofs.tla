-------------------------- MODULE SocketPairProofs --------------------------
(***************************************************************************)
(* Proofs about SocketPair, for every set of threads, descriptors, ports   *)
(* and requests, every number of bind attempts and every set of faults.    *)
(***************************************************************************)
EXTENDS SocketPair, TLAPS

(* What a step of thread t changes, besides its own locals, is the host.   *)
ThreadStep(t) == Call(t) \/ Step(t) \/ CloseEnd(t) \/ Release(t)

USE SocketPairAssumption, NoAddrAssumption

LEMMA ClosedType == Closed \in Socket
  BY DEF Closed, Socket

LEMMA NewSocketType ==
  ASSUME NEW nb \in BOOLEAN
  PROVE  NewSocket(nb) \in Socket
  BY DEF NewSocket, Closed, Socket

LEMMA RequestFields ==
  ASSUME NEW r \in Requests
  PROVE  r.stream \in BOOLEAN /\ r.nonblock \in BOOLEAN
  BY DEF Request

LEMMA AddrType ==
  ASSUME NEW r \in Requests, NEW p \in Ports
  PROVE  Addr(r, p) \in Addrs
  BY DEF Addrs

LEMMA FieldType ==
  ASSUME NEW x \in Socket, NEW b \in BOOLEAN, NEW p \in Fds \cup {NoFd},
         NEW ph \in {"none", "syn", "queued", "est", "reset"}
  PROVE  /\ [x EXCEPT !.nonblock = b] \in Socket
         /\ [x EXCEPT !.listening = b] \in Socket
         /\ [x EXCEPT !.phase = ph] \in Socket
         /\ [x EXCEPT !.peer = p, !.phase = ph] \in Socket
  BY DEF Socket

LEMMA EndReset ==
  ASSUME NEW x \in Socket
  PROVE  LET y == [x EXCEPT !.peer = NoFd, !.phase = "reset"]
         IN  /\ y \in Socket /\ y.open = x.open /\ y.addr = x.addr
             /\ y.peer = NoFd /\ y.phase = "reset"
  BY DEF Socket

(* close() keeps the descriptor table a table of sockets.                  *)
LEMMA HostCloseType ==
  ASSUME host \in [Fds -> Socket], NEW fds, HostClose(fds)
  PROVE  host' \in [Fds -> Socket]
<1>1. ASSUME NEW f \in Fds
      PROVE  [host[f] EXCEPT !.peer = NoFd, !.phase = "reset"] \in Socket
  BY EndReset
<1> QED BY <1>1, ClosedType DEF HostClose

LEMMA SetBlockingType ==
  ASSUME host \in [Fds -> Socket], NEW fd, NEW b \in BOOLEAN, SetBlocking(fd, b)
  PROVE  host' \in [Fds -> Socket]
<1>1. CASE host' = [host EXCEPT ![fd].nonblock = ~b]
  <2>1. ASSUME NEW f \in Fds PROVE [host[f] EXCEPT !.nonblock = ~b] \in Socket
    BY FieldType
  <2> QED BY <1>1, <2>1
<1> QED BY <1>1 DEF SetBlocking

(* Every step keeps the types of the variables.                            *)
LEMMA TypeStep ==
  ASSUME TypeOK, \A t \in Threads : LocalsValid(t), [Next]_vars
  PROVE  TypeOK'
<1> USE DEF TypeOK, Stages
<1>1. ASSUME NEW t \in Threads, Call(t) PROVE TypeOK'
  BY <1>1 DEF Call, At
<1>2. ASSUME NEW t \in Threads, OpenListener(t) PROVE TypeOK'
  BY <1>2, RequestFields, NewSocketType DEF OpenListener, At, FreeFds
<1>3. ASSUME NEW t \in Threads, OpenClient(t) PROVE TypeOK'
  BY <1>3, RequestFields, NewSocketType DEF OpenClient, FreeFds
<1>4. ASSUME NEW t \in Threads, Bind(t) PROVE TypeOK'
  <2>1. PICK p \in Ports : BindAt(t, Addr(req[t], p), "clean_l")
    BY <1>4 DEF Bind
  <2>2. Addr(req[t], p) \in Addrs
    BY AddrType
  <2>3. host' \in [Fds -> Socket]
    BY <2>1, <2>2 DEF BindAt, Counted, Socket
  <2>4. tries[t] + 1 \in 0 .. MaxTries
    BY <1>4 DEF Bind, LocalsValid
  <2> QED BY <2>1, <2>2, <2>3, <2>4 DEF BindAt, Counted, AfterBind
<1>5. ASSUME NEW t \in Threads, Listen(t) PROVE TypeOK'
  <2>1. host' \in [Fds -> Socket]
    <3>1. ASSUME NEW f \in Fds PROVE [host[f] EXCEPT !.listening = TRUE] \in Socket
      BY FieldType
    <3> QED BY <1>5, <3>1 DEF Listen
  <2> QED BY <1>5, <2>1 DEF Listen
<1>6. ASSUME NEW t \in Threads, SetClientNonblocking(t) PROVE TypeOK'
  BY <1>6, SetBlockingType DEF SetClientNonblocking, At
<1>7. ASSUME NEW t \in Threads, Connect(t) PROVE TypeOK'
  <2>1. host' \in [Fds -> Socket]
    <3>1. CASE Connected(t, {"est", "queued", "syn"})
      <4>1. PICK l \in Fds, ph \in {"est", "queued", "syn"} :
              host' = [host EXCEPT ![csock[t]].peer = l, ![csock[t]].phase = ph]
        BY <3>1 DEF Connected, Reachable
      <4>2. ASSUME NEW f \in Fds PROVE [host[f] EXCEPT !.peer = l, !.phase = ph] \in Socket
        BY FieldType
      <4>3. host' = [host EXCEPT ![csock[t]] = [@ EXCEPT !.peer = l, !.phase = ph]]
        BY <4>1
      <4> QED BY <4>2, <4>3
    <3> QED BY <1>7, <3>1 DEF Connect, NotStarted, Refused
  <2> QED BY <1>7, <2>1 DEF Connect, Connected, NotStarted, Refused, AfterConnect
<1>8. ASSUME NEW t \in Threads, Accept(t) PROVE TypeOK'
  <2>1. CASE pc' = [pc EXCEPT ![t] = "clean_l"] /\ UNCHANGED <<ssock, host>>
    BY <1>8, <2>1 DEF Accept
  <2>2. CASE AcceptsSome(t)
    <3>1. PICK s \in FreeFds, c \in Queued(lsock[t]), nb \in {FALSE, host[lsock[t]].nonblock} :
            Accepts(t, s, c, nb)
      BY <2>2 DEF AcceptsSome
    <3>2. lsock[t] \in Fds /\ s \in Fds /\ c \in Fds
      BY <1>8 DEF Accept, LocalsValid, FreeFds, Queued
    <3>3. host[lsock[t]].addr \in Addrs \cup {NoAddr} /\ nb \in BOOLEAN
      BY <3>2 DEF Socket
    <3>4. Accepted(nb, host[lsock[t]].addr, c) \in Socket
      BY <3>2, <3>3 DEF Accepted, NewSocket, Closed, Socket
    <3>5. [host[c] EXCEPT !.peer = s, !.phase = "est"] \in Socket
      BY <3>2, FieldType
    <3>6. host' \in [Fds -> Socket]
      BY <3>1, <3>2, <3>4, <3>5 DEF Accepts
    <3> QED BY <1>8, <3>1, <3>2, <3>6 DEF Accept, Accepts
  <2> QED BY <1>8, <2>1, <2>2 DEF Accept
<1>9. ASSUME NEW t \in Threads, CloseListener(t) PROVE TypeOK'
  BY <1>9, HostCloseType DEF CloseListener, At
<1>10. ASSUME NEW t \in Threads, SetServerBlocking(t) PROVE TypeOK'
  BY <1>10, SetBlockingType, RequestFields DEF SetServerBlocking, At
<1>11. ASSUME NEW t \in Threads, Restore(t) PROVE TypeOK'
  BY <1>11, SetBlockingType DEF Restore, At
<1>12. ASSUME NEW t \in Threads, CleanListener(t) PROVE TypeOK'
  BY <1>12, HostCloseType DEF CleanListener, At
<1>13. ASSUME NEW t \in Threads, CleanClient(t) PROVE TypeOK'
  BY <1>13, HostCloseType DEF CleanClient, At
<1>14. ASSUME NEW t \in Threads, Release(t) PROVE TypeOK'
  BY <1>14 DEF Release, At
<1>17. ASSUME NEW t \in Threads, CloseEnd(t) PROVE TypeOK'
  <2>1. PICK f \in Ends(t) :
          /\ HostClose({f})
          /\ pc' = [pc EXCEPT ![t] = IF Ends(t) \ {f} = {} THEN "idle" ELSE "half"]
          /\ lsock' = Only(lsock, t, Ends(t) \ {f})
          /\ csock' = Only(csock, t, Ends(t) \ {f})
          /\ ssock' = Only(ssock, t, Ends(t) \ {f})
    BY <1>17 DEF CloseEnd
  <2>2. UNCHANGED req /\ laddr' = [laddr EXCEPT ![t] = NoAddr] /\ tries' = [tries EXCEPT ![t] = 0]
    BY <1>17 DEF CloseEnd
  <2> QED BY <2>1, <2>2, HostCloseType DEF Only
<1>15. ASSUME NEW c \in Fds, Handshake(c) PROVE TypeOK'
  BY <1>15 DEF Handshake, locals, Socket
<1>16. CASE UNCHANGED vars
  BY <1>16 DEF vars, locals
<1> QED BY <1>1, <1>2, <1>3, <1>4, <1>5, <1>6, <1>7, <1>8, <1>9, <1>10, <1>11, <1>12,
           <1>13, <1>14, <1>15, <1>16, <1>17 DEF Next, Step

-----------------------------------------------------------------------------
(* Ownership.                                                              *)

(* No step of a thread touches another's locals.                           *)
LEMMA OthersLocals ==
  ASSUME TypeOK, NEW t \in Threads, ThreadStep(t), NEW u \in Threads, u # t
  PROVE  /\ pc'[u] = pc[u] /\ req'[u] = req[u]
         /\ lsock'[u] = lsock[u] /\ csock'[u] = csock[u] /\ ssock'[u] = ssock[u]
         /\ laddr'[u] = laddr[u] /\ tries'[u] = tries[u]
<1> USE DEF TypeOK
<1>1. CASE Call(t) BY <1>1 DEF Call, At
<1>2. CASE OpenListener(t) BY <1>2 DEF OpenListener, At
<1>3. CASE OpenClient(t) BY <1>3 DEF OpenClient
<1>4. CASE Bind(t) BY <1>4 DEF Bind, BindAt, Counted
<1>5. CASE Listen(t) BY <1>5 DEF Listen
<1>6. CASE SetClientNonblocking(t) BY <1>6 DEF SetClientNonblocking, At
<1>7. CASE Connect(t) BY <1>7 DEF Connect, Connected, NotStarted, Refused
<1>8. CASE Accept(t) BY <1>8 DEF Accept, AcceptsSome, Accepts
<1>9. CASE CloseListener(t) BY <1>9 DEF CloseListener, At
<1>10. CASE SetServerBlocking(t) BY <1>10 DEF SetServerBlocking, At
<1>11. CASE Restore(t) BY <1>11 DEF Restore, At
<1>12. CASE CleanListener(t) BY <1>12 DEF CleanListener, At
<1>13. CASE CleanClient(t) BY <1>13 DEF CleanClient, At
<1>14. CASE Release(t) BY <1>14 DEF Release, At
<1>15. CASE CloseEnd(t) BY <1>15 DEF CloseEnd, Only
<1> QED BY <1>1, <1>2, <1>3, <1>4, <1>5, <1>6, <1>7, <1>8, <1>9, <1>10, <1>11, <1>12,
           <1>13, <1>14, <1>15 DEF ThreadStep, Step

LEMMA OthersHeld ==
  ASSUME TypeOK, NEW t \in Threads, ThreadStep(t), NEW u \in Threads, u # t
  PROVE  Held(u)' = Held(u)
  BY OthersLocals DEF Held, HoldsListener, HoldsClient, HoldsServer

LEMMA HeldAreOpen ==
  ASSUME Ownership, NEW t \in Threads
  PROVE  Held(t) \subseteq Open
  BY DEF Ownership, NothingLeaks

(* The caller of a returned pair has the descriptors the thread answers    *)
(* for.                                                                    *)
LEMMA EndsHeld ==
  ASSUME TypeOK, NEW t \in Threads, LocalsValid(t)
  PROVE  /\ pc[t] \in {"ok", "half"} => Ends(t) = Held(t)
         /\ pc[t] \notin {"ok", "half"} => Ends(t) = {}
         /\ Ends(t) \subseteq Held(t)
<1>1. req[t].stream \in BOOLEAN
  BY RequestFields DEF TypeOK
<1> QED BY <1>1 DEF TypeOK, LocalsValid, Ends, Vector, Held, HoldsListener, HoldsClient, HoldsServer

(* Closing one of them takes that one and leaves the rest.                 *)
LEMMA CloseEndHeld ==
  ASSUME TypeOK, NEW t \in Threads, LocalsValid(t), NEW f \in Ends(t),
         pc' = [pc EXCEPT ![t] = IF Ends(t) \ {f} = {} THEN "idle" ELSE "half"],
         lsock' = Only(lsock, t, Ends(t) \ {f}),
         csock' = Only(csock, t, Ends(t) \ {f}),
         ssock' = Only(ssock, t, Ends(t) \ {f}),
         req' = req
  PROVE  Held(t)' = Held(t) \ {f} /\ Ends(t)' = Ends(t) \ {f}
<1>1. req[t].stream \in BOOLEAN /\ pc[t] \in {"ok", "half"} /\ Ends(t) = Held(t)
  BY RequestFields, EndsHeld DEF TypeOK, Ends
<1>2. Ends(t) \subseteq Fds /\ NoFd \notin Ends(t)
  BY <1>1 DEF Held
<1>3. /\ lsock'[t] = IF lsock[t] \in Ends(t) \ {f} THEN lsock[t] ELSE NoFd
      /\ csock'[t] = IF csock[t] \in Ends(t) \ {f} THEN csock[t] ELSE NoFd
      /\ ssock'[t] = IF ssock[t] \in Ends(t) \ {f} THEN ssock[t] ELSE NoFd
      /\ req'[t] = req[t]
  BY DEF Only, TypeOK
<1>4. Ends(t) = IF req[t].stream THEN {ssock[t], csock[t]} \ {NoFd} ELSE {lsock[t], csock[t]} \ {NoFd}
  BY <1>1 DEF Ends, Vector
<1>5. CASE Ends(t) \ {f} = {}
  <2>1. pc'[t] = "idle"
    BY <1>5 DEF TypeOK
  <2> QED BY <1>1, <1>5, <2>1 DEF Ends, Held, HoldsListener, HoldsClient, HoldsServer
<1>6. CASE Ends(t) \ {f} # {}
  <2>1. pc'[t] = "half"
    BY <1>6 DEF TypeOK
  <2>2. Held(t)' = {g \in Fds : \/ ~req[t].stream /\ lsock'[t] # NoFd /\ g = lsock'[t]
                                \/ csock'[t] # NoFd /\ g = csock'[t]
                                \/ req[t].stream /\ ssock'[t] # NoFd /\ g = ssock'[t]}
    BY <1>3, <2>1 DEF Held, HoldsListener, HoldsClient, HoldsServer
  <2>3. Ends(t)' = IF req[t].stream THEN {ssock'[t], csock'[t]} \ {NoFd}
                                   ELSE {lsock'[t], csock'[t]} \ {NoFd}
    BY <1>3, <2>1 DEF Ends, Vector
  <2>4. Ends(t)' = Ends(t) \ {f}
    BY <1>2, <1>3, <1>4, <2>3
  <2>5. Held(t)' = Ends(t)'
    BY <1>2, <1>3, <2>2, <2>3, <2>4
  <2> QED BY <1>1, <2>4, <2>5
<1> QED BY <1>5, <1>6

(* Ownership survives a step that trades the thread's descriptors for      *)
(* others nobody held.                                                     *)
LEMMA Trade ==
  ASSUME TypeOK, Ownership, NEW t \in Threads, ThreadStep(t),
         Open' = (Open \ Held(t)) \cup Held(t)',
         Held(t)' \cap (Open \ Held(t)) = {}
  PROVE  Ownership'
<1>1. \A u \in Threads : u # t => Held(u)' = Held(u)
  BY OthersHeld
<1>2. \A u \in Threads : u # t => Held(u) \subseteq Open \ Held(t)
  BY HeldAreOpen DEF Ownership, NothingShared
<1>3. Open \ Held(t) \subseteq UNION {Held(u) : u \in Threads \ {t}}
  BY DEF Ownership, NothingLeaks
<1>4. NothingShared'
  <2> SUFFICES ASSUME NEW u \in Threads, NEW v \in Threads, u # v
               PROVE  Held(u)' \cap Held(v)' = {}
    BY DEF NothingShared
  <2>1. CASE u = t BY <2>1, <1>1, <1>2
  <2>2. CASE v = t BY <2>2, <1>1, <1>2
  <2>3. CASE u # t /\ v # t
    BY <2>3, <1>1 DEF Ownership, NothingShared
  <2> QED BY <2>1, <2>2, <2>3
<1>5. NothingLeaks'
  <2>1. ASSUME NEW f \in Open' PROVE \E u \in Threads : f \in Held(u)'
    BY <1>1, <1>3
  <2>2. ASSUME NEW u \in Threads, NEW f \in Held(u)' PROVE f \in Open'
    BY <1>1, <1>2
  <2> QED BY <2>1, <2>2 DEF NothingLeaks
<1> QED BY <1>4, <1>5 DEF Ownership

LEMMA Keep ==
  ASSUME TypeOK, Ownership, NEW t \in Threads, ThreadStep(t),
         Open' = Open, Held(t)' = Held(t)
  PROVE  Ownership'
  BY Trade, HeldAreOpen

(* What close() does to the set of open descriptors.                       *)
LEMMA HostCloseOpen ==
  ASSUME TypeOK, NEW fds, HostClose(fds)
  PROVE  Open' = Open \ fds
<1>1. ASSUME NEW f \in Fds PROVE host'[f].open = (host[f].open /\ f \notin fds)
  BY DEF HostClose, Closed, TypeOK, Socket
<1> QED BY <1>1 DEF Open

LEMMA SetBlockingOpen ==
  ASSUME TypeOK, NEW fd, NEW b \in BOOLEAN, SetBlocking(fd, b)
  PROVE  Open' = Open
<1>1. ASSUME NEW f \in Fds PROVE host'[f].open = host[f].open
  BY DEF SetBlocking, TypeOK, Socket
<1> QED BY <1>1 DEF Open

LEMMA OwnershipStep ==
  ASSUME TypeOK, Ownership, ClosedIsBlank, NEW t \in Threads, LocalsValid(t), ThreadStep(t)
  PROVE  Ownership'
<1> DEFINE Unchanged == Open' = Open /\ Held(t)' = Held(t)
<1> USE DEF Held, HoldsListener, HoldsClient, HoldsServer
<1>1. CASE Call(t)
  <2>1. Unchanged BY <1>1 DEF Call, At, TypeOK, Open
  <2> QED BY <2>1, Keep
<1>2. CASE OpenListener(t)
  <2>1. Held(t) = {}
    BY <1>2 DEF OpenListener, At
  <2>2. CASE \E f \in FreeFds : lsock' = [lsock EXCEPT ![t] = f]
                              /\ host' = [host EXCEPT ![f] = NewSocket(req[t].nonblock)]
    <3>1. PICK f \in FreeFds : /\ lsock' = [lsock EXCEPT ![t] = f]
                              /\ host' = [host EXCEPT ![f] = NewSocket(req[t].nonblock)]
      BY <2>2
    <3>2. Held(t)' = {f}
      BY <1>2, <3>1 DEF OpenListener, At, TypeOK, FreeFds
    <3>3. Open' = Open \cup {f} /\ f \notin Open
      BY <3>1 DEF Open, FreeFds, NewSocket, Closed, TypeOK
    <3> QED BY <2>1, <3>2, <3>3, Trade
  <2>3. CASE lsock' = [lsock EXCEPT ![t] = NoFd] /\ UNCHANGED host
    <3>1. Held(t)' = {} /\ Open' = Open
      BY <1>2, <2>3 DEF OpenListener, At, TypeOK, Open
    <3> QED BY <2>1, <3>1, Keep
  <2> QED BY <1>2, <2>2, <2>3 DEF OpenListener
<1>3. CASE OpenClient(t)
  <2>1. Held(t) = {lsock[t]} \ {NoFd}
    BY <1>3 DEF OpenClient, TypeOK
  <2>2. CASE \E f \in FreeFds : csock' = [csock EXCEPT ![t] = f]
                              /\ host' = [host EXCEPT ![f] = NewSocket(req[t].nonblock)]
    <3>1. PICK f \in FreeFds : /\ csock' = [csock EXCEPT ![t] = f]
                              /\ host' = [host EXCEPT ![f] = NewSocket(req[t].nonblock)]
      BY <2>2
    <3>2. Held(t)' = Held(t) \cup {f}
      BY <1>3, <2>1, <3>1 DEF OpenClient, TypeOK, FreeFds
    <3>3. Open' = Open \cup {f} /\ f \notin Open
      BY <3>1 DEF Open, FreeFds, NewSocket, Closed, TypeOK
    <3>4. Held(t) \subseteq Open
      BY HeldAreOpen
    <3> HIDE DEF Held
    <3> QED BY <3>2, <3>3, <3>4, Trade
  <2>3. CASE csock' = [csock EXCEPT ![t] = NoFd] /\ UNCHANGED host
    <3>1. Held(t)' = Held(t) /\ Open' = Open
      BY <1>3, <2>1, <2>3 DEF OpenClient, TypeOK, Open
    <3> QED BY <3>1, Keep
  <2> QED BY <1>3, <2>2, <2>3 DEF OpenClient
<1>4. CASE Bind(t)
  <2>1. PICK p \in Ports : BindAt(t, Addr(req[t], p), "clean_l")
    BY <1>4 DEF Bind
  <2>2. Held(t)' = Held(t)
    BY <1>4, <2>1 DEF Bind, BindAt, Counted, AfterBind, TypeOK
  <2>3. Open' = Open
    BY <2>1 DEF BindAt, Counted, Open, TypeOK, Socket
  <2> QED BY <2>2, <2>3, Keep
<1>5. CASE Listen(t)
  <2>1. Held(t)' = Held(t)
    BY <1>5 DEF Listen, TypeOK
  <2>2. Open' = Open
    BY <1>5 DEF Listen, Open, TypeOK, Socket
  <2> QED BY <2>1, <2>2, Keep
<1>6. CASE SetClientNonblocking(t)
  <2>1. Held(t)' = Held(t)
    BY <1>6 DEF SetClientNonblocking, At, TypeOK
  <2>2. Open' = Open
    BY <1>6, SetBlockingOpen DEF SetClientNonblocking
  <2> QED BY <2>1, <2>2, Keep
<1>7. CASE Connect(t)
  <2>1. Held(t)' = Held(t)
    BY <1>7, RequestFields DEF Connect, Connected, NotStarted, Refused, AfterConnect, TypeOK, LocalsValid
  <2>2. Open' = Open
    <3>1. CASE Connected(t, {"est", "queued", "syn"})
      <4>1. PICK l \in Fds, ph \in {"est", "queued", "syn"} :
              host' = [host EXCEPT ![csock[t]].peer = l, ![csock[t]].phase = ph]
        BY <3>1 DEF Connected, Reachable
      <4>2. ASSUME NEW f \in Fds PROVE host'[f].open = host[f].open
        BY <4>1 DEF TypeOK, Socket
      <4> QED BY <4>2 DEF Open
    <3> QED BY <1>7, <3>1 DEF Connect, NotStarted, Refused, Open
  <2> QED BY <2>1, <2>2, Keep
<1>8. CASE Accept(t)
  <2>1. CASE pc' = [pc EXCEPT ![t] = "clean_l"] /\ UNCHANGED <<ssock, host>>
    <3>1. Held(t)' = Held(t) /\ Open' = Open
      BY <1>8, <2>1 DEF Accept, TypeOK, Open
    <3> QED BY <3>1, Keep
  <2>2. CASE AcceptsSome(t)
    <3>1. PICK s \in FreeFds, c \in Queued(lsock[t]), nb \in {FALSE, host[lsock[t]].nonblock} :
            Accepts(t, s, c, nb)
      BY <2>2 DEF AcceptsSome
    <3>2. Held(t)' = Held(t) \cup {s}
      BY <1>8, <3>1 DEF Accept, Accepts, TypeOK, FreeFds
    <3>3. c \in Open /\ s \in Fds /\ s \notin Open
      BY <3>1 DEF Queued, Open, ClosedIsBlank, Closed, FreeFds
    <3>4. Accepted(nb, host[lsock[t]].addr, c).open
      BY DEF Accepted, NewSocket, Closed
    <3>5. ASSUME NEW f \in Fds PROVE host'[f].open = (host[f].open \/ f = s)
      BY <3>1, <3>3, <3>4 DEF Accepts, Open, TypeOK, Socket
    <3>6. Open' = Open \cup {s}
      BY <3>5, <3>3 DEF Open
    <3>7. Held(t) \subseteq Open
      BY HeldAreOpen
    <3> HIDE DEF Held
    <3> QED BY <3>2, <3>3, <3>6, <3>7, Trade
  <2> QED BY <1>8, <2>1, <2>2 DEF Accept
<1>9. CASE CloseListener(t)
  <2>1. Held(t)' = Held(t) \ {lsock[t]} /\ lsock[t] \in Held(t)
    BY <1>9 DEF CloseListener, At, TypeOK, LocalsValid
  <2>2. Open' = Open \ {lsock[t]}
    BY <1>9, HostCloseOpen DEF CloseListener
  <2>3. Held(t) \subseteq Open
    BY HeldAreOpen
  <2> HIDE DEF Held
  <2> QED BY <2>1, <2>2, <2>3, Trade
<1>10. CASE SetServerBlocking(t)
  <2>1. Held(t)' = Held(t)
    BY <1>10, RequestFields DEF SetServerBlocking, At, TypeOK, LocalsValid
  <2>2. Open' = Open
    BY <1>10, SetBlockingOpen, RequestFields DEF SetServerBlocking, TypeOK
  <2> QED BY <2>1, <2>2, Keep
<1>11. CASE Restore(t)
  <2>1. Held(t)' = Held(t)
    BY <1>11 DEF Restore, At, TypeOK
  <2>2. Open' = Open
    BY <1>11, SetBlockingOpen DEF Restore, Open
  <2> QED BY <2>1, <2>2, Keep
<1>12. CASE CleanListener(t)
  <2>1. Held(t)' = Held(t) \ {lsock[t]} /\ Held(t) \cap {lsock[t]} = {lsock[t]} \ {NoFd}
    BY <1>12 DEF CleanListener, At, TypeOK, LocalsValid
  <2>2. Open' = Open \ {lsock[t]}
    BY <1>12, HostCloseOpen DEF CleanListener, Open
  <2>3. Held(t) \subseteq Open /\ NoFd \notin Open
    BY HeldAreOpen DEF Open
  <2> HIDE DEF Held
  <2> QED BY <2>1, <2>2, <2>3, Trade
<1>13. CASE CleanClient(t)
  <2>1. Held(t)' = {} /\ Held(t) = {csock[t]} \ {NoFd}
    BY <1>13 DEF CleanClient, At, TypeOK
  <2>2. Open' = Open \ {csock[t]}
    BY <1>13, HostCloseOpen DEF CleanClient, Open
  <2>3. NoFd \notin Open
    BY DEF Open
  <2> HIDE DEF Held
  <2> QED BY <2>1, <2>2, <2>3, Trade
<1>14. CASE Release(t)
  <2>1. Held(t) = {} /\ Held(t)' = {} /\ Open' = Open
    BY <1>14 DEF Release, At, TypeOK, Open
  <2> QED BY <2>1, Keep
<1>15. CASE CloseEnd(t)
  <2>1. PICK f \in Ends(t) : Held(t)' = Held(t) \ {f} /\ HostClose({f})
    BY <1>15, CloseEndHeld DEF CloseEnd
  <2>2. f \in Held(t) /\ Open' = Open \ {f} /\ Held(t) \subseteq Open
    BY <2>1, EndsHeld, HostCloseOpen, HeldAreOpen
  <2> HIDE DEF Held
  <2> QED BY <2>1, <2>2, Trade
<1> QED BY <1>1, <1>2, <1>3, <1>4, <1>5, <1>6, <1>7, <1>8, <1>9, <1>10, <1>11, <1>12,
           <1>13, <1>14, <1>15 DEF ThreadStep, Step

-----------------------------------------------------------------------------
(* The other parts of the invariant.  Effect(f) says all that a step of    *)
(* the protocol does to the connection of descriptor f.                    *)

Same(f) ==
  /\ host'[f].open = host[f].open /\ host'[f].addr = host[f].addr
  /\ host'[f].peer = host[f].peer /\ host'[f].phase = host[f].phase

LEMMA SetBlockingSame ==
  ASSUME TypeOK, NEW fd, NEW b \in BOOLEAN, SetBlocking(fd, b)
  PROVE  \A f \in Fds : Same(f) /\ (f # fd => host'[f] = host[f])
  BY DEF SetBlocking, TypeOK, Socket, Same

LEMMA HostCloseEffect ==
  ASSUME TypeOK, NEW fds, HostClose(fds), NEW f \in Fds
  PROVE  /\ f \in fds => host'[f] = Closed
         /\ f \notin fds /\ ~(host[f].open /\ host[f].peer \in fds) => host'[f] = host[f]
         /\ f \notin fds /\ host[f].open /\ host[f].peer \in fds =>
              /\ host'[f].open = host[f].open /\ host'[f].addr = host[f].addr
              /\ host'[f].peer = NoFd /\ host'[f].phase = "reset"
<1>1. host[f] \in Socket
  BY DEF TypeOK
<1>2. host'[f] = IF f \in fds THEN Closed
                ELSE IF host[f].open /\ host[f].peer \in fds
                     THEN [host[f] EXCEPT !.peer = NoFd, !.phase = "reset"]
                     ELSE host[f]
  BY DEF HostClose
<1>3. LET y == [host[f] EXCEPT !.peer = NoFd, !.phase = "reset"]
      IN  y.open = host[f].open /\ y.addr = host[f].addr /\ y.peer = NoFd /\ y.phase = "reset"
  BY <1>1, EndReset
<1>4. CASE f \in fds
  BY <1>2, <1>4
<1>5. CASE f \notin fds /\ host[f].open /\ host[f].peer \in fds
  BY <1>2, <1>3, <1>5
<1>6. CASE f \notin fds /\ ~(host[f].open /\ host[f].peer \in fds)
  BY <1>2, <1>6
<1> QED BY <1>4, <1>5, <1>6

LEMMA OwnDescriptors ==
  ASSUME TypeOK, NEW t \in Threads, LocalsValid(t)
  PROVE  /\ pc[t] = "open_c" /\ lsock[t] # NoFd => lsock[t] \in Held(t)
         /\ pc[t] \in {"bind", "listen", "nb_c", "connect", "accept", "close_l"} =>
              lsock[t] \in Held(t) /\ csock[t] \in Held(t)
         /\ HoldsServer(t) => ssock[t] \in Held(t)
         /\ HoldsServer(t) /\ pc[t] # "half" => csock[t] \in Held(t)
         /\ pc[t] \in {"restore", "ok"} => Vector(t)[1] \in Held(t) /\ Vector(t)[2] \in Held(t)
         /\ pc[t] \in {"restore", "ok"} => csock[t] \in Held(t)
         /\ pc[t] = "clean_l" /\ lsock[t] # NoFd => lsock[t] \in Held(t)
         /\ pc[t] \in {"clean_l", "clean_c"} /\ csock[t] # NoFd => csock[t] \in Held(t)
  BY RequestFields DEF TypeOK, LocalsValid, Held, HoldsListener, HoldsClient, HoldsServer, Vector

(* Whatever is queued at a thread's listener is its own client.            *)
LEMMA QueuedIsOwn ==
  ASSUME IInv, NEW t \in Threads, pc[t] = "accept", NEW c \in Queued(lsock[t])
  PROVE  c = csock[t]
<1>1. c \in Open
  BY DEF IInv, Queued, ClosedIsBlank, Closed, Open
<1>2. PICK u \in Threads : c \in Held(u)
  BY <1>1 DEF IInv, Ownership, NothingLeaks
<1>3. /\ pc[u] \in {"accept", "clean_l"} /\ c = csock[u]
      /\ lsock[u] # NoFd /\ lsock[u] = lsock[t]
  BY <1>2 DEF IInv, ThreadInv, ClientAtHome, Queued
<1>4. lsock[t] \in Held(t) /\ lsock[u] \in Held(u)
  BY <1>3, OwnDescriptors DEF IInv, ThreadInv
<1>5. u = t
  BY <1>3, <1>4 DEF IInv, Ownership, NothingShared
<1> QED BY <1>3, <1>5

(* What a thread reaches at its address is its own listener.               *)
LEMMA ReachesOwn ==
  ASSUME IInv, NEW t \in Threads, pc[t] = "connect", NEW l \in Reachable(laddr[t])
  PROVE  l = lsock[t]
<1>1. lsock[t] \in Fds /\ host[lsock[t]].phase = "none" /\ host[lsock[t]].addr = laddr[t]
      /\ laddr[t] # NoAddr
  BY DEF IInv, TypeOK, ThreadInv, LocalsValid, ListenerBound, HoldsListener
<1> QED BY <1>1 DEF IInv, AddressUnique, Reachable

(* A step changes the connections of no descriptor another thread holds.   *)
LEMMA Untouched ==
  ASSUME IInv, NEW t \in Threads, ThreadStep(t),
         NEW u \in Threads, u # t, NEW f \in Held(u)
  PROVE  host'[f] = host[f]
<1> USE DEF IInv, ThreadInv
<1>1. f \in Fds /\ f \in Open /\ f \notin FreeFds /\ f \notin Held(t)
  BY HeldAreOpen DEF Open, FreeFds, Ownership, NothingShared
<1>2. ASSUME NEW fds, fds \subseteq Held(t), HostClose(fds) PROVE host'[f] = host[f]
  <2>1. host[f].peer \notin fds
    BY <1>2 DEF PeersAtHome, Ownership, NothingShared, Held
  <2> QED BY <1>1, <1>2, <2>1, HostCloseEffect
<1> USE DEF TypeOK
<1>3. CASE Call(t) BY <1>3 DEF Call
<1>4. CASE OpenListener(t) BY <1>1, <1>4 DEF OpenListener
<1>5. CASE OpenClient(t) BY <1>1, <1>5 DEF OpenClient
<1>6. CASE Bind(t)
  BY <1>1, <1>6, OwnDescriptors DEF Bind, BindAt, Counted
<1>7. CASE Listen(t) BY <1>1, <1>7, OwnDescriptors DEF Listen
<1>8. CASE SetClientNonblocking(t)
  <2>1. f # csock[t]
    BY <1>1, <1>8, OwnDescriptors DEF SetClientNonblocking, At
  <2>2. SetBlocking(csock[t], FALSE)
    BY <1>8 DEF SetClientNonblocking
  <2> QED BY <1>1, <2>1, <2>2 DEF SetBlocking
<1>9. CASE Connect(t)
  <2>1. f # csock[t]
    BY <1>1, <1>9, OwnDescriptors DEF Connect
  <2>2. CASE Connected(t, {"est", "queued", "syn"})
    BY <1>1, <2>1, <2>2 DEF Connected
  <2> QED BY <1>9, <2>2 DEF Connect, NotStarted, Refused
<1>10. CASE Accept(t)
  <2>1. CASE AcceptsSome(t)
    <3>1. PICK s \in FreeFds, c \in Queued(lsock[t]), nb \in {FALSE, host[lsock[t]].nonblock} :
            Accepts(t, s, c, nb)
      BY <2>1 DEF AcceptsSome
    <3>2. c = csock[t]
      BY <1>10, QueuedIsOwn DEF Accept
    <3>3. f # c /\ f # s
      BY <1>1, <1>10, <3>2, OwnDescriptors DEF Accept
    <3> QED BY <1>1, <3>1, <3>3 DEF Accepts
  <2> QED BY <1>10, <2>1 DEF Accept
<1>11. CASE CloseListener(t)
  BY <1>2, <1>11, OwnDescriptors DEF CloseListener, At
<1>12. CASE SetServerBlocking(t)
  <2>1. f # ssock[t]
    BY <1>1, <1>12, OwnDescriptors DEF SetServerBlocking, At, HoldsServer
  <2>2. SetBlocking(ssock[t], ~req[t].nonblock)
    BY <1>12 DEF SetServerBlocking
  <2> QED BY <1>1, <2>1, <2>2 DEF SetBlocking
<1>13. CASE Restore(t)
  <2>1. f # csock[t]
    BY <1>1, <1>13, OwnDescriptors DEF Restore, At
  <2>2. UNCHANGED host \/ SetBlocking(csock[t], TRUE)
    BY <1>13 DEF Restore
  <2> QED BY <1>1, <2>1, <2>2 DEF SetBlocking
<1>14. CASE CleanListener(t)
  BY <1>2, <1>14, OwnDescriptors DEF CleanListener, At
<1>15. CASE CleanClient(t)
  BY <1>2, <1>15, OwnDescriptors DEF CleanClient, At
<1>16. CASE Release(t)
  BY <1>16 DEF Release
<1>17. CASE CloseEnd(t)
  <2>1. PICK g \in Ends(t) : HostClose({g})
    BY <1>17 DEF CloseEnd
  <2> QED BY <1>2, <2>1, EndsHeld
<1> QED BY <1>3, <1>4, <1>5, <1>6, <1>7, <1>8, <1>9, <1>10, <1>11, <1>12,
           <1>13, <1>14, <1>15, <1>16, <1>17 DEF ThreadStep, Step

(* So it keeps the invariants of every other thread.                       *)
LEMMA OthersInv ==
  ASSUME IInv, NEW t \in Threads, ThreadStep(t), NEW u \in Threads, u # t
  PROVE  ThreadInv(u)'
<1>1. /\ pc'[u] = pc[u] /\ req'[u] = req[u]
      /\ lsock'[u] = lsock[u] /\ csock'[u] = csock[u] /\ ssock'[u] = ssock[u]
      /\ laddr'[u] = laddr[u] /\ tries'[u] = tries[u]
  BY OthersLocals DEF IInv
<1>2. \A f \in Held(u) : host'[f] = host[f]
  BY Untouched
<1>3. Held(u)' = Held(u)
  BY OthersHeld DEF IInv
<1>4. /\ HoldsListener(u)' = HoldsListener(u) /\ HoldsClient(u)' = HoldsClient(u)
      /\ HoldsServer(u)' = HoldsServer(u)
  BY <1>1 DEF HoldsListener, HoldsClient, HoldsServer
<1>5. LocalsValid(u)'
  BY <1>1, <1>4 DEF IInv, ThreadInv, LocalsValid
<1>6. ListenerBound(u)'
  <2>1. HoldsListener(u) => lsock[u] \in Held(u)
    BY DEF Held, HoldsListener, IInv, TypeOK
  <2>2. pc[u] \in {"listen", "nb_c", "connect", "accept"} => HoldsListener(u)
    BY DEF HoldsListener, IInv, ThreadInv, LocalsValid
  <2> QED BY <1>1, <1>2, <1>4, <2>1, <2>2 DEF IInv, ThreadInv, ListenerBound
<1>7. PeersAtHome(u)'
  BY <1>2, <1>3 DEF IInv, ThreadInv, PeersAtHome
<1>8. ClientAtHome(u)'
  BY <1>1, <1>2, <1>3 DEF IInv, ThreadInv, ClientAtHome
<1>9. Linked(u)'
  <2>1. HoldsServer(u) /\ pc[u] # "half" => ssock[u] \in Held(u) /\ csock[u] \in Held(u)
    BY OwnDescriptors DEF IInv, ThreadInv
  <2>2. CASE HoldsServer(u) /\ pc[u] # "half"
    <3>1. host'[ssock[u]] = host[ssock[u]] /\ host'[csock[u]] = host[csock[u]]
      BY <1>2, <2>1, <2>2
    <3>2. Linked(u)
      BY DEF IInv, ThreadInv
    <3> QED BY <1>1, <2>2, <3>1, <3>2 DEF Linked
  <2>3. CASE ~(HoldsServer(u) /\ pc[u] # "half")
    BY <1>1, <1>4, <2>3 DEF Linked
  <2> QED BY <2>2, <2>3
<1> QED BY <1>5, <1>6, <1>7, <1>8, <1>9 DEF ThreadInv

(* What becomes of one descriptor f: closed descriptors stay blank, and f  *)
(* is not reached at an address it was not reached at before.              *)
Tame(f) ==
  /\ host'[f].open \/ host'[f] = Closed
  /\ \/ host'[f].phase # "none"
     \/ host'[f].addr = NoAddr
     \/ host[f].phase = "none" /\ host'[f].addr = host[f].addr

LEMMA SetBlockingTame ==
  ASSUME IInv, NEW fd \in Open, NEW b, SetBlocking(fd, b), NEW f \in Fds
  PROVE  Tame(f)
<1>1. CASE f # fd
  BY <1>1 DEF Tame, IInv, TypeOK, ClosedIsBlank, SetBlocking
<1>2. CASE f = fd
  <2>1. Same(f)
    BY <1>2 DEF SetBlocking, IInv, TypeOK, Socket, Same
  <2> QED BY <1>2, <2>1 DEF Tame, Same, Open
<1> QED BY <1>1, <1>2

LEMMA HostCloseTame ==
  ASSUME IInv, NEW fds, HostClose(fds), NEW f \in Fds
  PROVE  Tame(f)
<1>1. TypeOK /\ (host[f].open \/ host[f] = Closed)
  BY DEF IInv, ClosedIsBlank
<1>2. CASE f \in fds
  <2>1. host'[f] = Closed
    BY <1>1, <1>2, HostCloseEffect
  <2>2. Closed.addr = NoAddr
    BY DEF Closed
  <2> QED BY <2>1, <2>2 DEF Tame
<1>3. CASE f \notin fds /\ ~(host[f].open /\ host[f].peer \in fds)
  BY <1>1, <1>3, HostCloseEffect DEF Tame
<1>4. CASE f \notin fds /\ host[f].open /\ host[f].peer \in fds
  BY <1>1, <1>4, HostCloseEffect DEF Tame
<1> QED BY <1>2, <1>3, <1>4

LEMMA NewSocketTame ==
  ASSUME IInv, NEW g \in FreeFds, NEW nb \in BOOLEAN,
         host' = [host EXCEPT ![g] = NewSocket(nb)], NEW f \in Fds
  PROVE  Tame(f)
  BY DEF Tame, IInv, TypeOK, ClosedIsBlank, NewSocket, Closed

LEMMA SameHostTame ==
  ASSUME IInv, host' = host, NEW f \in Fds
  PROVE  Tame(f)
  BY DEF Tame, IInv, ClosedIsBlank

LEMMA TameStep ==
  ASSUME IInv, NEW t \in Threads, ThreadStep(t), ~Bind(t), NEW f \in Fds
  PROVE  Tame(f)
<1>1. /\ TypeOK /\ LocalsValid(t) /\ Held(t) \subseteq Open
      /\ req[t] \in Requests /\ req[t].nonblock \in BOOLEAN
  BY HeldAreOpen, RequestFields DEF IInv, ThreadInv, TypeOK
<1>2. CASE Call(t)
  BY <1>2, SameHostTame DEF Call
<1>3. CASE OpenListener(t)
  BY <1>1, <1>3, SameHostTame, NewSocketTame DEF OpenListener
<1>4. CASE OpenClient(t)
  BY <1>1, <1>4, SameHostTame, NewSocketTame DEF OpenClient
<1>5. CASE Listen(t)
  <2>1. lsock[t] \in Open
    BY <1>1, <1>5, OwnDescriptors DEF Listen
  <2>2. CASE host' = [host EXCEPT ![lsock[t]].listening = TRUE]
    <3>1. Same(f) /\ (f # lsock[t] => host'[f] = host[f])
      BY <1>1, <2>2 DEF TypeOK, Socket, Same
    <3> QED BY <2>1, <3>1 DEF Tame, Same, IInv, ClosedIsBlank, Open
  <2> QED BY <1>5, <2>2, SameHostTame DEF Listen
<1>6. CASE SetClientNonblocking(t)
  <2>1. csock[t] \in Open /\ SetBlocking(csock[t], FALSE)
    BY <1>1, <1>6, OwnDescriptors DEF SetClientNonblocking, At
  <2> QED BY <2>1, SetBlockingTame
<1>7. CASE Connect(t)
  <2>1. csock[t] \in Open
    BY <1>1, <1>7, OwnDescriptors DEF Connect
  <2>2. CASE Connected(t, {"est", "queued", "syn"})
    <3>1. PICK l \in Fds, ph \in {"est", "queued", "syn"} :
            host' = [host EXCEPT ![csock[t]].peer = l, ![csock[t]].phase = ph]
      BY <2>2 DEF Connected, Reachable
    <3>2. CASE f # csock[t]
      BY <1>1, <3>1, <3>2 DEF Tame, IInv, TypeOK, ClosedIsBlank
    <3>3. CASE f = csock[t]
      <4>1. host'[f].open = host[f].open /\ host'[f].phase = ph
        BY <1>1, <3>1, <3>3 DEF TypeOK, Socket
      <4> QED BY <2>1, <3>3, <4>1 DEF Tame, Open
    <3> QED BY <3>2, <3>3
  <2> QED BY <1>7, <2>2, SameHostTame DEF Connect, NotStarted, Refused
<1>8. CASE Accept(t)
  <2>1. CASE AcceptsSome(t)
    <3>1. PICK s \in FreeFds, c \in Queued(lsock[t]), nb \in {FALSE, host[lsock[t]].nonblock} :
            Accepts(t, s, c, nb)
      BY <2>1 DEF AcceptsSome
    <3>2. CASE f = s
      BY <3>1, <3>2 DEF Tame, Accepts, Accepted, NewSocket, Closed
    <3>3. CASE f # s /\ f = c
      <4>1. host'[f] = [host[f] EXCEPT !.peer = s, !.phase = "est"] /\ f \in Open
        BY <3>1, <3>3 DEF Accepts, IInv, ClosedIsBlank, Queued, Closed, Open
      <4>2. host'[f].phase = "est" /\ host'[f].open = host[f].open
        BY <1>1, <4>1 DEF TypeOK, Socket
      <4> QED BY <4>1, <4>2 DEF Tame, Open
    <3>4. CASE f # s /\ f # c
      BY <3>1, <3>4 DEF Tame, Accepts, IInv, ClosedIsBlank
    <3> QED BY <3>2, <3>3, <3>4
  <2> QED BY <1>8, <2>1, SameHostTame DEF Accept
<1>9. CASE CloseListener(t)
  BY <1>9, HostCloseTame DEF CloseListener
<1>10. CASE SetServerBlocking(t)
  <2>1. ssock[t] \in Open /\ SetBlocking(ssock[t], ~req[t].nonblock)
    BY <1>1, <1>10, OwnDescriptors DEF SetServerBlocking, At, HoldsServer
  <2> QED BY <2>1, SetBlockingTame
<1>11. CASE Restore(t)
  <2>1. csock[t] \in Open
    BY <1>1, <1>11, OwnDescriptors DEF Restore, At
  <2> QED BY <1>11, <2>1, SetBlockingTame, SameHostTame DEF Restore
<1>12. CASE CleanListener(t)
  BY <1>12, HostCloseTame, SameHostTame DEF CleanListener
<1>13. CASE CleanClient(t)
  BY <1>13, HostCloseTame, SameHostTame DEF CleanClient
<1>14. CASE Release(t)
  BY <1>14, SameHostTame DEF Release
<1>15. CASE CloseEnd(t)
  BY <1>15, HostCloseTame DEF CloseEnd
<1> QED BY <1>2, <1>3, <1>4, <1>5, <1>6, <1>7, <1>8, <1>9, <1>10, <1>11, <1>12,
           <1>13, <1>14, <1>15 DEF ThreadStep, Step

(* Two invariants of the host's table as a whole.                          *)
LEMMA TableStep ==
  ASSUME IInv, NEW t \in Threads, ThreadStep(t)
  PROVE  ClosedIsBlank' /\ AddressUnique'
<1>1. CASE ~Bind(t)
  <2>1. \A f \in Fds : Tame(f)
    BY <1>1, TameStep
  <2> QED BY <2>1 DEF Tame, IInv, ClosedIsBlank, AddressUnique
<1>2. CASE Bind(t)
  <2>1. PICK p \in Ports : BindAt(t, Addr(req[t], p), "clean_l")
    BY <1>2 DEF Bind
  <2>2. CASE UNCHANGED host
    BY <2>2 DEF IInv, ClosedIsBlank, AddressUnique
  <2>3. CASE /\ BindWorks(t, Addr(req[t], p))
             /\ host' = [host EXCEPT ![lsock[t]].addr = Addr(req[t], p)]
    <3>1. lsock[t] \in Fds /\ lsock[t] \in Open
      BY <1>2, OwnDescriptors, HeldAreOpen DEF Bind, IInv, ThreadInv, Held
    <3>2. ASSUME NEW f \in Fds
          PROVE  /\ host'[f].phase = host[f].phase /\ host'[f].open = host[f].open
                 /\ f # lsock[t] => host'[f] = host[f]
                 /\ f = lsock[t] => host'[f].addr = Addr(req[t], p)
      BY <2>3 DEF IInv, TypeOK, Socket
    <3>3. ASSUME NEW f \in Fds, f # lsock[t], host'[f].addr = Addr(req[t], p)
          PROVE  host'[f].addr = NoAddr
      BY <2>3, <3>2, <3>3 DEF BindWorks, AddrInUse, IInv, ClosedIsBlank, Closed
    <3>4. ClosedIsBlank'
      BY <3>1, <3>2 DEF IInv, ClosedIsBlank, Open
    <3>5. AddressUnique'
      BY <3>1, <3>2, <3>3 DEF IInv, AddressUnique
    <3> QED BY <3>4, <3>5
  <2> QED BY <2>1, <2>2, <2>3 DEF BindAt, Counted
<1> QED BY <1>1, <1>2

(* A step of a thread keeps its own part of the invariant.                 *)
LEMMA OwnInv ==
  ASSUME IInv, NEW t \in Threads, ThreadStep(t)
  PROVE  ThreadInv(t)'
<1> USE DEF ThreadInv
<1>1. /\ TypeOK /\ Held(t) \subseteq Open /\ req[t] \in Requests
      /\ req[t].nonblock \in BOOLEAN /\ req[t].stream \in BOOLEAN
      /\ LocalsValid(t) /\ ListenerBound(t) /\ PeersAtHome(t) /\ ClientAtHome(t) /\ Linked(t)
  BY HeldAreOpen, RequestFields DEF IInv, TypeOK
<1> DEFINE Stays == \A f \in Held(t)' : Same(f)
<1>2. ASSUME Held(t)' = {}, pc'[t] \in {"idle", "open_l", "failed"}
      PROVE  ThreadInv(t)'
  BY <1>2 DEF Held, LocalsValid, ListenerBound, PeersAtHome, ClientAtHome, Linked,
              HoldsListener, HoldsClient, HoldsServer
<1>3. CASE Call(t)
  <2>1. pc'[t] = "open_l"
    BY <1>1, <1>3 DEF Call, At, TypeOK
  <2> QED BY <1>2, <2>1 DEF Held, HoldsListener, HoldsClient, HoldsServer
<1>4. CASE Release(t)
  <2>1. pc'[t] = "idle"
    BY <1>1, <1>4 DEF Release, At, TypeOK
  <2> QED BY <1>2, <2>1 DEF Held, HoldsListener, HoldsClient, HoldsServer
<1>5. CASE CleanClient(t)
  <2>1. pc'[t] = "failed"
    BY <1>1, <1>5 DEF CleanClient, At, TypeOK
  <2> QED BY <1>2, <2>1 DEF Held, HoldsListener, HoldsClient, HoldsServer
<1> DEFINE Roles == /\ lsock'[t] = lsock[t] /\ csock'[t] = csock[t] /\ ssock'[t] = ssock[t]
                    /\ req'[t] = req[t] /\ laddr'[t] = laddr[t] /\ tries'[t] = tries[t]
<1> USE DEF HoldsListener, HoldsClient, HoldsServer
<1>6. CASE OpenListener(t)
  <2>1. pc'[t] = "open_c"
    BY <1>1, <1>6 DEF OpenListener, At, TypeOK
  <2>2. ASSUME lsock'[t] # NoFd
        PROVE  host'[lsock'[t]].phase = "none" /\ host'[lsock'[t]].peer = NoFd
    <3>1. PICK f \in FreeFds : lsock' = [lsock EXCEPT ![t] = f]
                            /\ host' = [host EXCEPT ![f] = NewSocket(req[t].nonblock)]
      BY <1>1, <1>6, <2>2 DEF OpenListener, TypeOK
    <3>2. lsock'[t] = f /\ host'[f] = NewSocket(req[t].nonblock)
      BY <1>1, <3>1 DEF FreeFds, TypeOK
    <3> QED BY <3>2 DEF NewSocket, Closed
  <2>3. Held(t)' = {lsock'[t]} \cap Fds /\ NoFd \notin Held(t)'
    BY <2>1, <1>6, <1>1 DEF Held, OpenListener, FreeFds, TypeOK
  <2> QED BY <2>1, <2>2, <2>3 DEF LocalsValid, ListenerBound, PeersAtHome, ClientAtHome, Linked
<1>7. CASE OpenClient(t)
  <2>1. /\ pc'[t] = IF lsock[t] = NoFd \/ csock'[t] = NoFd THEN "clean_l" ELSE "bind"
        /\ lsock'[t] = lsock[t] /\ tries'[t] = 0 /\ pc[t] = "open_c"
        /\ csock'[t] \in Fds \cup {NoFd}
    BY <1>1, <1>7 DEF OpenClient, FreeFds, TypeOK
  <2>2. ASSUME csock'[t] # NoFd
        PROVE  /\ host'[csock'[t]].phase = "none" /\ host'[csock'[t]].peer = NoFd
               /\ csock'[t] \notin Open
    <3>1. PICK f \in FreeFds : csock' = [csock EXCEPT ![t] = f]
                            /\ host' = [host EXCEPT ![f] = NewSocket(req[t].nonblock)]
      BY <1>1, <1>7, <2>2 DEF OpenClient, TypeOK
    <3>2. csock'[t] = f /\ host'[f] = NewSocket(req[t].nonblock) /\ f \notin Open
      BY <1>1, <3>1 DEF FreeFds, TypeOK, Open
    <3> QED BY <3>2 DEF NewSocket, Closed
  <2>3. ASSUME lsock[t] # NoFd
        PROVE  /\ host'[lsock[t]].phase = "none" /\ host'[lsock[t]].peer \in {lsock[t], NoFd}
               /\ lsock[t] # csock'[t]
    <3>1. lsock[t] \in Held(t) /\ Held(t) = {lsock[t]} /\ lsock[t] \in Open
      BY <1>1, <2>1, <2>3 DEF Held, TypeOK
    <3>2. host'[lsock[t]] = host[lsock[t]]
      BY <1>1, <1>7, <3>1 DEF OpenClient, FreeFds, Open, TypeOK
    <3> QED BY <1>1, <2>1, <2>2, <3>1, <3>2 DEF ListenerBound, PeersAtHome, Open
  <2>4. Held(t)' = {lsock[t], csock'[t]} \cap Fds
    BY <1>1, <2>1 DEF Held, TypeOK
  <2> QED BY <1>1, <2>1, <2>2, <2>3, <2>4
          DEF LocalsValid, ListenerBound, PeersAtHome, ClientAtHome, Linked
<1>8. CASE Bind(t)
  <2>1. PICK p \in Ports : BindAt(t, Addr(req[t], p), "clean_l")
    BY <1>8 DEF Bind
  <2>2. /\ Addr(req[t], p) # NoAddr /\ lsock[t] \in Held(t) /\ lsock[t] \in Fds
        /\ pc[t] = "bind" /\ Held(t) \subseteq Fds
    <3>1. pc[t] = "bind" /\ Held(t) \subseteq Fds
      BY <1>8 DEF Bind, Held
    <3>2. lsock[t] \in Held(t)
      BY <1>1, <3>1, OwnDescriptors
    <3>3. req[t] \in Requests
      BY <1>1, <3>1 DEF TypeOK
    <3>4. Addr(req[t], p) # NoAddr
      BY <3>3, AddrType
    <3> QED BY <3>1, <3>2, <3>4
  <2>3. /\ lsock'[t] = lsock[t] /\ csock'[t] = csock[t] /\ ssock'[t] = ssock[t]
        /\ req'[t] = req[t] /\ laddr'[t] = Addr(req[t], p)
    BY <1>1, <2>1 DEF BindAt, Counted, TypeOK
  <2>4. \A f \in Fds : host'[f].peer = host[f].peer /\ host'[f].phase = host[f].phase
    BY <1>1, <2>1 DEF BindAt, Counted, TypeOK, Socket
  <2>5. \/ /\ pc'[t] = AfterBind(t) /\ tries'[t] = tries[t]
           /\ host'[lsock[t]].addr = Addr(req[t], p)
        \/ /\ pc'[t] = "bind" /\ tries'[t] = tries[t] + 1 /\ tries[t] + 1 < MaxTries
        \/ pc'[t] = "clean_l"
    BY <1>1, <2>1, <2>2 DEF BindAt, Counted, TypeOK, Socket
  <2>6. Held(t)' = Held(t)
    BY <2>2, <2>3, <2>5 DEF Held, AfterBind
  <2>7. pc'[t] \in {"bind", "listen", "nb_c", "clean_l"} /\ (pc'[t] = "listen" => req[t].stream)
    BY <2>5 DEF AfterBind
  <2>8. LocalsValid(t)'
    BY <1>1, <2>2, <2>3, <2>5, <2>7 DEF LocalsValid
  <2>9. ListenerBound(t)'
    BY <1>1, <2>2, <2>3, <2>4, <2>5, <2>7 DEF ListenerBound, AfterBind
  <2>10. PeersAtHome(t)'
    BY <1>1, <2>2, <2>4, <2>6 DEF PeersAtHome
  <2>11. ClientAtHome(t)'
    BY <1>1, <2>2, <2>4, <2>6 DEF ClientAtHome
  <2>12. Linked(t)'
    BY <2>7 DEF Linked
  <2> QED BY <2>8, <2>9, <2>10, <2>11, <2>12
<1>9. ASSUME \A f \in Fds : Same(f), Roles, Held(t)' = Held(t),
             \/ pc[t] = "listen" /\ pc'[t] \in {"nb_c", "clean_l"}
             \/ pc[t] = "nb_c" /\ pc'[t] = "connect"
             \/ pc[t] = "connect" /\ pc'[t] \in {"accept", "clean_l"} /\ (pc'[t] = "accept" => req[t].stream)
             \/ pc[t] = "connect" /\ pc'[t] = "restore" /\ ~req[t].stream
             \/ pc[t] = "accept" /\ pc'[t] = "clean_l"
             \/ pc[t] = "nb_s" /\ pc'[t] = "restore"
             \/ pc[t] = "restore" /\ pc'[t] = "ok"
      PROVE  ThreadInv(t)'
  <2>1. Held(t) \subseteq Fds
    BY DEF Held
  <2>2. /\ pc[t] \in {"listen", "nb_c", "connect", "accept"} => lsock[t] \in Fds
        /\ HoldsServer(t) /\ pc[t] # "half" => ssock[t] \in Fds /\ csock[t] \in Fds
    BY <1>1 DEF LocalsValid, TypeOK
  <2>3. LocalsValid(t)'
    BY <1>1, <1>9 DEF LocalsValid
  <2>4. ListenerBound(t)'
    <3>1. HoldsListener(t)' => HoldsListener(t) /\ lsock[t] \in Fds
      BY <1>1, <1>9 DEF TypeOK, LocalsValid
    <3>2. HoldsListener(t)' => host'[lsock'[t]].phase = "none"
      BY <1>1, <1>9, <3>1 DEF ListenerBound, Same
    <3>3. pc'[t] \in {"listen", "nb_c", "connect", "accept"} =>
            host'[lsock'[t]].addr = laddr'[t] /\ laddr'[t] # NoAddr
      BY <1>1, <1>9, <2>2 DEF ListenerBound, Same
    <3> QED BY <3>2, <3>3 DEF ListenerBound
  <2>5. PeersAtHome(t)'
    BY <1>1, <1>9, <2>1 DEF PeersAtHome, Same
  <2>6. ClientAtHome(t)'
    BY <1>1, <1>9, <2>1 DEF ClientAtHome, Same
  <2>7. Linked(t)'
    BY <1>1, <1>9, <2>2 DEF Linked, Same
  <2> QED BY <2>3, <2>4, <2>5, <2>6, <2>7
<1>10. ASSUME UNCHANGED host PROVE \A f \in Fds : Same(f)
  BY <1>10 DEF Same
<1>11. CASE Listen(t)
  <2>1. Roles /\ pc[t] = "listen" /\ pc'[t] \in {"nb_c", "clean_l"}
    BY <1>1, <1>11 DEF Listen, TypeOK
  <2>2. \A f \in Fds : Same(f)
    BY <1>1, <1>11 DEF Listen, TypeOK, Socket, Same
  <2>3. Held(t)' = Held(t)
    BY <2>1 DEF Held
  <2> QED BY <1>9, <2>1, <2>2, <2>3
<1>12. CASE SetClientNonblocking(t)
  <2>1. Roles /\ pc[t] = "nb_c" /\ pc'[t] = "connect"
    BY <1>1, <1>12 DEF SetClientNonblocking, At, TypeOK
  <2>2. \A f \in Fds : Same(f)
    BY <1>1, <1>12, SetBlockingSame DEF SetClientNonblocking
  <2>3. Held(t)' = Held(t)
    BY <2>1 DEF Held
  <2> QED BY <1>9, <2>1, <2>2, <2>3
<1>13. CASE SetServerBlocking(t)
  <2>1. Roles /\ pc[t] = "nb_s" /\ pc'[t] = "restore"
    BY <1>1, <1>13 DEF SetServerBlocking, At, TypeOK
  <2>2. \A f \in Fds : Same(f)
    BY <1>1, <1>13, SetBlockingSame DEF SetServerBlocking
  <2>3. Held(t)' = Held(t)
    BY <1>1, <2>1 DEF Held, LocalsValid
  <2> QED BY <1>9, <2>1, <2>2, <2>3
<1>14. CASE Restore(t)
  <2>1. Roles /\ pc[t] = "restore" /\ pc'[t] = "ok"
    BY <1>1, <1>14 DEF Restore, At, TypeOK
  <2>2. \A f \in Fds : Same(f)
    BY <1>1, <1>10, <1>14, SetBlockingSame DEF Restore
  <2>3. Held(t)' = Held(t)
    BY <2>1 DEF Held
  <2> QED BY <1>9, <2>1, <2>2, <2>3
<1>15. CASE Connect(t)
  <2>1. Roles /\ pc[t] = "connect" /\ pc'[t] \in {"clean_l", AfterConnect(t)}
    BY <1>1, <1>15 DEF Connect, Connected, NotStarted, Refused, TypeOK, AfterConnect
  <2>2. Held(t)' = Held(t)
    BY <1>1, <2>1 DEF Held, AfterConnect
  <2>3. CASE UNCHANGED host
    BY <1>9, <1>10, <2>1, <2>2, <2>3 DEF AfterConnect
  <2>4. CASE Connected(t, {"est", "queued", "syn"})
    <3>1. PICK l \in Reachable(laddr[t]), ph \in {"est", "queued", "syn"} :
            /\ (ph = "est") <=> ~req[t].stream
            /\ host' = [host EXCEPT ![csock[t]].peer = l, ![csock[t]].phase = ph]
      BY <2>4 DEF Connected
    <3>2. l = lsock[t]
      BY <2>1, ReachesOwn
    <3>3. pc'[t] = AfterConnect(t)
      BY <1>1, <2>4 DEF Connected, TypeOK
    <3>4. /\ lsock[t] \in Fds /\ csock[t] \in Fds /\ lsock[t] # csock[t]
          /\ lsock[t] \in Held(t) /\ csock[t] \in Held(t) /\ lsock[t] # NoFd
          /\ Held(t) = {lsock[t], csock[t]}
      BY <1>1, <2>1, OwnDescriptors DEF LocalsValid, TypeOK, Held
    <3>5. /\ host'[lsock[t]] = host[lsock[t]]
          /\ host'[csock[t]].peer = lsock[t] /\ host'[csock[t]].phase = ph
      BY <1>1, <3>1, <3>2, <3>4 DEF TypeOK, Socket
    <3>6. LocalsValid(t)'
      BY <1>1, <2>1, <3>3 DEF LocalsValid, AfterConnect
    <3>7. ListenerBound(t)'
      BY <1>1, <2>1, <3>3, <3>5 DEF ListenerBound, AfterConnect
    <3>8. PeersAtHome(t)'
      BY <1>1, <2>2, <3>4, <3>5 DEF PeersAtHome
    <3>9. ClientAtHome(t)'
      <4>1. host'[lsock[t]].phase = "none"
        BY <1>1, <2>1, <3>4, <3>5 DEF ListenerBound
      <4>2. ph \in {"syn", "queued"} => pc'[t] = "accept"
        BY <3>1, <3>3 DEF AfterConnect
      <4>3. \A f \in Held(t)' : f = lsock[t] \/ f = csock[t]
        BY <2>2, <3>4
      <4>4. csock'[t] = csock[t] /\ lsock'[t] = lsock[t]
        BY <2>1
      <4> HIDE DEF Held
      <4> QED BY <3>4, <3>5, <4>1, <4>2, <4>3, <4>4 DEF ClientAtHome
    <3>10. Linked(t)'
      BY <2>1, <3>3 DEF Linked, AfterConnect
    <3> QED BY <3>6, <3>7, <3>8, <3>9, <3>10
  <2> QED BY <1>15, <2>3, <2>4 DEF Connect, NotStarted, Refused
<1>16. CASE Accept(t)
  <2>1. pc[t] = "accept" /\ req'[t] = req[t] /\ lsock'[t] = lsock[t] /\ csock'[t] = csock[t]
        /\ laddr'[t] = laddr[t] /\ tries'[t] = tries[t]
    BY <1>1, <1>16 DEF Accept, TypeOK
  <2>2. CASE pc' = [pc EXCEPT ![t] = "clean_l"] /\ UNCHANGED <<ssock, host>>
    <3>1. Roles /\ pc'[t] = "clean_l" /\ Held(t)' = Held(t)
      BY <1>1, <2>1, <2>2 DEF TypeOK, Held
    <3> QED BY <1>9, <1>10, <2>1, <2>2, <3>1
  <2>3. CASE AcceptsSome(t)
    <3>1. PICK s \in FreeFds, c \in Queued(lsock[t]), nb \in {FALSE, host[lsock[t]].nonblock} :
            Accepts(t, s, c, nb)
      BY <2>3 DEF AcceptsSome
    <3>2. c = csock[t]
      BY <2>1, QueuedIsOwn
    <3>3. /\ lsock[t] \in Fds /\ csock[t] \in Fds /\ lsock[t] # csock[t]
          /\ lsock[t] # NoFd /\ csock[t] # NoFd
          /\ lsock[t] \in Held(t) /\ csock[t] \in Held(t) /\ Held(t) = {lsock[t], csock[t]}
      BY <1>1, <2>1, OwnDescriptors DEF LocalsValid, TypeOK, Held
    <3>4. s \in Fds /\ s # lsock[t] /\ s # csock[t] /\ s # NoFd
      BY <1>1, <3>3 DEF FreeFds, Open
    <3>5. ssock'[t] = s /\ pc'[t] = "close_l"
      BY <1>1, <3>1 DEF Accepts, TypeOK
    <3>6. /\ host'[s].peer = csock[t] /\ host'[s].phase = "est"
          /\ host'[lsock[t]] = host[lsock[t]]
      BY <3>1, <3>2, <3>3, <3>4 DEF Accepts, Accepted, NewSocket, Closed
    <3>7. host'[csock[t]].peer = s /\ host'[csock[t]].phase = "est"
      <4>1. host'[csock[t]] = [host[csock[t]] EXCEPT !.peer = s, !.phase = "est"]
        BY <3>1, <3>2, <3>3, <3>4 DEF Accepts
      <4> QED BY <1>1, <3>3, <4>1 DEF TypeOK, Socket
    <3>8. Held(t)' = {lsock[t], csock[t], s}
      BY <2>1, <3>3, <3>4, <3>5 DEF Held
    <3>9. host[lsock[t]].phase = "none" /\ host[lsock[t]].peer \in {lsock[t], csock[t], NoFd}
      BY <1>1, <2>1, <3>3 DEF ListenerBound, PeersAtHome
    <3>10. LocalsValid(t)'
      BY <1>1, <2>1, <3>3, <3>4, <3>5 DEF LocalsValid
    <3>11. ListenerBound(t)'
      BY <2>1, <3>5, <3>6, <3>9 DEF ListenerBound
    <3>12. PeersAtHome(t)'
      BY <3>6, <3>7, <3>8, <3>9 DEF PeersAtHome
    <3>13. ClientAtHome(t)'
      BY <3>6, <3>7, <3>8, <3>9 DEF ClientAtHome
    <3>14. Linked(t)'
      BY <2>1, <3>5, <3>6, <3>7 DEF Linked
    <3> QED BY <3>10, <3>11, <3>12, <3>13, <3>14
  <2> QED BY <1>16, <2>2, <2>3 DEF Accept
<1>17. CASE CloseListener(t)
  <2>1. Roles /\ pc[t] = "close_l" /\ pc'[t] = "nb_s" /\ HostClose({lsock[t]})
    BY <1>1, <1>17 DEF CloseListener, At, TypeOK
  <2>2. /\ ssock[t] \in Fds /\ csock[t] \in Fds /\ ssock[t] # csock[t] /\ req[t].stream
        /\ lsock[t] # ssock[t] /\ lsock[t] # csock[t] /\ csock[t] # NoFd /\ ssock[t] # NoFd
    BY <1>1, <2>1 DEF LocalsValid, TypeOK
  <2>3. Held(t)' = {ssock[t], csock[t]}
    BY <2>1, <2>2 DEF Held
  <2>4. /\ host[ssock[t]].peer = csock[t] /\ host[csock[t]].peer = ssock[t]
        /\ host[ssock[t]].phase = "est" /\ host[csock[t]].phase = "est"
    BY <1>1, <2>1 DEF Linked
  <2>5. host'[ssock[t]] = host[ssock[t]] /\ host'[csock[t]] = host[csock[t]]
    BY <1>1, <2>1, <2>2, <2>4, HostCloseEffect
  <2> QED BY <2>1, <2>2, <2>3, <2>4, <2>5
          DEF LocalsValid, ListenerBound, PeersAtHome, ClientAtHome, Linked
<1>18. CASE CleanListener(t)
  <2>1. /\ Roles /\ pc[t] = "clean_l" /\ pc'[t] = "clean_c"
        /\ IF lsock[t] # NoFd THEN HostClose({lsock[t]}) ELSE UNCHANGED host
    BY <1>1, <1>18 DEF CleanListener, At, TypeOK
  <2>2. Held(t)' = {csock[t]} \cap Fds /\ Held(t)' \subseteq Held(t)
    BY <1>1, <2>1 DEF Held, TypeOK
  <2>3. ASSUME NEW f \in Held(t)'
        PROVE  host'[f].peer \in {csock[t], NoFd} /\ host'[f].phase \notin {"syn", "queued"}
    <3>1. f = csock[t] /\ f \in Fds /\ f \in Held(t) /\ f \in Open
      BY <1>1, <2>2, <2>3
    <3>2. /\ host[f].peer \in {lsock[t], csock[t], NoFd}
          /\ host[f].phase \in {"syn", "queued"} => lsock[t] # NoFd /\ host[f].peer = lsock[t]
      BY <1>1, <2>1, <3>1 DEF PeersAtHome, ClientAtHome, Held
    <3>3. CASE lsock[t] = NoFd
      BY <2>1, <3>1, <3>2, <3>3
    <3>4. CASE lsock[t] # NoFd
      <4>1. lsock[t] # csock[t]
        BY <1>1, <2>1, <3>1, <3>4 DEF LocalsValid, TypeOK
      <4>2. f \notin {lsock[t]} /\ HostClose({lsock[t]}) /\ host[f].open
        BY <2>1, <3>1, <3>4, <4>1 DEF Open
      <4> QED BY <1>1, <3>1, <3>2, <4>2, HostCloseEffect
    <3> QED BY <3>3, <3>4
  <2> QED BY <2>1, <2>2, <2>3 DEF LocalsValid, ListenerBound, PeersAtHome, ClientAtHome, Linked
<1>19. CASE CloseEnd(t)
  <2>1. PICK f \in Ends(t) :
          /\ HostClose({f})
          /\ pc' = [pc EXCEPT ![t] = IF Ends(t) \ {f} = {} THEN "idle" ELSE "half"]
          /\ lsock' = Only(lsock, t, Ends(t) \ {f})
          /\ csock' = Only(csock, t, Ends(t) \ {f})
          /\ ssock' = Only(ssock, t, Ends(t) \ {f})
          /\ req' = req
    BY <1>19 DEF CloseEnd
  <2>2. Held(t)' = Held(t) \ {f} /\ pc[t] \in {"ok", "half"} /\ f \in Held(t) /\ Ends(t) = Held(t)
    BY <1>1, <2>1, CloseEndHeld, EndsHeld DEF Ends
  <2>3. CASE Ends(t) \ {f} = {}
    <3>1. pc'[t] = "idle"
      BY <1>1, <2>1, <2>3 DEF TypeOK
    <3> QED BY <1>2, <2>2, <2>3, <3>1
  <2>4. CASE Ends(t) \ {f} # {}
    <3>1. pc'[t] = "half"
      BY <1>1, <2>1, <2>4 DEF TypeOK
    <3>2. ASSUME NEW g \in Held(t)'
          PROVE  /\ host'[g].peer \in Held(t)' \cup {NoFd}
                 /\ host'[g].phase \notin {"syn", "queued"}
      <4>1. g \in Held(t) /\ g # f /\ g \in Fds /\ host[g].open
        BY <1>1, <2>2 DEF Held, Open
      <4>2. host[g].peer \in Held(t) \cup {NoFd} /\ host[g].phase \notin {"syn", "queued"}
        BY <1>1, <2>2, <4>1 DEF PeersAtHome, ClientAtHome
      <4> HIDE DEF Held
      <4> QED BY <1>1, <2>1, <2>2, <4>1, <4>2, HostCloseEffect
    <3>3. /\ lsock'[t] # NoFd => lsock'[t] = lsock[t]
          /\ csock'[t] # NoFd => csock'[t] = csock[t]
          /\ ssock'[t] # NoFd => ssock'[t] = ssock[t]
          /\ req'[t] = req[t]
      BY <1>1, <2>1 DEF Only, TypeOK
    <3>4. LocalsValid(t)'
      <4>1. HoldsServer(t)' => ssock'[t] = ssock[t] /\ ssock'[t] # NoFd /\ HoldsServer(t)
        BY <2>2, <3>1, <3>3
      <4>2. HoldsListener(t)' /\ HoldsClient(t)' =>
              lsock'[t] = lsock[t] /\ csock'[t] = csock[t] /\ HoldsListener(t) /\ HoldsClient(t)
        BY <2>2, <3>1, <3>3
      <4> QED BY <1>1, <3>1, <3>3, <4>1, <4>2 DEF LocalsValid
    <3> QED BY <3>1, <3>2, <3>4 DEF ListenerBound, PeersAtHome, ClientAtHome, Linked
  <2> QED BY <2>3, <2>4
<1> QED BY <1>3, <1>4, <1>5, <1>6, <1>7, <1>8, <1>11, <1>12, <1>13, <1>14, <1>15, <1>16,
           <1>17, <1>18, <1>19 DEF ThreadStep, Step

-----------------------------------------------------------------------------
(* The theorems.                                                           *)

LEMMA InitInv == Init => IInv
<1> SUFFICES ASSUME Init PROVE IInv
  OBVIOUS
<1> USE DEF Init
<1>1. TypeOK
  BY ClosedType DEF TypeOK, Stages
<1>2. /\ \A t \in Threads : pc[t] = "idle" /\ Held(t) = {}
      /\ \A f \in Fds : host[f] = Closed
  BY DEF Held, HoldsListener, HoldsClient, HoldsServer
<1>3. Ownership
  BY <1>2 DEF Ownership, NothingLeaks, NothingShared, Open, Closed
<1>4. ClosedIsBlank /\ AddressUnique
  BY <1>2 DEF ClosedIsBlank, AddressUnique, Closed
<1>5. ASSUME NEW t \in Threads PROVE ThreadInv(t)
  BY <1>2 DEF ThreadInv, LocalsValid, ListenerBound, PeersAtHome, ClientAtHome, Linked,
              HoldsListener, HoldsClient, HoldsServer
<1> QED BY <1>1, <1>3, <1>4, <1>5 DEF IInv

(* The end of a handshake moves a connection nobody accepted yet one step  *)
(* on and changes nothing else.                                            *)
LEMMA HandshakeInv ==
  ASSUME IInv, NEW c \in Fds, Handshake(c)
  PROVE  IInv'
<1>1. /\ host[c].phase = "syn" /\ host'[c].phase = "queued"
      /\ \A f \in Fds : /\ host'[f].open = host[f].open /\ host'[f].addr = host[f].addr
                        /\ host'[f].peer = host[f].peer
      /\ \A f \in Fds : f # c => host'[f] = host[f]
  BY DEF Handshake, IInv, TypeOK, Socket
<1>2. UNCHANGED locals
  BY DEF Handshake
<1>3. \A t \in Threads : /\ Held(t)' = Held(t) /\ HoldsListener(t)' = HoldsListener(t)
                         /\ HoldsServer(t)' = HoldsServer(t) /\ HoldsClient(t)' = HoldsClient(t)
  BY <1>2 DEF locals, Held, HoldsListener, HoldsClient, HoldsServer
<1>4. TypeOK'
  BY TypeStep DEF IInv, ThreadInv, Next
<1>5. Ownership'
  <2>1. Open' = Open
    BY <1>1 DEF Open
  <2> QED BY <1>3, <2>1 DEF IInv, Ownership, NothingLeaks, NothingShared
<1>6. ClosedIsBlank' /\ AddressUnique'
  <2>1. host[c].open
    BY <1>1 DEF IInv, ClosedIsBlank, Closed
  <2> QED BY <1>1, <2>1 DEF IInv, ClosedIsBlank, AddressUnique
<1>7. ASSUME NEW t \in Threads PROVE ThreadInv(t)'
  <2>1. ThreadInv(t)
    BY DEF IInv
  <2>2. Held(t) \subseteq Fds
    BY DEF Held
  <2>3. LocalsValid(t)'
    BY <1>2, <1>3, <2>1 DEF ThreadInv, LocalsValid, locals
  <2>4. ListenerBound(t)'
    <3>1. pc[t] \in {"listen", "nb_c", "connect", "accept"} => lsock[t] \in Fds
      BY <2>1 DEF ThreadInv, LocalsValid, IInv, TypeOK
    <3>2. HoldsListener(t) => lsock[t] \in Fds
      BY DEF HoldsListener, IInv, TypeOK
    <3> QED BY <1>1, <1>2, <1>3, <2>1, <3>1, <3>2 DEF ThreadInv, ListenerBound, locals
  <2>5. PeersAtHome(t)'
    BY <1>1, <1>3, <2>1, <2>2 DEF ThreadInv, PeersAtHome
  <2>6. ClientAtHome(t)'
    BY <1>1, <1>2, <1>3, <2>1, <2>2 DEF ThreadInv, ClientAtHome, locals
  <2>7. Linked(t)'
    <3>1. HoldsServer(t) /\ pc[t] # "half" => ssock[t] \in Fds /\ csock[t] \in Fds
      BY <2>1 DEF ThreadInv, LocalsValid, IInv, TypeOK
    <3> QED BY <1>1, <1>2, <1>3, <2>1, <3>1 DEF ThreadInv, Linked, locals
  <2> QED BY <2>3, <2>4, <2>5, <2>6, <2>7 DEF ThreadInv
<1> QED BY <1>4, <1>5, <1>6, <1>7 DEF IInv

LEMMA StutterInv ==
  ASSUME IInv, UNCHANGED vars
  PROVE  IInv'
<1> USE DEF vars, locals
<1>1. TypeOK' /\ ClosedIsBlank' /\ AddressUnique'
  BY DEF IInv, TypeOK, ClosedIsBlank, AddressUnique
<1>2. \A t \in Threads : Held(t)' = Held(t)
  BY DEF Held, HoldsListener, HoldsClient, HoldsServer
<1>3. Ownership'
  BY <1>2 DEF IInv, Ownership, NothingLeaks, NothingShared, Open
<1>4. ASSUME NEW t \in Threads PROVE ThreadInv(t)'
  BY <1>2 DEF IInv, ThreadInv, LocalsValid, ListenerBound, PeersAtHome, ClientAtHome, Linked,
              HoldsListener, HoldsClient, HoldsServer
<1> QED BY <1>1, <1>3, <1>4 DEF IInv

LEMMA NextInv == IInv /\ [Next]_vars => IInv'
<1> SUFFICES ASSUME IInv, [Next]_vars PROVE IInv'
  OBVIOUS
<1>1. ASSUME NEW t \in Threads, ThreadStep(t) PROVE IInv'
  <2>1. TypeOK'
    BY TypeStep DEF IInv, ThreadInv
  <2>2. Ownership'
    BY <1>1, OwnershipStep DEF IInv, ThreadInv
  <2>3. ClosedIsBlank' /\ AddressUnique'
    BY <1>1, TableStep
  <2>4. \A u \in Threads : ThreadInv(u)'
    BY <1>1, OwnInv, OthersInv
  <2> QED BY <2>1, <2>2, <2>3, <2>4 DEF IInv
<1>2. ASSUME NEW c \in Fds, Handshake(c) PROVE IInv'
  BY <1>2, HandshakeInv
<1>3. CASE UNCHANGED vars
  BY <1>3, StutterInv
<1> QED BY <1>1, <1>2, <1>3 DEF Next, ThreadStep

(* The invariant holds throughout, and with it everything below.           *)
THEOREM Invariance == Spec => []IInv
  BY InitInv, NextInv, PTL DEF Spec

(* Every variable keeps its type: in particular no more than MaxTries      *)
(* ports are ever tried.                                                   *)
THEOREM TypeCorrect == Spec => []TypeOK
<1>1. IInv => TypeOK
  BY DEF IInv
<1> QED BY Invariance, <1>1, PTL

(* socketpair() never leaks a descriptor, never closes one twice and never *)
(* shares one between calls, whatever fails and however calls interleave.  *)
THEOREM OwnershipHolds == Spec => []Ownership
<1>1. IInv => Ownership
  BY DEF IInv
<1> QED BY Invariance, <1>1, PTL

(* The two ends of a returned stream pair are connected to each other, and *)
(* stay so until the caller closes them: the connection that accept()      *)
(* found queued is always the thread's own.                                *)
THEOREM PairConnectedHolds == Spec => []PairConnected
<1>1. IInv => PairConnected
  BY DEF IInv, ThreadInv, Linked, HoldsServer, PairConnected
<1> QED BY Invariance, <1>1, PTL

(* What a call does to the host leaves the sockets of every other call and *)
(* of every returned pair alone, whichever port, queue or descriptor       *)
(* number it works on.                                                     *)
THEOREM OthersUntouchedHolds == Spec => OthersUntouched
<1>1. IInv => [\A t \in Threads : \A u \in Threads \ {t} :
                 Step(t) \/ CloseEnd(t) => \A f \in Held(u) : host'[f] = host[f]]_vars
  <2> SUFFICES ASSUME IInv, NEW t \in Threads, NEW u \in Threads \ {t}, ThreadStep(t),
                      NEW f \in Held(u)
               PROVE  host'[f] = host[f]
    BY DEF ThreadStep
  <2> QED BY Untouched
<1> QED BY Invariance, <1>1, PTL DEF Spec, OthersUntouched

-----------------------------------------------------------------------------
(* How many calls into the host a call has left.                           *)

LEMMA Stays ==
  ASSUME NEW t, pc'[t] = pc[t], tries'[t] = tries[t]
  PROVE  StepsLeft(t)' = StepsLeft(t)
  BY DEF StepsLeft, TriesLeft

LEMMA Ahead ==
  /\ CallsAhead["open_l"] = 11 /\ CallsAhead["open_c"] = 10 /\ CallsAhead["bind"] = 9
  /\ CallsAhead["listen"] = 9 /\ CallsAhead["nb_c"] = 8 /\ CallsAhead["connect"] = 7
  /\ CallsAhead["accept"] = 6 /\ CallsAhead["close_l"] = 5 /\ CallsAhead["nb_s"] = 4
  /\ CallsAhead["restore"] = 3 /\ CallsAhead["clean_l"] = 2 /\ CallsAhead["clean_c"] = 1
  /\ CallsAhead["idle"] = 0 /\ CallsAhead["ok"] = 0 /\ CallsAhead["half"] = 0
  /\ CallsAhead["failed"] = 0
  BY DEF CallsAhead

LEMMA AheadType ==
  ASSUME NEW x \in Stages
  PROVE  CallsAhead[x] \in Nat
  BY Ahead DEF Stages

LEMMA StepsLeftType ==
  ASSUME NEW t, pc[t] \in Stages, tries[t] \in 0 .. MaxTries
  PROVE  StepsLeft(t) \in Nat
<1>1. TriesLeft(t) \in Nat
  BY DEF TriesLeft
<1> QED BY <1>1, AheadType DEF StepsLeft

(* Each call into the host that returns is one call fewer to come.         *)
LEMMA StepFalls ==
  ASSUME TypeOK, TypeOK', NEW t \in Threads, LocalsValid(t), Step(t)
  PROVE  StepsLeft(t)' < StepsLeft(t)
<1>1. pc[t] \in Stages /\ tries[t] \in 0 .. MaxTries /\ MaxTries \in Nat /\ MaxTries > 0
  BY DEF TypeOK
<1> USE DEF At
<1>3. CASE OpenListener(t)
  <2>1. pc[t] = "open_l" /\ pc'[t] = "open_c"
    BY <1>3 DEF OpenListener, TypeOK
  <2> QED BY <1>1, <2>1, Ahead DEF StepsLeft, TriesLeft
<1>4. CASE OpenClient(t)
  <2>1. pc[t] = "open_c" /\ pc'[t] \in {"bind", "clean_l"} /\ tries'[t] = 0
    BY <1>4 DEF OpenClient, TypeOK
  <2> QED BY <1>1, <2>1, Ahead DEF StepsLeft, TriesLeft
<1>5. CASE Bind(t)
  <2>1. pc[t] = "bind" /\ tries[t] < MaxTries
    BY <1>5 DEF Bind, LocalsValid
  <2>2. \/ pc'[t] = AfterBind(t)
        \/ pc'[t] \in {"bind", "clean_l"} /\ tries'[t] = tries[t] + 1
    BY <1>5 DEF Bind, BindAt, Counted, TypeOK
  <2>3. AfterBind(t) \in {"listen", "nb_c"}
    BY DEF AfterBind
  <2> QED BY <1>1, <2>1, <2>2, <2>3, Ahead DEF StepsLeft, TriesLeft
<1>6. CASE Listen(t)
  <2>1. pc[t] = "listen" /\ pc'[t] \in {"nb_c", "clean_l"}
    BY <1>6 DEF Listen, TypeOK
  <2> QED BY <2>1, Ahead DEF StepsLeft, TriesLeft
<1>7. CASE SetClientNonblocking(t)
  <2>1. pc[t] = "nb_c" /\ pc'[t] = "connect"
    BY <1>7 DEF SetClientNonblocking, TypeOK
  <2> QED BY <2>1, Ahead DEF StepsLeft, TriesLeft
<1>8. CASE Connect(t)
  <2>1. pc[t] = "connect" /\ pc'[t] \in {"accept", "restore", "clean_l"}
    BY <1>8 DEF Connect, Connected, NotStarted, Refused, AfterConnect, TypeOK
  <2> QED BY <2>1, Ahead DEF StepsLeft, TriesLeft
<1>9. CASE Accept(t)
  <2>1. pc[t] = "accept" /\ pc'[t] \in {"close_l", "clean_l"}
    BY <1>9 DEF Accept, AcceptsSome, Accepts, TypeOK
  <2> QED BY <2>1, Ahead DEF StepsLeft, TriesLeft
<1>10. CASE CloseListener(t)
  <2>1. pc[t] = "close_l" /\ pc'[t] = "nb_s"
    BY <1>10 DEF CloseListener, TypeOK
  <2> QED BY <2>1, Ahead DEF StepsLeft, TriesLeft
<1>11. CASE SetServerBlocking(t)
  <2>1. pc[t] = "nb_s" /\ pc'[t] = "restore"
    BY <1>11 DEF SetServerBlocking, TypeOK
  <2> QED BY <2>1, Ahead DEF StepsLeft, TriesLeft
<1>12. CASE Restore(t)
  <2>1. pc[t] = "restore" /\ pc'[t] = "ok"
    BY <1>12 DEF Restore, TypeOK
  <2> QED BY <2>1, Ahead DEF StepsLeft, TriesLeft
<1>13. CASE CleanListener(t)
  <2>1. pc[t] = "clean_l" /\ pc'[t] = "clean_c"
    BY <1>13 DEF CleanListener, TypeOK
  <2> QED BY <2>1, Ahead DEF StepsLeft, TriesLeft
<1>14. CASE CleanClient(t)
  <2>1. pc[t] = "clean_c" /\ pc'[t] = "failed"
    BY <1>14 DEF CleanClient, TypeOK
  <2> QED BY <2>1, Ahead DEF StepsLeft, TriesLeft
<1> QED BY <1>3, <1>4, <1>5, <1>6, <1>7, <1>8, <1>9, <1>10, <1>11, <1>12, <1>13, <1>14 DEF Step

(* No call goes round for ever: a host call of its own that returns leaves *)
(* it with fewer to make, and no step of another thread or of the host     *)
(* leaves it with more.                                                    *)
THEOREM CallsMoveOnHolds == Spec => CallsMoveOn
<1>1. IInv /\ [Next]_vars =>
        [\A t \in Threads :
           /\ Step(t) => StepsLeft(t)' < StepsLeft(t)
           /\ StepsLeft(t)' > StepsLeft(t) => Call(t)]_vars
  <2> SUFFICES ASSUME IInv, Next, NEW t \in Threads
               PROVE  /\ Step(t) => StepsLeft(t)' < StepsLeft(t)
                      /\ StepsLeft(t)' > StepsLeft(t) => Call(t)
    OBVIOUS
  <2>1. TypeOK /\ LocalsValid(t) /\ TypeOK'
    BY TypeStep DEF IInv, ThreadInv
  <2>2. StepsLeft(t) \in Nat /\ StepsLeft(t)' \in Nat
    <3>1. pc'[t] \in Stages /\ tries'[t] \in 0 .. MaxTries
      BY <2>1 DEF TypeOK
    <3>2. TriesLeft(t)' \in Nat
      BY <3>1 DEF TriesLeft
    <3>3. CallsAhead[pc'[t]] \in Nat
      BY <3>1, AheadType
    <3> QED BY <2>1, <3>2, <3>3, StepsLeftType DEF StepsLeft, TypeOK
  <2>3. Step(t) => StepsLeft(t)' < StepsLeft(t)
    BY <2>1, StepFalls
  <2>4. ASSUME NEW u \in Threads, ThreadStep(u), u # t
        PROVE  StepsLeft(t)' = StepsLeft(t)
    BY <2>1, <2>4, OthersLocals, Stays
  <2>5. ASSUME NEW c \in Fds, Handshake(c)
        PROVE  StepsLeft(t)' = StepsLeft(t)
    BY <2>5, Stays DEF Handshake, locals
  <2>6. ASSUME CloseEnd(t) \/ Release(t)
        PROVE  StepsLeft(t)' = StepsLeft(t)
    <3>1. pc[t] \in {"ok", "half", "failed"} /\ pc'[t] \in {"idle", "half"}
      BY <2>1, <2>6 DEF CloseEnd, Release, At, Ends, TypeOK
    <3> QED BY <3>1, Ahead DEF StepsLeft, TriesLeft
  <2>7. Call(t) \/ Step(t) \/ StepsLeft(t)' = StepsLeft(t)
    <3>1. CASE \E c \in Fds : Handshake(c)
      BY <2>5, <3>1
    <3>2. ASSUME NEW u \in Threads, ThreadStep(u)
          PROVE  Call(t) \/ Step(t) \/ StepsLeft(t)' = StepsLeft(t)
      <4>1. CASE u = t
        BY <2>6, <3>2, <4>1 DEF ThreadStep
      <4>2. CASE u # t
        BY <2>4, <3>2, <4>2
      <4> QED BY <4>1, <4>2
    <3> QED BY <3>1, <3>2 DEF Next, ThreadStep
  <2>8. \A m, n \in Nat : m < n \/ m = n => ~(m > n)
    OBVIOUS
  <2> QED BY <2>2, <2>3, <2>7, <2>8
<1> QED BY Invariance, <1>1, PTL DEF Spec, CallsMoveOn

-----------------------------------------------------------------------------
(* Modes.                                                                  *)

LEMMA HostCloseMode ==
  ASSUME TypeOK, NEW fds, HostClose(fds), NEW f \in Fds \ fds
  PROVE  host'[f].nonblock = host[f].nonblock
  BY DEF HostClose, TypeOK, Socket

LEMMA SetBlockingMode ==
  ASSUME TypeOK, "fcntl" \notin Faults, NEW fd \in Fds, NEW b \in BOOLEAN,
         SetBlocking(fd, b)
  PROVE  /\ host'[fd].nonblock = ~b
         /\ \A f \in Fds : f # fd => host'[f] = host[f]
  BY DEF SetBlocking, TypeOK, Socket

(* A thread's own step moves its ends towards the mode asked for.          *)
LEMMA ModeOwn ==
  ASSUME IInv, "fcntl" \notin Faults, NEW t \in Threads, ModeInv(t), ThreadStep(t)
  PROVE  ModeInv(t)'
<1> USE DEF ModeInv, HoldsListener, HoldsServer
<1>1. /\ TypeOK /\ LocalsValid(t) /\ Held(t) \subseteq Open
      /\ req[t].nonblock \in BOOLEAN /\ req[t].stream \in BOOLEAN
  BY HeldAreOpen, RequestFields DEF IInv, ThreadInv, TypeOK
<1>2. ASSUME pc'[t] \in {"idle", "open_l", "failed", "clean_c"} PROVE ModeInv(t)'
  BY <1>2
<1> USE DEF TypeOK, At
<1>3. CASE Call(t) \/ Release(t) \/ CleanListener(t) \/ CleanClient(t)
  BY <1>1, <1>2, <1>3 DEF Call, Release, CleanListener, CleanClient
<1>4. CASE OpenListener(t)
  <2>1. pc'[t] = "open_c" /\ req' = req
    BY <1>1, <1>4 DEF OpenListener
  <2>2. CASE lsock' = [lsock EXCEPT ![t] = NoFd]
    BY <1>1, <2>1, <2>2
  <2>3. ASSUME NEW f \in FreeFds, lsock' = [lsock EXCEPT ![t] = f],
               host' = [host EXCEPT ![f] = NewSocket(req[t].nonblock)]
        PROVE  ModeInv(t)'
    <3>1. lsock'[t] = f /\ host'[f] = NewSocket(req[t].nonblock)
      BY <1>1, <2>3 DEF FreeFds
    <3>2. NewSocket(req[t].nonblock).nonblock = req[t].nonblock
      BY DEF NewSocket, Closed
    <3> QED BY <2>1, <3>1, <3>2
  <2> QED BY <1>4, <2>2, <2>3 DEF OpenListener
<1>5. CASE OpenClient(t)
  <2>1. CASE csock'[t] # NoFd
    <3>1. PICK f \in FreeFds : csock' = [csock EXCEPT ![t] = f]
                            /\ host' = [host EXCEPT ![f] = NewSocket(req[t].nonblock)]
      BY <1>1, <1>5, <2>1 DEF OpenClient
    <3>2. f \in Fds /\ csock'[t] = f /\ host'[f].nonblock = req[t].nonblock
          /\ \A g \in Fds : g # f => host'[g] = host[g]
      BY <1>1, <3>1 DEF FreeFds, NewSocket, Closed
    <3>3. lsock[t] # NoFd => lsock[t] # f
      BY <1>1, <1>5, <3>1, OwnDescriptors DEF OpenClient, FreeFds, Open
    <3> QED BY <1>1, <1>5, <3>2, <3>3 DEF OpenClient
  <2>2. CASE csock'[t] = NoFd
    <3>1. host' = host /\ pc'[t] = "clean_l"
      BY <1>1, <1>5, <2>2 DEF OpenClient, FreeFds
    <3> QED BY <1>1, <1>5, <3>1 DEF OpenClient
  <2> QED BY <2>1, <2>2
<1>6. CASE Bind(t)
  <2>1. \A f \in Fds : host'[f].nonblock = host[f].nonblock
    BY <1>1, <1>6 DEF Bind, BindAt, Socket
  <2> QED BY <1>1, <1>6, <2>1 DEF Bind, BindAt, AfterBind, LocalsValid
<1>7. CASE Listen(t)
  <2>1. \A f \in Fds : host'[f].nonblock = host[f].nonblock
    BY <1>1, <1>7 DEF Listen, Socket
  <2> QED BY <1>1, <1>7, <2>1 DEF Listen, LocalsValid
<1>8. CASE SetClientNonblocking(t)
  <2>1. csock[t] \in Fds /\ SetBlocking(csock[t], FALSE) /\ lsock[t] # csock[t]
        /\ lsock[t] \in Fds
    BY <1>1, <1>8 DEF SetClientNonblocking, LocalsValid, HoldsClient
  <2>2. host'[csock[t]].nonblock /\ host'[lsock[t]] = host[lsock[t]]
    BY <1>1, <2>1, SetBlockingMode
  <2> QED BY <1>1, <1>8, <2>2 DEF SetClientNonblocking
<1>9. CASE Connect(t)
  <2>1. ASSUME NEW f \in Fds PROVE host'[f].nonblock = host[f].nonblock
    <3>1. CASE Connected(t, {"est", "queued", "syn"})
      <4>1. PICK l, ph : host' = [host EXCEPT ![csock[t]].peer = l, ![csock[t]].phase = ph]
        BY <3>1 DEF Connected
      <4>2. host[f] \in Socket
        BY <1>1
      <4> QED BY <1>1, <4>1, <4>2 DEF Socket
    <3>2. CASE UNCHANGED host
      BY <3>2
    <3> QED BY <1>9, <3>1, <3>2 DEF Connect, NotStarted, Refused
  <2>2. pc'[t] \in {"accept", "restore", "clean_l"} /\ (pc'[t] = "restore" => ~req[t].stream)
    BY <1>1, <1>9 DEF Connect, Connected, NotStarted, Refused, AfterConnect
  <2> QED BY <1>1, <1>9, <2>1, <2>2 DEF Connect, LocalsValid
<1>10. CASE Accept(t)
  <2>1. CASE AcceptsSome(t)
    <3>1. PICK s \in FreeFds, c \in Queued(lsock[t]), nb \in {FALSE, host[lsock[t]].nonblock} :
            Accepts(t, s, c, nb)
      BY <2>1 DEF AcceptsSome
    <3>2. s \notin Open /\ s \in Fds
      BY DEF FreeFds, Open
    <3>3. \A f \in Fds : f # s => host'[f].nonblock = host[f].nonblock
      BY <1>1, <3>1 DEF Accepts, Socket
    <3>4. pc'[t] = "close_l" /\ lsock[t] \in Fds \ {s} /\ csock[t] \in Fds \ {s}
      BY <1>1, <1>10, <3>1, <3>2, OwnDescriptors DEF Accept, Accepts, Held
    <3> QED BY <1>1, <1>10, <3>3, <3>4 DEF Accept
  <2>2. CASE AcceptFails(t) /\ pc' = [pc EXCEPT ![t] = "clean_l"] /\ UNCHANGED <<ssock, host>>
    BY <1>1, <1>10, <2>2 DEF Accept
  <2> QED BY <1>10, <2>1, <2>2 DEF Accept
<1>11. CASE CloseListener(t)
  <2>1. csock[t] \in Fds \ {lsock[t]}
    BY <1>1, <1>11 DEF CloseListener, LocalsValid, HoldsClient
  <2>2. host'[csock[t]].nonblock = host[csock[t]].nonblock
    BY <1>1, <1>11, <2>1, HostCloseMode DEF CloseListener
  <2> QED BY <1>1, <1>11, <2>2 DEF CloseListener
<1>12. CASE SetServerBlocking(t)
  <2>1. /\ ssock[t] \in Fds /\ csock[t] \in Fds /\ ssock[t] # csock[t] /\ req[t].stream
        /\ SetBlocking(ssock[t], ~req[t].nonblock)
    BY <1>1, <1>12 DEF SetServerBlocking, LocalsValid, HoldsServer
  <2>2. host'[ssock[t]].nonblock = req[t].nonblock /\ host'[csock[t]] = host[csock[t]]
    BY <1>1, <2>1, SetBlockingMode
  <2> QED BY <1>1, <1>12, <2>1, <2>2 DEF SetServerBlocking
<1>13. CASE Restore(t)
  <2>1. /\ csock[t] \in Fds
        /\ req[t].stream => ssock[t] \in Fds /\ ssock[t] # csock[t]
        /\ ~req[t].stream => lsock[t] \in Fds /\ lsock[t] # csock[t]
    BY <1>1, <1>13 DEF Restore, LocalsValid, HoldsServer, HoldsClient
  <2>2. /\ host'[csock[t]].nonblock = req[t].nonblock
        /\ \A f \in Fds : f # csock[t] => host'[f] = host[f]
    BY <1>1, <1>13, <2>1, SetBlockingMode DEF Restore
  <2> QED BY <1>1, <1>13, <2>1, <2>2 DEF Restore
<1>14. CASE CloseEnd(t)
  <2>1. PICK f \in Ends(t) :
          /\ HostClose({f})
          /\ pc' = [pc EXCEPT ![t] = IF Ends(t) \ {f} = {} THEN "idle" ELSE "half"]
          /\ lsock' = Only(lsock, t, Ends(t) \ {f})
          /\ csock' = Only(csock, t, Ends(t) \ {f})
          /\ ssock' = Only(ssock, t, Ends(t) \ {f})
          /\ req' = req
    BY <1>14 DEF CloseEnd
  <2>2. Ends(t) = Held(t) /\ Ends(t) \subseteq Fds /\ pc[t] \in {"ok", "half"}
    BY <1>1, <2>1, EndsHeld DEF Ends, Held
  <2>3. \A g \in Ends(t) \ {f} : host'[g].nonblock = host[g].nonblock
    BY <1>1, <2>1, <2>2, HostCloseMode
  <2>4. /\ lsock'[t] # NoFd => lsock'[t] = lsock[t] /\ lsock[t] \in Ends(t) \ {f}
        /\ csock'[t] # NoFd => csock'[t] = csock[t] /\ csock[t] \in Ends(t) \ {f}
        /\ ssock'[t] # NoFd => ssock'[t] = ssock[t] /\ ssock[t] \in Ends(t) \ {f}
        /\ req'[t] = req[t]
    BY <1>1, <2>1 DEF Only
  <2>5. pc'[t] \in {"idle", "half"}
    BY <1>1, <2>1
  <2> QED BY <2>2, <2>3, <2>4, <2>5
<1> QED BY <1>3, <1>4, <1>5, <1>6, <1>7, <1>8, <1>9, <1>10, <1>11, <1>12, <1>13, <1>14
        DEF ThreadStep, Step

LEMMA ModeOthers ==
  ASSUME IInv, NEW t \in Threads, ThreadStep(t), NEW u \in Threads, u # t, ModeInv(u)
  PROVE  ModeInv(u)'
<1>1. /\ pc'[u] = pc[u] /\ req'[u] = req[u]
      /\ lsock'[u] = lsock[u] /\ csock'[u] = csock[u] /\ ssock'[u] = ssock[u]
  BY OthersLocals DEF IInv
<1>2. \A f \in Held(u) : host'[f] = host[f]
  BY Untouched
<1>3. HoldsListener(u) => lsock[u] \in Held(u)
  BY DEF Held, HoldsListener, IInv, TypeOK
<1>4. pc[u] \in {"bind", "listen", "nb_c", "connect", "accept", "close_l", "nb_s",
                 "restore", "ok", "half"} /\ csock[u] # NoFd => csock[u] \in Held(u)
  BY DEF Held, HoldsClient, IInv, TypeOK
<1>5. HoldsServer(u) => ssock[u] \in Held(u)
  BY OwnDescriptors DEF IInv, ThreadInv
<1>6. pc[u] \in {"connect", "accept", "close_l", "nb_s", "restore"} => csock[u] # NoFd
  BY DEF IInv, ThreadInv, LocalsValid, HoldsServer
<1>7. HoldsListener(u)' = HoldsListener(u) /\ HoldsServer(u)' = HoldsServer(u)
  BY <1>1 DEF HoldsListener, HoldsServer
<1> QED BY <1>1, <1>2, <1>3, <1>4, <1>5, <1>6, <1>7 DEF ModeInv

Modes == "fcntl" \notin Faults => \A t \in Threads : ModeInv(t)

LEMMA ModesStep == IInv /\ Modes /\ [Next]_vars => Modes'
<1> SUFFICES ASSUME IInv, "fcntl" \notin Faults, \A t \in Threads : ModeInv(t), [Next]_vars,
                    NEW u \in Threads
             PROVE  ModeInv(u)'
  BY DEF Modes
<1>1. ASSUME NEW t \in Threads, ThreadStep(t) PROVE ModeInv(u)'
  BY <1>1, ModeOwn, ModeOthers
<1>2. ASSUME NEW c \in Fds, Handshake(c) PROVE ModeInv(u)'
  <2>1. \A f \in Fds : host'[f].nonblock = host[f].nonblock
    BY <1>2 DEF Handshake, IInv, TypeOK, Socket
  <2>2. /\ HoldsListener(u) => lsock[u] \in Fds
        /\ pc[u] \in {"connect", "accept", "close_l", "nb_s", "restore"} => csock[u] # NoFd
        /\ csock[u] # NoFd => csock[u] \in Fds
        /\ HoldsServer(u) => ssock[u] \in Fds
    BY DEF HoldsListener, HoldsServer, IInv, TypeOK, ThreadInv, LocalsValid
  <2>3. /\ UNCHANGED <<pc, req, lsock, csock, ssock>>
        /\ HoldsListener(u)' = HoldsListener(u) /\ HoldsServer(u)' = HoldsServer(u)
    BY <1>2 DEF Handshake, locals, HoldsListener, HoldsServer
  <2> QED BY <2>1, <2>2, <2>3 DEF ModeInv
<1>3. CASE UNCHANGED vars
  BY <1>3 DEF vars, locals, ModeInv, HoldsListener, HoldsServer
<1> QED BY <1>1, <1>2, <1>3 DEF Next, ThreadStep

(* Every end of a returned pair blocks exactly when the caller asked for    *)
(* it, if fcntl() works, whatever the accepted socket inherits.            *)
THEOREM ModeAsRequestedHolds == Spec => []ModeAsRequested
<1>1. Init => Modes
  BY DEF Init, Modes, ModeInv, HoldsListener, HoldsServer
<1>2. IInv /\ Modes => ModeAsRequested
  <2> SUFFICES ASSUME IInv, "fcntl" \notin Faults, NEW t \in Threads, ModeInv(t),
                      pc[t] \in {"ok", "half"}, NEW f \in Held(t)
               PROVE  host[f].nonblock = req[t].nonblock
    BY DEF Modes, ModeAsRequested
  <2> QED BY DEF Held, ModeInv, HoldsListener, HoldsServer, HoldsClient
<1> QED BY Invariance, <1>1, <1>2, ModesStep, PTL DEF Spec

-----------------------------------------------------------------------------
(* Why a request is given up.                                              *)

LEMMA WaitOwn ==
  ASSUME IInv, NEW t \in Threads, WaitInv(t), ThreadStep(t)
  PROVE  WaitInv(t)'
<1> USE DEF WaitInv
<1>1. /\ TypeOK /\ LocalsValid(t) /\ req[t].stream \in BOOLEAN
  BY RequestFields DEF IInv, ThreadInv, TypeOK
<1>2. ASSUME pc'[t] \in Stages \ {"bind", "listen", "nb_c", "connect", "accept"}
      PROVE  WaitInv(t)'
  BY <1>2
<1> USE DEF TypeOK, At
<1>3. CASE \/ Call(t) \/ Release(t) \/ OpenListener(t) \/ CloseListener(t)
           \/ SetServerBlocking(t) \/ Restore(t) \/ CleanListener(t) \/ CleanClient(t)
  BY <1>1, <1>2, <1>3 DEF Call, Release, OpenListener, CloseListener, SetServerBlocking,
                          Restore, CleanListener, CleanClient
<1>4. CASE OpenClient(t)
  <2>1. CASE csock'[t] # NoFd
    <3>1. PICK f \in FreeFds : csock' = [csock EXCEPT ![t] = f]
                            /\ host' = [host EXCEPT ![f] = NewSocket(req[t].nonblock)]
      BY <1>1, <1>4, <2>1 DEF OpenClient
    <3>2. csock'[t] = f /\ host'[f].phase = "none"
      BY <1>1, <3>1 DEF FreeFds, NewSocket, Closed
    <3> QED BY <1>1, <1>4, <3>2 DEF OpenClient
  <2>2. CASE csock'[t] = NoFd
    BY <1>1, <1>4, <2>2 DEF OpenClient
  <2> QED BY <2>1, <2>2
<1>5. CASE Bind(t)
  <2>1. \A f \in Fds : host'[f].phase = host[f].phase
    BY <1>1, <1>5 DEF Bind, BindAt, Socket
  <2>2. csock[t] \in Fds /\ csock' = csock /\ req' = req
    BY <1>1, <1>5 DEF Bind, BindAt, LocalsValid
  <2>3. pc'[t] \in {"bind", "clean_l"} \/ pc'[t] = AfterBind(t)
    BY <1>1, <1>5 DEF Bind, BindAt
  <2> QED BY <1>1, <1>5, <2>1, <2>2, <2>3 DEF Bind, AfterBind
<1>6. CASE Listen(t)
  <2>1. lsock[t] \in Fds /\ csock[t] \in Fds /\ UNCHANGED <<req, lsock, csock>>
    BY <1>1, <1>6 DEF Listen, LocalsValid
  <2>2. \A f \in Fds : host'[f].phase = host[f].phase
    BY <1>1, <1>6 DEF Listen, Socket
  <2>3. pc'[t] = "nb_c" => host'[lsock[t]].listening
    BY <1>1, <1>6, <2>1 DEF Listen, Socket
  <2>4. pc'[t] \in {"nb_c", "clean_l"} /\ pc[t] = "listen"
    BY <1>1, <1>6 DEF Listen
  <2> QED BY <2>1, <2>2, <2>3, <2>4
<1>7. CASE SetClientNonblocking(t)
  <2>1. lsock[t] \in Fds /\ csock[t] \in Fds /\ UNCHANGED <<req, lsock, csock>>
    BY <1>1, <1>7 DEF SetClientNonblocking, LocalsValid
  <2>2. \A f \in Fds : host'[f].phase = host[f].phase /\ host'[f].listening = host[f].listening
    BY <1>1, <1>7 DEF SetClientNonblocking, SetBlocking, Socket
  <2>3. pc[t] = "nb_c" /\ pc'[t] = "connect"
    BY <1>1, <1>7 DEF SetClientNonblocking
  <2> QED BY <2>1, <2>2, <2>3
<1>8. CASE Connect(t)
  <2>1. csock[t] \in Fds /\ csock' = csock /\ pc[t] = "connect"
    BY <1>1, <1>8 DEF Connect, LocalsValid
  <2>2. CASE Connected(t, {"est", "queued", "syn"})
    <3>1. PICK l \in Reachable(laddr[t]), ph \in {"est", "queued", "syn"} :
            /\ (ph = "est") <=> ~req[t].stream
            /\ host' = [host EXCEPT ![csock[t]].peer = l, ![csock[t]].phase = ph]
      BY <2>2 DEF Connected
    <3>2. host'[csock[t]].phase = ph
      BY <1>1, <2>1, <3>1 DEF Socket
    <3>3. pc'[t] = IF req[t].stream THEN "accept" ELSE "restore"
      BY <1>1, <2>2 DEF Connected, AfterConnect
    <3> QED BY <2>1, <3>1, <3>2, <3>3
  <2>3. CASE NotStarted(t)
    <3>1. UNCHANGED host /\ "again" \in Faults /\ pc'[t] \in {"accept", "restore"}
      BY <1>1, <2>3 DEF NotStarted, AfterConnect
    <3> QED BY <2>1, <3>1
  <2>4. CASE UNCHANGED host /\ pc'[t] = "clean_l"
    BY <2>1, <2>4
  <2> QED BY <1>1, <1>8, <2>2, <2>3, <2>4 DEF Connect, Refused
<1>9. CASE Accept(t)
  BY <1>1, <1>2, <1>9 DEF Accept, AcceptsSome, Accepts, Stages
<1>10. CASE CloseEnd(t)
  BY <1>1, <1>2, <1>10 DEF CloseEnd, Stages
<1> QED BY <1>3, <1>4, <1>5, <1>6, <1>7, <1>8, <1>9, <1>10 DEF ThreadStep, Step

LEMMA WaitOthers ==
  ASSUME IInv, NEW t \in Threads, ThreadStep(t), NEW u \in Threads, u # t, WaitInv(u)
  PROVE  WaitInv(u)'
<1>1. /\ pc'[u] = pc[u] /\ req'[u] = req[u] /\ lsock'[u] = lsock[u] /\ csock'[u] = csock[u]
  BY OthersLocals DEF IInv
<1>2. \A f \in Held(u) : host'[f] = host[f]
  BY Untouched
<1>3. pc[u] \in {"bind", "listen", "nb_c", "connect", "accept"} =>
        lsock[u] \in Held(u) /\ csock[u] \in Held(u)
  BY OwnDescriptors DEF IInv, ThreadInv
<1> QED BY <1>1, <1>2, <1>3 DEF WaitInv

Waits == \A t \in Threads : WaitInv(t)

LEMMA WaitStep == IInv /\ Waits /\ [Next]_vars => Waits'
<1> SUFFICES ASSUME IInv, \A t \in Threads : WaitInv(t), [Next]_vars, NEW u \in Threads
             PROVE  WaitInv(u)'
  BY DEF Waits
<1>1. ASSUME NEW t \in Threads, ThreadStep(t) PROVE WaitInv(u)'
  BY <1>1, WaitOwn, WaitOthers
<1>2. ASSUME NEW c \in Fds, Handshake(c) PROVE WaitInv(u)'
  <2>1. \A f \in Fds : /\ host'[f].listening = host[f].listening
                       /\ f # c => host'[f].phase = host[f].phase
    BY <1>2 DEF Handshake, IInv, TypeOK, Socket
  <2>2. host[c].phase = "syn" /\ host'[c].phase = "queued"
    BY <1>2 DEF Handshake, IInv, TypeOK, Socket
  <2>3. pc[u] \in {"bind", "listen", "nb_c", "connect", "accept"} =>
          lsock[u] \in Fds /\ csock[u] \in Fds
    BY DEF IInv, TypeOK, ThreadInv, LocalsValid
  <2>4. UNCHANGED <<pc, req, lsock, csock>>
    BY <1>2 DEF Handshake, locals
  <2> QED BY <2>1, <2>2, <2>3, <2>4 DEF WaitInv
<1>3. CASE UNCHANGED vars
  BY <1>3 DEF vars, locals, WaitInv
<1> QED BY <1>1, <1>2, <1>3 DEF Next, ThreadStep

(* Where no call into the host fails for a reason of its own, a step gives *)
(* a request up for want of a descriptor, after the last attempt to bind,  *)
(* or because a listener that does not wait found its client on the way.   *)
LEMMA GivesUp ==
  ASSUME IInv, NEW t \in Threads, WaitInv(t), ModeInv(t), ThreadStep(t),
         pc[t] # "clean_l", pc'[t] = "clean_l", Faults \subseteq {"again"}
  PROVE  FreeFds = {} \/ lsock[t] = NoFd \/ tries'[t] = MaxTries \/ TooEarly(t)
<1>1. /\ TypeOK /\ LocalsValid(t) /\ req[t].stream \in BOOLEAN /\ req[t].nonblock \in BOOLEAN
  BY RequestFields DEF IInv, ThreadInv, TypeOK
<1> USE DEF TypeOK, At
<1>2. OpenClient(t) \/ Bind(t) \/ Listen(t) \/ Connect(t) \/ Accept(t)
  BY <1>1 DEF ThreadStep, Step, Call, CloseEnd, Release, OpenListener, SetClientNonblocking,
              CloseListener, SetServerBlocking, Restore, CleanListener, CleanClient
<1>3. CASE OpenClient(t)
  <2>1. lsock[t] = NoFd \/ csock'[t] = NoFd
    BY <1>1, <1>3 DEF OpenClient
  <2>2. csock'[t] = NoFd => FreeFds = {}
    BY <1>1, <1>3, SocketPairAssumption DEF OpenClient, SocketFails, FreeFds
  <2> QED BY <2>1, <2>2
<1>4. CASE Bind(t)
  <2>1. tries'[t] = tries[t] + 1 /\ tries[t] + 1 >= MaxTries
    BY <1>1, <1>4 DEF Bind, BindAt, AfterBind, Counted
  <2>2. tries[t] < MaxTries /\ tries[t] \in Nat /\ MaxTries \in Nat
    BY <1>1, <1>4, SocketPairAssumption DEF Bind, LocalsValid
  <2> QED BY <2>1, <2>2
<1>5. CASE Listen(t)
  BY <1>1, <1>5 DEF Listen
<1>6. CASE Connect(t)
  <2>1. NobodyThere(t)
    BY <1>1, <1>6 DEF Connect, Connected, NotStarted, Refused, AfterConnect
  <2>2. lsock[t] \in Held(t) /\ pc[t] = "connect"
    BY <1>1, <1>6, OwnDescriptors DEF Connect
  <2>3. lsock[t] \in Open
    BY <2>2, HeldAreOpen DEF IInv
  <2>4. lsock[t] \in Reachable(laddr[t])
    BY <2>2, <2>3 DEF IInv, ThreadInv, LocalsValid, ListenerBound, HoldsListener, Reachable, Open
  <2> QED BY <2>1, <2>2, <2>4 DEF NobodyThere, WaitInv
<1>7. CASE Accept(t)
  <2>1. pc[t] = "accept" /\ AcceptFails(t)
    BY <1>1, <1>7 DEF Accept, AcceptsSome, Accepts
  <2>2. CASE host[lsock[t]].nonblock /\ Queued(lsock[t]) = {}
    <3>1. req[t].nonblock
      BY <1>1, <2>1, <2>2 DEF ModeInv, HoldsListener, LocalsValid
    <3>2. csock[t] \in Held(t) /\ csock[t] \in Fds
      BY <1>1, <2>1, OwnDescriptors DEF Held
    <3>3. host[csock[t]].phase # "queued"
      BY <2>2, <3>2 DEF IInv, ThreadInv, ClientAtHome, Queued
    <3> QED BY <2>1, <3>1, <3>3 DEF TooEarly, WaitInv
  <2> QED BY <2>1, <2>2 DEF AcceptFails
<1> QED BY <1>2, <1>3, <1>4, <1>5, <1>6, <1>7

(* A thread in accept() is waiting for the connection it began itself, and *)
(* the host is still working on it.                                        *)
THEOREM AwaitsOwnHolds == Spec => []AwaitsOwn
<1>1. Init => Waits
  BY DEF Init, Waits, WaitInv
<1>2. IInv /\ Waits => AwaitsOwn
  <2> SUFFICES ASSUME IInv, Waits, NEW t \in Threads, pc[t] = "accept"
               PROVE  /\ Queued(lsock[t]) \subseteq {csock[t]}
                      /\ \/ host[csock[t]].phase \in {"syn", "queued"} /\ host[csock[t]].peer = lsock[t]
                         \/ host[csock[t]].phase = "none" /\ "again" \in Faults
    BY DEF AwaitsOwn
  <2>1. Queued(lsock[t]) \subseteq {csock[t]}
    BY QueuedIsOwn
  <2>2. csock[t] \in Held(t)
    BY OwnDescriptors DEF IInv, ThreadInv
  <2> QED BY <2>1, <2>2 DEF Waits, WaitInv, IInv, ThreadInv, ClientAtHome
<1> QED BY Invariance, WaitStep, <1>1, <1>2, PTL DEF Spec

(* A request is never given up because of what another thread does in the  *)
(* meantime: only because descriptors or attempts to bind ran out, or, for *)
(* SOCK_NONBLOCK, because accept() came before the thread's own handshake  *)
(* had ended.                                                              *)
THEOREM FailsOnlyForResourcesHolds == Spec => FailsOnlyForResources
<1>1. Init => Modes /\ Waits
  BY DEF Init, Modes, ModeInv, HoldsListener, HoldsServer, Waits, WaitInv
<1>2. IInv /\ Modes /\ Waits /\ [Next]_vars =>
        [\A t \in Threads :
           pc[t] # "clean_l" /\ pc'[t] = "clean_l" /\ Faults \subseteq {"again"}
           => FreeFds = {} \/ lsock[t] = NoFd \/ tries'[t] = MaxTries \/ TooEarly(t)]_vars
  <2> SUFFICES ASSUME IInv, Modes, Waits, Next, NEW t \in Threads,
                      pc[t] # "clean_l", pc'[t] = "clean_l", Faults \subseteq {"again"}
               PROVE  FreeFds = {} \/ lsock[t] = NoFd \/ tries'[t] = MaxTries \/ TooEarly(t)
    OBVIOUS
  <2>1. WaitInv(t) /\ ModeInv(t)
    BY DEF Waits, Modes
  <2>2. PICK u \in Threads : ThreadStep(u)
    BY DEF Next, ThreadStep, Handshake, locals
  <2>3. u = t
    BY <2>2, OthersLocals DEF IInv
  <2> QED BY <2>1, <2>2, <2>3, GivesUp
<1> QED BY Invariance, <1>1, <1>2, ModesStep, WaitStep, PTL DEF Spec, FailsOnlyForResources

-----------------------------------------------------------------------------
(* The refinement of PairService.                                          *)

(* A listener has no peer, and the client of a datagram pair has the       *)
(* listener as its peer; what is left of a pair has none.                  *)
PlainInv(t) ==
  /\ HoldsListener(t) => host[lsock[t]].peer = NoFd
  /\ pc[t] \in {"restore", "ok"} /\ ~req[t].stream => host[csock[t]].peer = lsock[t]
  /\ pc[t] = "half" => \A f \in Ends(t) : host[f].peer = NoFd

(* An EAGAIN of connect() that meant that nothing was started leaves a     *)
(* datagram client unconnected: it matters only where datagrams are asked  *)
(* for.                                                                    *)
DatagramsConnect == "again" \in Faults => \A r \in Requests : r.stream

LEMMA PlainOwn ==
  ASSUME IInv, DatagramsConnect, NEW t \in Threads, PlainInv(t), ThreadStep(t)
  PROVE  PlainInv(t)'
<1> USE DEF PlainInv, HoldsListener
<1>1. /\ TypeOK /\ LocalsValid(t) /\ Held(t) \subseteq Open /\ req[t].stream \in BOOLEAN
  BY HeldAreOpen, RequestFields DEF IInv, ThreadInv, TypeOK
<1>2. ASSUME pc'[t] \in {"idle", "open_l", "failed", "clean_c"} PROVE PlainInv(t)'
  BY <1>2
<1> USE DEF TypeOK, At
<1>3. CASE Call(t) \/ Release(t) \/ CleanListener(t) \/ CleanClient(t)
  BY <1>1, <1>2, <1>3 DEF Call, Release, CleanListener, CleanClient
<1>4. CASE OpenListener(t)
  <2>1. pc'[t] = "open_c" /\ req' = req
    BY <1>1, <1>4 DEF OpenListener
  <2>2. CASE lsock' = [lsock EXCEPT ![t] = NoFd]
    BY <1>1, <2>1, <2>2
  <2>3. ASSUME NEW f \in FreeFds, lsock' = [lsock EXCEPT ![t] = f],
               host' = [host EXCEPT ![f] = NewSocket(req[t].nonblock)]
        PROVE  PlainInv(t)'
    <3>1. lsock'[t] = f /\ host'[f] = NewSocket(req[t].nonblock)
      BY <1>1, <2>3 DEF FreeFds
    <3>2. NewSocket(req[t].nonblock).peer = NoFd
      BY DEF NewSocket, Closed
    <3> QED BY <2>1, <3>1, <3>2
  <2> QED BY <1>4, <2>2, <2>3 DEF OpenListener
<1>5. CASE OpenClient(t)
  <2>1. \A g \in Held(t) : host'[g] = host[g]
    BY <1>1, <1>5 DEF OpenClient, FreeFds, Open
  <2>2. lsock[t] # NoFd => lsock[t] \in Held(t)
    BY <1>1, <1>5, OwnDescriptors DEF OpenClient
  <2> QED BY <1>1, <1>5, <2>1, <2>2 DEF OpenClient
<1>6. CASE Bind(t)
  <2>1. \A f \in Fds : host'[f].peer = host[f].peer
    BY <1>1, <1>6 DEF Bind, BindAt, Socket
  <2> QED BY <1>1, <1>6, <2>1 DEF Bind, BindAt, AfterBind, LocalsValid
<1>7. CASE Listen(t)
  <2>1. \A f \in Fds : host'[f].peer = host[f].peer
    BY <1>1, <1>7 DEF Listen, Socket
  <2> QED BY <1>1, <1>7, <2>1 DEF Listen, LocalsValid
<1>8. CASE SetClientNonblocking(t)
  <2>1. \A f \in Fds : host'[f].peer = host[f].peer
    BY <1>1, <1>8, SetBlockingSame DEF SetClientNonblocking, Same
  <2> QED BY <1>1, <1>8, <2>1 DEF SetClientNonblocking
<1>9. CASE Connect(t)
  <2>1. lsock[t] \in Fds /\ csock[t] \in Fds /\ lsock[t] # csock[t]
    BY <1>1, <1>9 DEF Connect, LocalsValid, HoldsClient
  <2>2. CASE Connected(t, {"est", "queued", "syn"})
    <3>1. PICK l \in Reachable(laddr[t]), ph \in {"est", "queued", "syn"} :
            host' = [host EXCEPT ![csock[t]].peer = l, ![csock[t]].phase = ph]
      BY <2>2 DEF Connected
    <3>2. l = lsock[t]
      BY <1>9, ReachesOwn DEF Connect
    <3>3. host[csock[t]] \in Socket
      BY <1>1, <2>1
    <3>4. host'[csock[t]].peer = lsock[t] /\ host'[lsock[t]] = host[lsock[t]]
      BY <1>1, <2>1, <3>1, <3>2, <3>3 DEF Socket
    <3> QED BY <1>1, <1>9, <2>1, <2>2, <3>4 DEF Connect, Connected, AfterConnect
  <2>3. CASE UNCHANGED host /\ pc' = [pc EXCEPT ![t] = "clean_l"]
    BY <1>1, <1>9, <2>3 DEF Connect
  <2>4. CASE NotStarted(t)
    <3>1. req[t].stream /\ UNCHANGED host /\ pc' = [pc EXCEPT ![t] = "accept"]
      BY <1>1, <2>4 DEF NotStarted, AfterConnect, DatagramsConnect
    <3> QED BY <1>1, <1>9, <3>1 DEF Connect
  <2> QED BY <1>9, <2>2, <2>3, <2>4 DEF Connect, Refused
<1>10. CASE Accept(t)
  <2>1. CASE AcceptsSome(t)
    <3>1. PICK s \in FreeFds, c \in Queued(lsock[t]), nb \in {FALSE, host[lsock[t]].nonblock} :
            Accepts(t, s, c, nb)
      BY <2>1 DEF AcceptsSome
    <3>2. c = csock[t]
      BY <1>10, QueuedIsOwn DEF Accept
    <3>3. lsock[t] \in Fds \ {s, c}
      BY <1>1, <1>10, <3>2, OwnDescriptors DEF Accept, FreeFds, Open, LocalsValid, HoldsClient, Held
    <3>4. pc'[t] = "close_l" /\ host'[lsock[t]] = host[lsock[t]]
      BY <1>1, <1>10, <3>1, <3>3 DEF Accepts
    <3> QED BY <1>1, <1>10, <3>4 DEF Accept
  <2>2. CASE AcceptFails(t) /\ pc' = [pc EXCEPT ![t] = "clean_l"] /\ UNCHANGED <<ssock, host>>
    BY <1>1, <1>10, <2>2 DEF Accept
  <2> QED BY <1>10, <2>1, <2>2 DEF Accept
<1>11. CASE CloseListener(t)
  BY <1>1, <1>11 DEF CloseListener, LocalsValid
<1>12. CASE SetServerBlocking(t)
  BY <1>1, <1>12 DEF SetServerBlocking, LocalsValid
<1>13. CASE Restore(t)
  <2>1. csock[t] \in Fds /\ (~req[t].stream => lsock[t] \in Fds)
    BY <1>1, <1>13 DEF Restore, LocalsValid
  <2>2. \A f \in Fds : host'[f].peer = host[f].peer
    BY <1>1, <1>13, SetBlockingSame DEF Restore, Same
  <2> QED BY <1>1, <1>13, <2>1, <2>2 DEF Restore
<1>14. CASE CloseEnd(t)
  <2>1. PICK f \in Ends(t) :
          /\ HostClose({f})
          /\ pc' = [pc EXCEPT ![t] = IF Ends(t) \ {f} = {} THEN "idle" ELSE "half"]
          /\ lsock' = Only(lsock, t, Ends(t) \ {f})
          /\ csock' = Only(csock, t, Ends(t) \ {f})
          /\ ssock' = Only(ssock, t, Ends(t) \ {f})
          /\ req' = req
    BY <1>14 DEF CloseEnd
  <2>2. Ends(t)' = Ends(t) \ {f} /\ Ends(t) = Held(t) /\ pc[t] \in {"ok", "half"}
        /\ Held(t)' = Held(t) \ {f}
    BY <1>1, <2>1, CloseEndHeld, EndsHeld DEF Ends
  <2>3. ASSUME NEW g \in Ends(t)' PROVE host'[g].peer = NoFd
    <3>1. g \in Ends(t) /\ g # f /\ g \in Fds /\ host[g].open
      BY <1>1, <2>2 DEF Open
    <3>2. host[g].peer \in {f, NoFd}
      <4>1. CASE pc[t] = "half"
        BY <3>1, <4>1
      <4>2. CASE pc[t] = "ok" /\ req[t].stream
        BY <2>1, <3>1, <4>2 DEF Ends, Vector, IInv, ThreadInv, Linked, HoldsServer
      <4>3. CASE pc[t] = "ok" /\ ~req[t].stream
        BY <1>1, <2>1, <3>1, <4>3 DEF Ends, Vector, LocalsValid
      <4> QED BY <2>2, <4>1, <4>2, <4>3
    <3> QED BY <1>1, <2>1, <3>1, <3>2, HostCloseEffect
  <2>4. pc'[t] \in {"idle", "half"}
    BY <1>1, <2>1
  <2>5. HoldsListener(t)' => lsock'[t] \in Ends(t)'
    BY <2>4 DEF Ends, Vector
  <2> QED BY <2>3, <2>4, <2>5
<1> QED BY <1>3, <1>4, <1>5, <1>6, <1>7, <1>8, <1>9, <1>10, <1>11, <1>12, <1>13, <1>14
        DEF ThreadStep, Step

LEMMA PlainOthers ==
  ASSUME IInv, NEW t \in Threads, ThreadStep(t), NEW u \in Threads, u # t, PlainInv(u)
  PROVE  PlainInv(u)'
<1>1. /\ pc'[u] = pc[u] /\ req'[u] = req[u]
      /\ lsock'[u] = lsock[u] /\ csock'[u] = csock[u] /\ ssock'[u] = ssock[u]
  BY OthersLocals DEF IInv
<1>2. \A f \in Held(u) : host'[f] = host[f]
  BY Untouched
<1>3. HoldsListener(u) => lsock[u] \in Held(u)
  BY DEF Held, HoldsListener, IInv, TypeOK
<1>4. pc[u] \in {"restore", "ok"} => csock[u] \in Held(u)
  BY OwnDescriptors DEF IInv, ThreadInv
<1>5. Ends(u)' = Ends(u) /\ Ends(u) \subseteq Held(u)
  BY <1>1, EndsHeld DEF Ends, Vector, IInv, ThreadInv
<1> QED BY <1>1, <1>2, <1>3, <1>4, <1>5 DEF PlainInv, HoldsListener

Plain == DatagramsConnect => \A t \in Threads : PlainInv(t)

LEMMA PlainStep == IInv /\ Plain /\ [Next]_vars => Plain'
<1> SUFFICES ASSUME IInv, DatagramsConnect, \A t \in Threads : PlainInv(t), [Next]_vars,
                    NEW u \in Threads
             PROVE  PlainInv(u)'
  BY DEF Plain
<1>1. ASSUME NEW t \in Threads, ThreadStep(t) PROVE PlainInv(u)'
  BY <1>1, PlainOwn, PlainOthers
<1>2. ASSUME NEW c \in Fds, Handshake(c) PROVE PlainInv(u)'
  <2>1. \A f \in Fds : host'[f].peer = host[f].peer
    BY <1>2 DEF Handshake, IInv, TypeOK, Socket
  <2>2. /\ HoldsListener(u) => lsock[u] \in Fds
        /\ pc[u] \in {"restore", "ok"} => csock[u] \in Fds
    BY DEF HoldsListener, IInv, TypeOK, ThreadInv, LocalsValid
  <2>3. Ends(u)' = Ends(u) /\ Ends(u) \subseteq Fds
    BY <1>2, EndsHeld DEF Handshake, locals, Ends, Vector, IInv, ThreadInv, Held
  <2> QED BY <1>2, <2>1, <2>2, <2>3 DEF Handshake, locals, PlainInv, HoldsListener
<1>3. CASE UNCHANGED vars
  BY <1>3 DEF vars, locals, PlainInv, HoldsListener, Ends, Vector
<1> QED BY <1>1, <1>2, <1>3 DEF Next, ThreadStep

(* The descriptors of a pair are open and nobody else's.                   *)
LEMMA EndsOwn ==
  ASSUME IInv, NEW t \in Threads
  PROVE  /\ Ends(t) \subseteq Held(t) /\ Ends(t) \subseteq Open /\ NoFd \notin Ends(t)
         /\ \A u \in Threads : u # t => Ends(t) \cap Held(u) = {}
<1>1. Ends(t) \subseteq Held(t)
  BY EndsHeld DEF IInv, ThreadInv
<1>2. Held(t) \subseteq Open /\ NoFd \notin Held(t)
  BY HeldAreOpen DEF IInv, Held
<1> QED BY <1>1, <1>2 DEF IInv, Ownership, NothingShared

(* What a step of thread t leaves to the other callers.                    *)
LEMMA OthersServed ==
  ASSUME IInv, NEW t \in Threads, ThreadStep(t), NEW u \in Threads, u # t
  PROVE  /\ Status(u)' = Status(u) /\ Ends(u)' = Ends(u) /\ req'[u] = req[u]
         /\ \A f \in Ends(u) : host'[f] = host[f]
<1>1. /\ pc'[u] = pc[u] /\ req'[u] = req[u]
      /\ lsock'[u] = lsock[u] /\ csock'[u] = csock[u] /\ ssock'[u] = ssock[u]
  BY OthersLocals DEF IInv
<1>2. \A f \in Ends(u) : host'[f] = host[f]
  BY EndsOwn, Untouched
<1> QED BY <1>1, <1>2 DEF Status, Ends, Vector

LEMMA OthersLinks ==
  ASSUME IInv, NEW t \in Threads, ThreadStep(t), NEW f \in Fds, f \notin Ends(t), f \notin Ends(t)'
  PROVE  Link(f)' = Link(f)
<1>1. \A u \in Threads : f \in Ends(u)' <=> f \in Ends(u)
  BY OthersServed
<1>2. \A u \in Threads : f \in Ends(u) => host'[f] = host[f]
  BY OthersServed
<1> QED BY <1>1, <1>2 DEF Link

(* A step that leaves its thread without a pair shows nothing but status.  *)
LEMMA NoPair ==
  ASSUME IInv, NEW t \in Threads, ThreadStep(t), Ends(t) = {}, Ends(t)' = {}, NEW s, Status(t)' = s
  PROVE  /\ [u \in Threads |-> Status(u)]' = [[u \in Threads |-> Status(u)] EXCEPT ![t] = s]
         /\ [u \in Threads |-> Ends(u)]' = [u \in Threads |-> Ends(u)]
         /\ [f \in Fds |-> Link(f)]' = [f \in Fds |-> Link(f)]
<1>1. \A u \in Threads : Ends(u)' = Ends(u) /\ (u # t => Status(u)' = Status(u))
  BY OthersServed
<1>2. \A f \in Fds : Link(f)' = Link(f)
  BY OthersLinks
<1> QED BY <1>1, <1>2

(* A step within a call, or after one that failed, shows nothing.          *)
LEMMA Unseen ==
  ASSUME IInv, NEW t \in Threads, ThreadStep(t), req' = req,
         Status(t)' = Status(t), Ends(t) = {}, Ends(t)' = {}
  PROVE  UNCHANGED Service!vars
<1>1. \A u \in Threads : Status(u)' = Status(u) /\ Ends(u)' = Ends(u)
  BY OthersServed
<1>2. \A f \in Fds : Link(f)' = Link(f)
  BY OthersLinks
<1> QED BY <1>1, <1>2 DEF Service!vars

(* The four steps that a caller sees.                                      *)
LEMMA BeginStep ==
  ASSUME IInv, NEW t \in Threads, Call(t)
  PROVE  Service!Begin(t)
<1>1. /\ TypeOK /\ pc[t] = "idle" /\ pc'[t] = "open_l" /\ ThreadStep(t)
      /\ Ends(t) = {} /\ Ends(t)' = {} /\ Status(t) = "idle" /\ Status(t)' = "busy"
  BY DEF Call, At, IInv, TypeOK, ThreadStep, Ends, Status
<1>2. PICK r \in Requests : req' = [req EXCEPT ![t] = r]
  BY DEF Call
<1>3. [u \in Threads |-> req[u].stream]' = [[u \in Threads |-> req[u].stream] EXCEPT ![t] = r.stream]
      /\ r.stream \in BOOLEAN
  BY <1>1, <1>2, RequestFields DEF TypeOK
<1>4. \E c \in BOOLEAN : [u \in Threads |-> req[u].stream]' = [[u \in Threads |-> req[u].stream] EXCEPT ![t] = c]
  BY <1>3
<1>5. /\ [u \in Threads |-> Status(u)]' = [[u \in Threads |-> Status(u)] EXCEPT ![t] = "busy"]
      /\ [u \in Threads |-> Ends(u)]' = [u \in Threads |-> Ends(u)]
      /\ [f \in Fds |-> Link(f)]' = [f \in Fds |-> Link(f)]
  BY <1>1, NoPair
<1> QED BY <1>1, <1>4, <1>5 DEF Service!Begin

LEMMA FailStep ==
  ASSUME IInv, NEW t \in Threads, CleanClient(t)
  PROVE  Service!Fail(t)
<1>1. /\ pc[t] = "clean_c" /\ pc'[t] = "failed" /\ req' = req /\ ThreadStep(t)
      /\ Ends(t) = {} /\ Ends(t)' = {} /\ Status(t) = "busy" /\ Status(t)' = "idle"
  BY DEF CleanClient, At, IInv, TypeOK, ThreadStep, Step, Ends, Status
<1>2. /\ [u \in Threads |-> Status(u)]' = [[u \in Threads |-> Status(u)] EXCEPT ![t] = "idle"]
      /\ [u \in Threads |-> Ends(u)]' = [u \in Threads |-> Ends(u)]
      /\ [f \in Fds |-> Link(f)]' = [f \in Fds |-> Link(f)]
  BY <1>1, NoPair
<1> QED BY <1>1, <1>2 DEF Service!Fail

LEMMA CloseStep ==
  ASSUME IInv, NEW t \in Threads, CloseEnd(t)
  PROVE  Service!Close(t)
<1>1. PICK f \in Ends(t) :
        /\ HostClose({f})
        /\ pc' = [pc EXCEPT ![t] = IF Ends(t) \ {f} = {} THEN "idle" ELSE "half"]
        /\ lsock' = Only(lsock, t, Ends(t) \ {f})
        /\ csock' = Only(csock, t, Ends(t) \ {f})
        /\ ssock' = Only(ssock, t, Ends(t) \ {f})
        /\ req' = req
  BY DEF CloseEnd
<1>2. TypeOK /\ LocalsValid(t) /\ ThreadStep(t)
  BY DEF IInv, ThreadInv, ThreadStep
<1>3. Ends(t)' = Ends(t) \ {f} /\ f \in Fds
  BY <1>1, <1>2, CloseEndHeld, EndsOwn DEF Open
<1>4. Status(t)' = IF {f} = Ends(t) THEN "idle" ELSE "ok"
  <2>1. pc'[t] = IF {f} = Ends(t) THEN "idle" ELSE "half"
    BY <1>1, <1>2 DEF TypeOK
  <2> QED BY <2>1 DEF Status
<1>5. [u \in Threads |-> Status(u)]' =
        [[u \in Threads |-> Status(u)] EXCEPT ![t] = IF {f} = Ends(t) THEN "idle" ELSE "ok"]
  BY <1>2, <1>4, OthersServed
<1>6. [u \in Threads |-> Ends(u)]' = [[u \in Threads |-> Ends(u)] EXCEPT ![t] = Ends(t) \ {f}]
  BY <1>2, <1>3, OthersServed
<1>7. ASSUME NEW g \in Fds PROVE Link(g)' = IF g \in {f} THEN {} ELSE Link(g) \ {f}
  <2>1. CASE g = f
    <3>1. \A u \in Threads : g \notin Ends(u)'
      BY <1>2, <1>3, <2>1, EndsOwn, OthersServed
    <3> QED BY <2>1, <3>1 DEF Link
  <2>2. CASE g # f /\ g \in Ends(t)
    <3>1. host[g].open /\ (host'[g].peer = IF host[g].peer = f THEN NoFd ELSE host[g].peer)
      BY <1>1, <1>2, <2>2, EndsOwn, HostCloseEffect DEF Open
    <3>2. Link(g) = {host[g].peer} \ {NoFd}
      BY <2>2 DEF Link
    <3>3. Link(g)' = {host'[g].peer} \ {NoFd}
      BY <1>3, <2>2 DEF Link
    <3>4. f # NoFd
      BY <1>1, EndsOwn
    <3> QED BY <2>2, <3>1, <3>2, <3>3, <3>4
  <2>3. CASE g # f /\ g \notin Ends(t)
    <3>1. Link(g)' = Link(g)
      BY <1>2, <1>3, <2>3, OthersLinks
    <3>2. ASSUME NEW u \in Threads, g \in Ends(u) PROVE host[g].peer # f
      <4>1. u # t /\ g \in Held(u) /\ f \notin Held(u) /\ f # NoFd
        BY <1>1, <2>3, <3>2, EndsOwn
      <4> QED BY <4>1 DEF IInv, ThreadInv, PeersAtHome
    <3>3. f \notin Link(g)
      BY <3>2 DEF Link
    <3> QED BY <2>3, <3>1, <3>3
  <2> QED BY <2>1, <2>2, <2>3
<1>8. [g \in Fds |-> Link(g)]' =
        [g \in Fds |-> IF g \in {f} THEN {} ELSE [h \in Fds |-> Link(h)][g] \ {f}]
  BY <1>7
<1>9. {f} \subseteq Ends(t) /\ {f} # {}
  BY <1>1
<1>10. \E fds \in (SUBSET [u \in Threads |-> Ends(u)][t]) \ {{}} :
         /\ [u \in Threads |-> Ends(u)]' = [[u \in Threads |-> Ends(u)] EXCEPT ![t] = @ \ fds]
         /\ [u \in Threads |-> Status(u)]' =
              [[u \in Threads |-> Status(u)] EXCEPT
                 ![t] = IF fds = [u \in Threads |-> Ends(u)][t] THEN "idle" ELSE "ok"]
         /\ [g \in Fds |-> Link(g)]' =
              [g \in Fds |-> IF g \in fds THEN {} ELSE [h \in Fds |-> Link(h)][g] \ fds]
         /\ UNCHANGED [u \in Threads |-> req[u].stream]
  <2>1. [u \in Threads |-> Ends(u)][t] = Ends(t)
    OBVIOUS
  <2>2. {f} \in (SUBSET [u \in Threads |-> Ends(u)][t]) \ {{}}
    BY <1>9, <2>1
  <2>3. [u \in Threads |-> Ends(u)]' = [[u \in Threads |-> Ends(u)] EXCEPT ![t] = @ \ {f}]
    BY <1>6, <2>1
  <2>4. [u \in Threads |-> Status(u)]' =
          [[u \in Threads |-> Status(u)] EXCEPT
             ![t] = IF {f} = [u \in Threads |-> Ends(u)][t] THEN "idle" ELSE "ok"]
    BY <1>5, <2>1
  <2> WITNESS {f} \in (SUBSET [u \in Threads |-> Ends(u)][t]) \ {{}}
  <2> QED BY <1>1, <1>8, <2>3, <2>4
<1> QED BY <1>10 DEF Service!Close

LEMMA SucceedStep ==
  ASSUME IInv, NEW t \in Threads, PlainInv(t), Restore(t)
  PROVE  Service!Succeed(t)
<1> DEFINE a == Vector(t)[1]  b == Vector(t)[2]
<1>1. /\ TypeOK /\ LocalsValid(t) /\ pc[t] = "restore" /\ pc'[t] = "ok" /\ req' = req
      /\ ThreadStep(t) /\ Vector(t)' = Vector(t) /\ Status(t) = "busy" /\ Status(t)' = "ok"
  BY DEF Restore, At, IInv, TypeOK, ThreadInv, ThreadStep, Step, Vector, Status
<1>2. a # b /\ a \in Held(t) /\ b \in Held(t) /\ a \in Fds /\ b \in Fds
  BY <1>1, OwnDescriptors, RequestFields DEF Vector, LocalsValid, HoldsServer, HoldsListener, HoldsClient, Held, TypeOK
<1>3. Ends(t) = {} /\ Ends(t)' = {a, b}
  BY <1>1, <1>2 DEF Ends
<1>4. \A f \in Fds : host'[f].peer = host[f].peer
  BY <1>1, SetBlockingSame DEF Restore, Same
<1>5. host[a].peer = (IF req[t].stream THEN b ELSE NoFd) /\ host[b].peer = a
  BY <1>1 DEF Vector, PlainInv, HoldsListener, HoldsServer, LocalsValid, IInv, ThreadInv, Linked
<1>6. [u \in Threads |-> Status(u)]' = [[u \in Threads |-> Status(u)] EXCEPT ![t] = "ok"]
  BY <1>1, OthersServed
<1>7. [u \in Threads |-> Ends(u)]' = [[u \in Threads |-> Ends(u)] EXCEPT ![t] = {a, b}]
  BY <1>1, <1>3, OthersServed
<1>8. ASSUME NEW u \in Threads PROVE a \notin Ends(u) /\ b \notin Ends(u)
  BY <1>2, <1>3, EndsOwn
<1>9. ASSUME NEW f \in Fds
      PROVE  Link(f)' = IF f = b THEN {a} ELSE IF f = a THEN IF req[t].stream THEN {b} ELSE {} ELSE Link(f)
  <2>1. CASE f \in {a, b}
    <3>1. Link(f)' = {host'[f].peer} \ {NoFd}
      BY <1>3, <2>1 DEF Link
    <3> QED BY <1>2, <1>4, <1>5, <2>1, <3>1
  <2>2. CASE f \notin {a, b}
    BY <1>1, <1>3, <2>2, OthersLinks
  <2> QED BY <2>1, <2>2
<1>10. [f \in Fds |-> Link(f)]' =
        [[f \in Fds |-> Link(f)] EXCEPT ![a] = IF req[t].stream THEN {b} ELSE {}, ![b] = {a}]
  BY <1>2, <1>9
<1>11. \A f \in {a, b} : f \in Fds \ Service!HandedOut
  BY <1>2, <1>8 DEF Service!HandedOut
<1> QED BY <1>1, <1>2, <1>6, <1>7, <1>10, <1>11 DEF Service!Succeed

LEMMA ServiceStep ==
  ASSUME IInv, DatagramsConnect, Plain, [Next]_vars
  PROVE  [Service!Next]_(Service!vars)
<1>1. ASSUME NEW t \in Threads, ThreadStep(t) PROVE [Service!Next]_(Service!vars)
  <2>1. CASE Call(t)
    BY <2>1, BeginStep DEF Service!Next
  <2>2. CASE Restore(t)
    BY <2>2, SucceedStep DEF Service!Next, Plain
  <2>3. CASE CleanClient(t)
    BY <2>3, FailStep DEF Service!Next
  <2>4. CASE CloseEnd(t)
    BY <2>4, CloseStep DEF Service!Next
  <2>5. CASE Release(t)
    <3>1. req' = req /\ pc[t] = "failed" /\ pc'[t] = "idle"
      BY <2>5 DEF Release, At, IInv, TypeOK
    <3> QED BY <1>1, <3>1, Unseen DEF Status, Ends
  <2>6. CASE OpenListener(t) \/ OpenClient(t) \/ Bind(t) \/ Listen(t) \/ SetClientNonblocking(t)
             \/ Connect(t) \/ Accept(t) \/ CloseListener(t) \/ SetServerBlocking(t) \/ CleanListener(t)
    <3>1. /\ req' = req
          /\ pc[t] \notin {"idle", "ok", "half", "failed"} /\ pc'[t] \notin {"idle", "ok", "half", "failed"}
      <4>1. pc \in [Threads -> Stages]
        BY DEF IInv, TypeOK
      <4> USE <4>1 DEF At
      <4>2. CASE OpenListener(t)
        BY <4>2 DEF OpenListener
      <4>3. CASE OpenClient(t)
        BY <4>3 DEF OpenClient
      <4>4. CASE Bind(t)
        BY <4>4 DEF Bind, BindAt, AfterBind
      <4>5. CASE Listen(t)
        BY <4>5 DEF Listen
      <4>6. CASE SetClientNonblocking(t)
        BY <4>6 DEF SetClientNonblocking
      <4>7. CASE Connect(t)
        BY <4>7 DEF Connect, Connected, AfterConnect, NotStarted, Refused
      <4>8. CASE Accept(t)
        BY <4>8 DEF Accept, AcceptsSome, Accepts
      <4>9. CASE CloseListener(t) \/ SetServerBlocking(t) \/ CleanListener(t)
        BY <4>9 DEF CloseListener, SetServerBlocking, CleanListener
      <4> QED BY <2>6, <4>2, <4>3, <4>4, <4>5, <4>6, <4>7, <4>8, <4>9
    <3> QED BY <1>1, <3>1, Unseen DEF Status, Ends
  <2> QED BY <1>1, <2>1, <2>2, <2>3, <2>4, <2>5, <2>6 DEF ThreadStep, Step
<1>2. ASSUME NEW c \in Fds, Handshake(c) PROVE UNCHANGED Service!vars
  <2>1. \A f \in Fds : host'[f].peer = host[f].peer
    BY <1>2 DEF Handshake, IInv, TypeOK, Socket
  <2>2. \A f \in Fds : Link(f)' = Link(f)
    BY <1>2, <2>1 DEF Handshake, locals, Link, Ends, Vector
  <2> QED BY <1>2, <2>2 DEF Handshake, locals, Service!vars, Status, Ends, Vector
<1>3. CASE UNCHANGED vars
  BY <1>3 DEF vars, locals, Service!vars, Status, Ends, Vector, Link
<1> QED BY <1>1, <1>2, <1>3 DEF Next, ThreadStep

(* Seen from its callers socketpair() is one atomic step that hands out a  *)
(* linked private pair or leaves no trace, and closing one end of a pair   *)
(* leaves the other linked to nothing, whoever has the number next: for    *)
(* stream pairs on every host, for datagram pairs on every host whose      *)
(* EAGAIN does not leave a client unconnected.                             *)
THEOREM ServiceImplemented ==
  ASSUME DatagramsConnect
  PROVE  Spec => ImplementsService
<1>1. Init => Service!Init
  <2> SUFFICES ASSUME Init PROVE Service!Init
    OBVIOUS
  <2>1. \A t \in Threads : Status(t) = "idle" /\ Ends(t) = {} /\ req[t].stream \in BOOLEAN
    BY RequestFields DEF Init, Status, Ends
  <2>2. \A f \in Fds : Link(f) = {}
    BY <2>1 DEF Link
  <2> QED BY <2>1, <2>2 DEF Service!Init
<1>2. Init => Plain
  BY DEF Init, Plain, PlainInv, HoldsListener
<1>3. IInv /\ Plain /\ [Next]_vars => [Service!Next]_(Service!vars)
  BY ServiceStep
<1> QED BY Invariance, PlainStep, <1>1, <1>2, <1>3, PTL DEF Spec, ImplementsService, Service!Spec
=============================================================================
