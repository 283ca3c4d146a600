---------------------------- MODULE PairService ----------------------------
(***************************************************************************)
(* What socketpair() promises its callers, whatever it is built from: a    *)
(* call either fails and leaves nothing behind, or hands out two           *)
(* descriptors nobody else has, linked to each other until one of them is  *)
(* closed.  Of a datagram pair only one end is linked: the code connects   *)
(* csock to lsock and never the other way round.                           *)
(***************************************************************************)
CONSTANTS Threads, Fds

VARIABLES
  status,  \* of each thread: it has a call under way ("busy") or a pair ("ok")
  stream,  \* whether it asked for a stream
  ends,    \* the descriptors it was given and has not closed
  link     \* the peers of every descriptor: none or one

vars == <<status, stream, ends, link>>

HandedOut == UNION {ends[t] : t \in Threads}

Init ==
  /\ status = [t \in Threads |-> "idle"]
  /\ stream \in [Threads -> BOOLEAN]
  /\ ends = [t \in Threads |-> {}]
  /\ link = [f \in Fds |-> {}]

Begin(t) ==
  /\ status[t] = "idle"
  /\ status' = [status EXCEPT ![t] = "busy"]
  /\ \E b \in BOOLEAN : stream' = [stream EXCEPT ![t] = b]
  /\ UNCHANGED <<ends, link>>

Succeed(t) ==
  /\ status[t] = "busy"
  /\ status' = [status EXCEPT ![t] = "ok"]
  /\ \E a, b \in Fds \ HandedOut :
       /\ a # b
       /\ ends' = [ends EXCEPT ![t] = {a, b}]
       /\ link' = [link EXCEPT ![a] = IF stream[t] THEN {b} ELSE {}, ![b] = {a}]
  /\ UNCHANGED stream

Fail(t) ==
  /\ status[t] = "busy"
  /\ status' = [status EXCEPT ![t] = "idle"]
  /\ UNCHANGED <<stream, ends, link>>

(* The caller closes one end or both.                                      *)
Close(t) ==
  \E fds \in (SUBSET ends[t]) \ {{}} :
    /\ ends' = [ends EXCEPT ![t] = @ \ fds]
    /\ status' = [status EXCEPT ![t] = IF fds = ends[t] THEN "idle" ELSE "ok"]
    /\ link' = [f \in Fds |-> IF f \in fds THEN {} ELSE link[f] \ fds]
    /\ UNCHANGED stream

Next == \E t \in Threads : Begin(t) \/ Succeed(t) \/ Fail(t) \/ Close(t)

Spec == Init /\ [][Next]_vars
=============================================================================
