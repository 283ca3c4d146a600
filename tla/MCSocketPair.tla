---------------------------- MODULE MCSocketPair ----------------------------
(* Small instances of SocketPair for TLC.                                  *)
EXTENDS SocketPair, TLC

Inet(stream, nonblock) == [domain |-> "inet", stream |-> stream, nonblock |-> nonblock]
Unusual(domain) == [domain |-> domain, stream |-> TRUE, nonblock |-> FALSE]

(* What an application asks for, in both address families and in one the   *)
(* library refuses.                                                        *)
AllRequests == {Inet(s, n) : s, n \in BOOLEAN} \cup {Unusual("inet6"), Unusual("other")}
StreamRequests == {Inet(TRUE, FALSE), Inet(TRUE, TRUE)}

OnlyAgain == {"again"}
(* "again" leaves a datagram pair unconnected.                             *)
ServiceFaults == {"socket", "bind", "listen", "fcntl", "connect", "accept"}

Symmetry == Permutations(Threads) \cup Permutations(Fds) \cup Permutations(Ports)
=============================================================================
