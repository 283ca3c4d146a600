---------------------------- MODULE MCSocketNames ----------------------------
(* Two families of two and four cells for SocketNames.                     *)
EXTENDS SocketNames

CONSTANTS Inet1, Inet2, Inet6

Families == [p \in Peers |-> IF p = Inet6 THEN "inet6" ELSE "inet"]
Sizes == [f \in {"inet", "inet6"} |-> IF f = "inet" THEN 2 ELSE 4]
=============================================================================
