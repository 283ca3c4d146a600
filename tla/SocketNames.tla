----------------------------- MODULE SocketNames -----------------------------
(***************************************************************************)
(* Socket addresses between a program and the host, in                     *)
(* wamr-ext-libc/src/socket_api.c, lines 33-140 and 155-357: the host      *)
(* tells the program a name through accept(), getsockname(),               *)
(* getpeername(), recvfrom() and recvmsg(), and the program gives it back  *)
(* through bind(), connect(), sendto() and sendmsg().  In between the name *)
(* sits in a buffer of the program, with a length that each telling call   *)
(* reads and may shorten.                                                  *)
(*                                                                         *)
(* A sockaddr is a row of cells, its family and the rest.                  *)
(***************************************************************************)
EXTENDS Naturals

CONSTANTS
  Peers,     \* who has an address
  Family,    \* its family, "inet" or "inet6"
  Size,      \* the cells of a sockaddr of each family
  Capacity,  \* the cells of the program's buffer
  Unnamed    \* an address of another family, or none: AF_UNSPEC

ASSUME NamesAssumption ==
  /\ Family \in [Peers -> {"inet", "inet6"}]
  /\ Size \in [{"inet", "inet6"} -> Nat \ {0}]
  /\ Capacity \in Nat
  /\ Unnamed \notin Peers

VARIABLES
  buf,    \* the program's buffer
  len,    \* the length that goes with it
  named,  \* history: whose name the last call or the program put there
  room,   \* history: whether the length was enough for that name
  given,  \* how the last giving call ended
  address \* the address it gave the host

vars == <<buf, len, named, room, given, address>>

(* Cell i of the sockaddr of p, and the host's form of the whole, struct   *)
(* wamr_wasi_sockaddr_storage.                                             *)
Cell(p, i) == IF i = 1 THEN Family[p] ELSE <<p, i>>
AddressOf(p) == [family |-> Family[p], rest |-> [i \in 2 .. Size[Family[p]] |-> Cell(p, i)]]

Init ==
  /\ buf = [i \in 1 .. Capacity |-> Unnamed]
  /\ len \in 0 .. Capacity
  /\ named = Unnamed /\ room = FALSE
  /\ given = "nothing" /\ address = Unnamed

Named(p) ==
  /\ named' = p
  /\ room' = (p # Unnamed /\ len >= Size[Family[p]])
  /\ given' = "nothing" /\ address' = Unnamed

-----------------------------------------------------------------------------
(* The program.                                                            *)

(* It sets the length before a call that tells a name,                     *)
SetLen ==
  /\ len' \in 0 .. Capacity
  /\ Named(Unnamed)
  /\ UNCHANGED buf

(* or puts a name there itself, with the length it has set.                *)
Compose(p) ==
  /\ Size[Family[p]] <= Capacity
  /\ buf' = [i \in 1 .. Capacity |-> IF i <= Size[Family[p]] THEN Cell(p, i) ELSE buf[i]]
  /\ Named(p)
  /\ UNCHANGED len

-----------------------------------------------------------------------------
(* The host tells a name: accept(), getsockname(), getpeername(),          *)
(* recvfrom() and recvmsg() that succeed and are passed a buffer.  Refused *)
(* for their arguments or by the host, or passed no buffer, they return    *)
(* before the conversion and leave all of this alone.                      *)

(* Mutant: the whole sockaddr is copied whatever the buffer's length.      *)
Copied_Whole(p) == Size[Family[p]]
(* *addrlen is the shorter of what it was and the sockaddr.                *)
Copied(p) == IF len > Size[Family[p]] THEN Size[Family[p]] ELSE len

(* __wamr_wasi_sockaddr_storage_to_sockaddr(): a name of another family,   *)
(* or no room at all, leaves buffer and length as they are.                *)
ToSockaddr(p) ==
  IF p = Unnamed \/ len = 0 THEN UNCHANGED <<buf, len>>
  ELSE /\ len' = Copied(p)
       /\ buf' = [i \in 1 .. Capacity |-> IF i <= Copied(p) THEN Cell(p, i) ELSE buf[i]]

Tell(p) == ToSockaddr(p) /\ Named(p)

(* The sockets of this library have names of the two families only; what   *)
(* was received may come without one, as on a connected stream.            *)
GetName(p) == p \in Peers /\ Tell(p)  \* accept(), getsockname(), getpeername()
Recv(p) == Tell(p)                     \* recvfrom(), recvmsg()

-----------------------------------------------------------------------------
(* The program gives a name: bind(), connect(), sendto() and sendmsg().    *)

(* Mutant: the length is not checked.                                      *)
Fits_Always(f) == TRUE
Fits(f) == len >= Size[f]

(* __sockaddr_to_wamr_wasi_sockaddr_storage(): EINVAL for another family   *)
(* or a short length.                                                      *)
Convertible == Capacity > 0 /\ buf[1] \in {"inet", "inet6"} /\ Fits(buf[1])
FromSockaddr == [family |-> buf[1], rest |-> [i \in 2 .. Size[buf[1]] |-> buf[i]]]

Give ==
  /\ IF Convertible THEN given' = "address" /\ address' = FromSockaddr
                    ELSE given' = "EINVAL" /\ address' = Unnamed
  /\ UNCHANGED <<buf, len, named, room>>

Attach == Give  \* bind(), connect()
Send == Give    \* sendto(), sendmsg()

Next ==
  \/ SetLen \/ Attach \/ Send
  \/ \E p \in Peers : Compose(p)
  \/ \E p \in Peers \cup {Unnamed} : GetName(p) \/ Recv(p)

Spec == Init /\ [][Next]_vars

-----------------------------------------------------------------------------
(* Properties.                                                             *)

TypeOK ==
  /\ DOMAIN buf = 1 .. Capacity
  /\ len \in 0 .. Capacity
  /\ named \in Peers \cup {Unnamed} /\ room \in BOOLEAN
  /\ given \in {"nothing", "address", "EINVAL"}

(* A telling call writes no further than the length it was given, however  *)
(* often that length was shortened before.                                 *)
NoOverrun == [][\A p \in Peers : Tell(p) => \A i \in len + 1 .. Capacity : buf'[i] = buf[i]]_vars

(* The name a program was told, or composed, is the one the host gets      *)
(* back, entire, whenever there was room for it; a name cut short, and one *)
(* mixed with an earlier name's rest, is refused and never misdirected.    *)
NameSurvives ==
  named # Unnamed =>
    /\ given = "address" => room /\ address = AddressOf(named)
    /\ given = "EINVAL" => ~room

(* Why NameSurvives holds: a name with room is all there, and one without  *)
(* room still tells its family, or has no length at all.                   *)
Whole(p) == Size[Family[p]] <= len /\ \A i \in 1 .. Size[Family[p]] : buf[i] = Cell(p, i)
Cut(p) == len < Size[Family[p]] /\ (len = 0 \/ buf[1] = Family[p])
IInv ==
  /\ TypeOK /\ NameSurvives
  /\ named # Unnamed => IF room THEN Whole(named) ELSE Cut(named)
=============================================================================
