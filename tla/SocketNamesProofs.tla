------------------------- MODULE SocketNamesProofs -------------------------
(***************************************************************************)
(* Proofs about SocketNames, for any peers, sizes and buffer.              *)
(***************************************************************************)
EXTENDS SocketNames, TLAPS

USE NamesAssumption

LEMMA Sizes ==
  /\ \A p \in Peers : Family[p] \in {"inet", "inet6"}
  /\ \A f \in {"inet", "inet6"} : Size[f] \in Nat /\ Size[f] >= 1
  OBVIOUS

LEMMA TypeStep ==
  ASSUME TypeOK, [Next]_vars
  PROVE  TypeOK'
<1> USE DEF TypeOK, Named
<1>1. CASE SetLen BY <1>1 DEF SetLen
<1>2. CASE Give BY <1>2 DEF Give
<1>3. ASSUME NEW p \in Peers \cup {Unnamed}, Tell(p) PROVE TypeOK'
  <2>1. DOMAIN buf' = 1 .. Capacity
    BY <1>3 DEF Tell, ToSockaddr
  <2>2. len' \in 0 .. Capacity
    BY <1>3, Sizes DEF Tell, ToSockaddr, Copied
  <2> QED BY <1>3, <2>1, <2>2 DEF Tell
<1>4. ASSUME NEW p \in Peers, Compose(p) PROVE TypeOK'
  <2>1. DOMAIN buf' = 1 .. Capacity
    BY <1>4 DEF Compose
  <2> QED BY <1>4, <2>1 DEF Compose
<1>5. CASE UNCHANGED vars BY <1>5 DEF vars
<1> QED BY <1>1, <1>2, <1>3, <1>4, <1>5 DEF Next, Attach, Send, GetName, Recv

(* What a name with room, or without, becomes when it is given.            *)
LEMMA GiveName ==
  ASSUME IInv, Give
  PROVE  NameSurvives'
<1>1. SUFFICES ASSUME named # Unnamed
      PROVE  /\ given' = "address" => room /\ address' = AddressOf(named)
             /\ given' = "EINVAL" => ~room
  BY DEF NameSurvives, Give, AddressOf, Cell
<1> DEFINE f == Family[named]
<1>2. named \in Peers /\ f \in {"inet", "inet6"} /\ Size[f] \in Nat /\ Size[f] >= 1 /\ len \in 0 .. Capacity
  BY <1>1, Sizes DEF IInv, TypeOK
<1>3. CASE room
  <2>1. Size[f] <= len /\ \A i \in 1 .. Size[f] : buf[i] = Cell(named, i)
    BY <1>1, <1>3 DEF IInv, Whole
  <2>2. Capacity > 0 /\ buf[1] = f
    <3>1. 1 \in 1 .. Size[f] /\ Cell(named, 1) = f
      BY <1>2 DEF Cell
    <3> QED BY <1>2, <2>1, <3>1
  <2>3. Convertible
    BY <1>2, <2>1, <2>2 DEF Convertible, Fits
  <2>4. FromSockaddr = AddressOf(named)
    BY <1>2, <2>1, <2>2 DEF FromSockaddr, AddressOf
  <2> QED BY <1>3, <2>3, <2>4 DEF Give
<1>4. CASE ~room
  <2>1. len < Size[f] /\ (len = 0 \/ buf[1] = f)
    BY <1>1, <1>4 DEF IInv, Cut
  <2>2. ~Convertible
    BY <1>2, <2>1, Sizes DEF Convertible, Fits
  <2> QED BY <1>4, <2>2 DEF Give
<1>5. room \in BOOLEAN
  BY DEF IInv, TypeOK
<1> QED BY <1>3, <1>4, <1>5

LEMMA StepInv == IInv /\ [Next]_vars => IInv'
<1> SUFFICES ASSUME IInv, [Next]_vars PROVE IInv'
  OBVIOUS
<1>1. TypeOK'
  BY TypeStep DEF IInv
<1>2. CASE SetLen
  BY <1>1, <1>2 DEF SetLen, Named, IInv, NameSurvives
<1>3. CASE Give
  <2>1. UNCHANGED <<buf, len, named, room>>
    BY <1>3 DEF Give
  <2> QED BY <1>1, <1>3, <2>1, GiveName DEF IInv, Whole, Cut, Cell
<1>4. CASE Tell(Unnamed)
  BY <1>1, <1>4 DEF Tell, Named, IInv, NameSurvives
<1>5. ASSUME NEW p \in Peers, Tell(p) PROVE IInv'
  <2>1. named' = p /\ (room' <=> len >= Size[Family[p]]) /\ given' = "nothing" /\ p # Unnamed
    BY <1>5 DEF Tell, Named
  <2>2. Size[Family[p]] \in Nat /\ Size[Family[p]] >= 1 /\ len \in 0 .. Capacity
    BY Sizes DEF IInv, TypeOK
  <2>3. CASE len >= Size[Family[p]]
    <3>1. len' = Size[Family[p]] /\ \A i \in 1 .. Size[Family[p]] : buf'[i] = Cell(p, i)
      BY <1>5, <2>2, <2>3 DEF Tell, ToSockaddr, Copied
    <3>2. Whole(p)'
      BY <2>2, <3>1 DEF Whole, Cell
    <3> QED BY <1>1, <2>1, <2>3, <3>2 DEF IInv, NameSurvives
  <2>4. CASE len < Size[Family[p]]
    <3>1. len' = len /\ (len > 0 => buf'[1] = Family[p])
      BY <1>5, <2>2, <2>4, <2>1 DEF Tell, ToSockaddr, Copied, Cell
    <3>2. Cut(p)'
      BY <2>2, <2>4, <3>1 DEF Cut
    <3> QED BY <1>1, <2>1, <2>2, <2>4, <3>2 DEF IInv, NameSurvives
  <2> QED BY <2>2, <2>3, <2>4
<1>6. ASSUME NEW p \in Peers, Compose(p) PROVE IInv'
  <2>1. /\ named' = p /\ (room' <=> len >= Size[Family[p]]) /\ given' = "nothing"
        /\ len' = len /\ p # Unnamed
    BY <1>6 DEF Compose, Named
  <2>2. Size[Family[p]] \in Nat /\ Size[Family[p]] >= 1 /\ len \in 0 .. Capacity
    BY Sizes DEF IInv, TypeOK
  <2>3. \A i \in 1 .. Size[Family[p]] : buf'[i] = Cell(p, i)
    BY <1>6, <2>2 DEF Compose
  <2>4. buf'[1] = Family[p]
    <3>1. 1 \in 1 .. Size[Family[p]] /\ Cell(p, 1) = Family[p]
      BY <2>2 DEF Cell
    <3> QED BY <2>3, <3>1
  <2>5. IF room' THEN Whole(p)' ELSE Cut(p)'
    BY <2>1, <2>2, <2>3, <2>4 DEF Whole, Cut, Cell
  <2> QED BY <1>1, <2>1, <2>5 DEF IInv, NameSurvives
<1>7. CASE UNCHANGED vars
  BY <1>1, <1>7 DEF vars, IInv, NameSurvives, Whole, Cut, Cell, AddressOf
<1> QED BY <1>2, <1>3, <1>4, <1>5, <1>6, <1>7 DEF Next, Attach, Send, GetName, Recv

(* The inductive invariant of the program's name buffer.                   *)
THEOREM Invariance == Spec => []IInv
<1>1. Init => IInv
  BY DEF Init, IInv, TypeOK, NameSurvives
<1> QED BY <1>1, StepInv, PTL DEF Spec

(* A name goes back to the host as it came, or is refused.                 *)
THEOREM NameSurvivesHolds == Spec => []NameSurvives
<1>1. IInv => NameSurvives
  BY DEF IInv
<1> QED BY <1>1, Invariance, PTL

(* A telling call keeps to the length it was given.                        *)
THEOREM NoOverrunHolds == Spec => NoOverrun
<1>1. ASSUME TypeOK, NEW p \in Peers, Tell(p), NEW i \in len + 1 .. Capacity
      PROVE  buf'[i] = buf[i]
  <2>1. i \in 1 .. Capacity /\ i > len
    BY <1>1 DEF TypeOK
  <2>2. Copied(p) <= len
    BY <1>1, Sizes DEF Copied, TypeOK
  <2>3. ~(i <= Copied(p))
    BY <1>1, <2>1, <2>2, Sizes DEF Copied, TypeOK
  <2> QED BY <1>1, <2>1, <2>3 DEF Tell, ToSockaddr
<1>2. TypeOK /\ [Next]_vars => [\A p \in Peers : Tell(p) => \A i \in len + 1 .. Capacity : buf'[i] = buf[i]]_vars
  BY <1>1
<1>3. IInv => TypeOK
  BY DEF IInv
<1> QED BY <1>2, <1>3, Invariance, PTL DEF Spec, NoOverrun
=============================================================================
