------------------------- MODULE SpawnRequestProofs -------------------------
(***************************************************************************)
(* Proofs about SpawnRequest, for every list of file actions and every     *)
(* argument vector, whatever fails.                                        *)
(***************************************************************************)
EXTENDS SpawnRequest, SequenceTheorems, TLAPS

USE RequestAssumption

LEMMA LenAdded ==
  ASSUME added \in ActionLists
  PROVE  Len(added) \in Nat
<1> DEFINE S == {"dup2", "close", "open"}
<1>1. ActionLists \subseteq Seq(S)
  BY RequestAssumption
<1> HIDE DEF S
<1>2. added \in Seq(S)
  BY <1>1
<1> QED BY <1>2, LenProperties

(* A vector is a sequence; it is empty or its last place is NULL.          *)
LEMMA VectorEnds ==
  ASSUME exec_argv \in ArgLists
  PROVE  /\ Len(exec_argv) \in Nat /\ DOMAIN exec_argv = 1 .. Len(exec_argv)
         /\ exec_argv # << >> =>
              Len(exec_argv) \in DOMAIN exec_argv /\ exec_argv[Len(exec_argv)] = Null
<1> DEFINE S == Args \cup {Null}
<1>1. exec_argv \in Seq(S) /\ (exec_argv # << >> => exec_argv[Len(exec_argv)] = Null)
  BY RequestAssumption
<1> HIDE DEF S
<1>2. Len(exec_argv) \in Nat /\ DOMAIN exec_argv = 1 .. Len(exec_argv)
  BY <1>1, LenProperties
<1>3. exec_argv # << >> => Len(exec_argv) \in 1 .. Len(exec_argv)
  BY <1>1, <1>2, EmptySeq
<1> QED BY <1>1, <1>2, <1>3

(* Behind every place that is not NULL there is another.                   *)
LEMMA PlaceBehind ==
  ASSUME exec_argv \in ArgLists, NEW k \in DOMAIN exec_argv, exec_argv[k] # Null
  PROVE  exec_argv # << >> /\ k + 1 \in DOMAIN exec_argv /\ k + 1 <= Len(exec_argv)
<1> DEFINE n == Len(exec_argv)
           v == exec_argv
<1>1. n \in Nat /\ k \in 1 .. n
  BY VectorEnds
<1>2. v # << >>
  <2>1. CASE v = << >>
    <3>1. n = 0
      BY <2>1
    <3> QED BY <1>1, <3>1
  <2> QED BY <2>1
<1>3. v[n] = Null /\ v[k] # Null
  BY <1>2, VectorEnds
<1> HIDE DEF n, v
<1>4. k # n
  BY <1>3
<1>5. k + 1 \in 1 .. n /\ k + 1 <= n
  BY <1>1, <1>4
<1> QED BY <1>2, <1>5, VectorEnds DEF n, v

LEMMA OneBack ==
  ASSUME NEW n \in Nat, NEW k \in 0 .. n, k > 0
  PROVE  k \in 1 .. n /\ k - 1 \in 0 .. n
  OBVIOUS

LEMMA OneElement ==
  ASSUME NEW S, NEW e \in S
  PROVE  <<e>> \in Seq(S)
  OBVIOUS

(* Linking a smaller number at the head of an increasing sequence.         *)
LEMMA LinkAtHead ==
  ASSUME NEW s \in Seq(Nat), NEW k \in Nat, Increasing(s), \A x \in Places(s) : k < x
  PROVE  /\ <<k>> \o s \in Seq(Nat)
         /\ Increasing(<<k>> \o s)
         /\ Places(<<k>> \o s) = {k} \cup Places(s)
<1> DEFINE r == <<k>> \o s
<1>1. r \in Seq(Nat) /\ Len(r) = Len(s) + 1 /\ Len(s) \in Nat
  OBVIOUS
<1>2. r[1] = k /\ \A i \in 1 .. Len(s) : r[i + 1] = s[i]
  OBVIOUS
<1>3. \A i \in 1 .. Len(r) : i = 1 \/ (i - 1 \in 1 .. Len(s) /\ r[i] = s[i - 1])
  <2>1. ASSUME NEW i \in 1 .. Len(r), i # 1 PROVE i - 1 \in 1 .. Len(s) /\ r[i] = s[i - 1]
    <3>1. i - 1 \in 1 .. Len(s)
      BY <1>1, <2>1
    <3>2. r[(i - 1) + 1] = s[i - 1]
      BY <1>2, <3>1
    <3> QED BY <3>1, <3>2
  <2> QED BY <2>1
<1> HIDE DEF r
<1>4. Places(r) = {k} \cup Places(s)
  <2>1. ASSUME NEW i \in 1 .. Len(r) PROVE r[i] \in {k} \cup Places(s)
    BY <1>2, <1>3 DEF Places
  <2>2. k \in Places(r)
    BY <1>1, <1>2 DEF Places
  <2>3. ASSUME NEW i \in 1 .. Len(s) PROVE s[i] \in Places(r)
    <3>1. i + 1 \in 1 .. Len(r)
      BY <1>1
    <3> QED BY <1>2, <3>1 DEF Places
  <2> QED BY <2>1, <2>2, <2>3 DEF Places
<1>5. Increasing(r)
  <2>1. ASSUME NEW i \in 1 .. Len(r), NEW j \in 1 .. Len(r), i < j PROVE r[i] < r[j]
    <3>1. j - 1 \in 1 .. Len(s) /\ r[j] = s[j - 1]
      BY <1>1, <1>3, <2>1
    <3>2. CASE i = 1
      BY <1>2, <3>1, <3>2 DEF Places
    <3>3. CASE i # 1
      <4>1. i - 1 \in 1 .. Len(s) /\ r[i] = s[i - 1] /\ i - 1 < j - 1
        BY <1>1, <1>3, <2>1, <3>3
      <4> QED BY <3>1, <4>1 DEF Increasing
    <3> QED BY <3>2, <3>3
  <2> QED BY <2>1 DEF Increasing
<1> QED BY <1>1, <1>4, <1>5 DEF r

(* Taking the head off one.                                                *)
LEMMA TakeHead ==
  ASSUME NEW n \in Nat, NEW s \in Seq(1 .. n), s # << >>, Increasing(s)
  PROVE  /\ Tail(s) \in Seq(1 .. n)
         /\ Increasing(Tail(s))
         /\ Places(Tail(s)) = Places(s) \ {Head(s)}
<1> DEFINE r == Tail(s)
<1>1. Len(s) \in Nat \ {0} /\ r \in Seq(1 .. n) /\ Len(r) = Len(s) - 1 /\ Head(s) = s[1]
  OBVIOUS
<1>2. \A i \in 1 .. Len(r) : i + 1 \in 1 .. Len(s) /\ r[i] = s[i + 1]
  BY <1>1
<1> HIDE DEF r
<1>3. Increasing(r)
  <2>1. ASSUME NEW i \in 1 .. Len(r), NEW j \in 1 .. Len(r), i < j PROVE r[i] < r[j]
    <3>1. i + 1 < j + 1
      BY <1>1, <2>1
    <3> QED BY <1>2, <3>1 DEF Increasing
  <2> QED BY <2>1 DEF Increasing
<1>4. Places(r) = Places(s) \ {Head(s)}
  <2>1. ASSUME NEW i \in 1 .. Len(r) PROVE r[i] \in Places(s) /\ r[i] # Head(s)
    <3>1. 1 \in 1 .. Len(s) /\ 1 < i + 1 /\ s[1] \in 1 .. n /\ s[i + 1] \in 1 .. n
      BY <1>1, <1>2
    <3>2. s[1] < s[i + 1]
      BY <1>2, <3>1 DEF Increasing
    <3>3. r[i] = s[i + 1] /\ i + 1 \in 1 .. Len(s) /\ Head(s) = s[1]
      BY <1>1, <1>2
    <3>4. s[i + 1] # s[1]
      BY <3>1, <3>2
    <3> QED BY <3>3, <3>4 DEF Places
  <2>2. ASSUME NEW i \in 1 .. Len(s), s[i] # Head(s) PROVE s[i] \in Places(r)
    <3>1. i # 1
      BY <1>1, <2>2
    <3>2. i - 1 \in 1 .. Len(r) /\ (i - 1) + 1 = i
      BY <1>1, <3>1
    <3>3. r[i - 1] = s[i]
      BY <1>2, <3>2
    <3> QED BY <3>2, <3>3 DEF Places
  <2> QED BY <2>1, <2>2 DEF Places
<1> QED BY <1>1, <1>3, <1>4 DEF r

-----------------------------------------------------------------------------
(* The steps.                                                              *)

LEMMA TypeStep ==
  ASSUME TypeOK, [Next]_vars
  PROVE  TypeOK'
<1> DEFINE n == Len(added)
<1>1. n \in Nat
  BY LenAdded DEF TypeOK
<1>0. argc \in Nat /\ argc + 1 \in Nat
  <2>1. argc \in Nat
    BY DEF TypeOK
  <2> QED BY <2>1
<1> HIDE DEF n
<1> USE DEF TypeOK, Goto, input
<1>2. CASE Refuse BY <1>2 DEF Refuse
<1>3. CASE Begin BY <1>3 DEF Begin
<1>9. CASE Count BY <1>0, <1>9 DEF Count
<1>4. CASE Translate
  <2>1. op \in 1 .. n /\ op - 1 \in 0 .. n /\ fa \in Seq(1 .. n)
    <3>1. op \in 0 .. n /\ fa \in Seq(1 .. n) /\ op > 0
      BY <1>4 DEF Translate, n
    <3>2. op \in 1 .. n /\ op - 1 \in 0 .. n
      BY <1>1, <3>1, OneBack
    <3> QED BY <3>1, <3>2
  <2>2. <<op>> \o fa \in Seq(1 .. n)
    <3>1. <<op>> \in Seq(1 .. n)
      BY <2>1, OneElement
    <3> QED BY <2>1, <3>1, ConcatProperties
  <2>3. op' \in 0 .. n /\ fa' \in Seq(1 .. n) /\ heap' \subseteq 1 .. n /\ lost' \subseteq 1 .. n
    BY <1>4, <2>1, <2>2 DEF Translate, Link, n
  <2> QED BY <1>4, <2>3 DEF Translate, n
<1>5. CASE HostCall BY <1>5 DEF HostCall, AfterCall
<1>6. CASE FreeNode
  <2>1. Tail(fa) \in Seq(1 .. n)
    <3>1. fa \in Seq(1 .. n) /\ fa # << >>
      BY <1>6 DEF FreeNode, n
    <3> QED BY <3>1, HeadTailProperties
  <2> QED BY <1>6, <2>1 DEF FreeNode, n
<1>7. CASE Return BY <1>7 DEF Return
<1>8. CASE UNCHANGED vars BY <1>8 DEF vars
<1> QED BY <1>2, <1>3, <1>4, <1>5, <1>6, <1>7, <1>8, <1>9 DEF Next

LEMMA StageStep ==
  ASSUME TypeOK, Stage, [Next]_vars
  PROVE  Stage'
<1> USE DEF TypeOK, Stage, Goto, input
<1>1. CASE Refuse BY <1>1 DEF Refuse
<1>2. CASE Begin \/ Count BY <1>2 DEF Begin, Count
<1>3. CASE Translate BY <1>3 DEF Translate
<1>4. CASE HostCall BY <1>4 DEF HostCall, AfterCall
<1>5. CASE FreeNode BY <1>5 DEF FreeNode
<1>6. CASE Return BY <1>6 DEF Return
<1>7. CASE UNCHANGED vars BY <1>7 DEF vars
<1> QED BY <1>1, <1>2, <1>3, <1>4, <1>5, <1>6, <1>7 DEF Next

LEMMA BuiltStep ==
  ASSUME TypeOK, Built, [Next]_vars
  PROVE  Built'
<1> DEFINE n == Len(added)
<1>1. n \in Nat
  BY LenAdded DEF TypeOK
<1>2. CASE Refuse \/ Return
  BY <1>2 DEF Refuse, Return, Goto, input, Built, Places, Increasing
<1>3. CASE Begin \/ Count
  <2>1. /\ UNCHANGED <<added, op, fa, heap, lost>>
        /\ pc \in {"begin", "count"} /\ pc' \in {"count", "build"}
    BY <1>3 DEF Begin, Count, Goto, input
  <2> QED BY <2>1 DEF Built, Places, Increasing, Wanted, IsDup2
<1>4. CASE Translate
  <2>1. op \in 1 .. n /\ fa \in Seq(1 .. n)
    <3>1. op \in 0 .. n /\ fa \in Seq(1 .. n) /\ op > 0
      BY <1>4 DEF Translate, TypeOK
    <3> QED BY <1>1, <3>1
  <2>2. op' = op - 1 /\ pc = "build" /\ pc' = "build" /\ added' = added
    BY <1>4 DEF Translate, input
  <2>3. /\ Increasing(fa) /\ heap = Places(fa)
        /\ Places(fa) = Wanted(op + 1) \ lost /\ lost \subseteq op + 1 .. n
    BY <2>2 DEF Built
  <2>4. op' + 1 = op /\ op .. n = {op} \cup (op + 1 .. n) /\ op \notin op + 1 .. n
    BY <1>1, <2>1, <2>2
  <2>5. Wanted(op) = IF IsDup2(op) THEN {op} \cup Wanted(op + 1) ELSE Wanted(op + 1)
    BY <2>4 DEF Wanted
  <2>6. op \notin Wanted(op + 1) /\ op \notin lost
    BY <2>3, <2>4 DEF Wanted
  <2>7. SUFFICES /\ Increasing(fa') /\ heap' = Places(fa')
                 /\ Places(fa') = Wanted(op) \ lost' /\ lost' \subseteq op .. n
    <3>1. Wanted(op) = {k \in op' + 1 .. Len(added') : added'[k] = "dup2"}
      BY <2>2, <2>4 DEF Wanted, IsDup2
    <3> QED BY <2>2, <2>4, <2>7, <3>1 DEF Built, Wanted, IsDup2, Increasing, Places
  <2>8. CASE IsDup2(op) /\ Link(op) /\ heap' = heap \cup {op} /\ lost' = lost
    <3>1. \A x \in Places(fa) : op < x
      BY <1>1, <2>1, <2>3 DEF Wanted
    <3>2. fa \in Seq(Nat)
      BY <1>1, <2>1
    <3>3. fa' = <<op>> \o fa /\ Increasing(<<op>> \o fa) /\ Places(<<op>> \o fa) = {op} \cup Places(fa)
      BY <1>1, <2>1, <2>3, <2>8, <3>1, <3>2, LinkAtHead DEF Link
    <3> QED BY <2>3, <2>4, <2>5, <2>6, <2>8, <3>3
  <2>9. CASE IsDup2(op) /\ lost' = lost \cup {op} /\ UNCHANGED <<fa, heap>>
    BY <2>3, <2>4, <2>5, <2>6, <2>9
  <2>10. CASE ~IsDup2(op) /\ UNCHANGED <<fa, heap, lost>>
    BY <2>3, <2>4, <2>5, <2>10
  <2> QED BY <1>4, <2>8, <2>9, <2>10 DEF Translate
<1>5. CASE HostCall
  BY <1>5 DEF HostCall, AfterCall, input, Built, Places, Increasing
<1>6. CASE FreeNode
  <2>1. fa \in Seq(1 .. n) /\ fa # << >> /\ Increasing(fa) /\ heap = Places(fa) /\ pc = "free"
    BY <1>6 DEF FreeNode, TypeOK, Built
  <2>2. Increasing(Tail(fa)) /\ Places(Tail(fa)) = Places(fa) \ {Head(fa)}
    BY <1>1, <2>1, TakeHead
  <2> QED BY <1>6, <2>1, <2>2 DEF FreeNode, Built
<1>7. CASE UNCHANGED vars
  BY <1>7 DEF vars, Built, Places, Increasing, Wanted, IsDup2
<1> QED BY <1>2, <1>3, <1>4, <1>5, <1>6, <1>7 DEF Next

(* The count stops at the first NULL, which there is.                      *)
LEMMA CountStep ==
  ASSUME TypeOK, Counted, Stage, [Next]_vars
  PROVE  Counted'
<1>1. /\ Len(exec_argv) \in Nat /\ DOMAIN exec_argv = 1 .. Len(exec_argv) /\ argc \in Nat
      /\ exec_argv # << >> => Len(exec_argv) \in DOMAIN exec_argv /\ exec_argv[Len(exec_argv)] = Null
  BY VectorEnds DEF TypeOK
<1>2. CASE Begin
  <2>1. exec_argv' = exec_argv /\ argc' = argc /\ argc = 0 /\ ret' = "none"
        /\ pc' = IF HasName THEN "count" ELSE "build"
    BY <1>2 DEF Begin, Goto, input, Counted, Stage
  <2>2. CASE HasName
    <3>1. 1 \in DOMAIN exec_argv /\ exec_argv[1] # Null
      BY <1>1, <2>2 DEF HasName
    <3>2. \A i \in 1 .. argc + 1 : i = 1
      BY <2>1
    <3> QED BY <2>1, <2>2, <3>1, <3>2 DEF Counted, Called
  <2>3. CASE ~HasName
    <3>1. ~HasName'
      BY <2>1, <2>3 DEF HasName
    <3> QED BY <2>1, <2>3, <3>1 DEF Counted, Called
  <2> QED BY <2>2, <2>3
<1>3. CASE Count
  <2>1. /\ pc = "count" /\ exec_argv' = exec_argv /\ ret' = "none"
        /\ \A i \in 1 .. argc + 1 : i \in DOMAIN exec_argv /\ exec_argv[i] # Null
    BY <1>3 DEF Count, input, Counted, Stage
  <2>2. HasName /\ argc + 2 \in DOMAIN exec_argv
    <3>1. 1 \in 1 .. argc + 1 /\ argc + 1 \in 1 .. argc + 1
      BY <1>1
    <3>2. 1 \in DOMAIN exec_argv /\ exec_argv[1] # Null /\ argc + 1 \in DOMAIN exec_argv
          /\ exec_argv[argc + 1] # Null
      BY <2>1, <3>1
    <3>3. exec_argv # << >> /\ (argc + 1) + 1 \in DOMAIN exec_argv
      BY <3>2, PlaceBehind DEF TypeOK
    <3>4. (argc + 1) + 1 = argc + 2
      BY <1>1
    <3> QED BY <3>2, <3>3, <3>4 DEF HasName
  <2>3. CASE exec_argv[argc + 2] = Null
    <3>1. pc' = "build" /\ argc' = argc
      BY <1>3, <2>3 DEF Count
    <3>2. FirstNull(argc + 2)
      <4>1. (argc + 2) - 1 = argc + 1
        BY <1>1
      <4> QED BY <2>1, <2>2, <2>3, <4>1 DEF FirstNull
    <3>3. HasName' /\ FirstNull(argc + 2)'
      BY <2>1, <2>2, <3>1, <3>2 DEF HasName, FirstNull
    <3> QED BY <2>1, <3>1, <3>3 DEF Counted, Called
  <2>4. CASE exec_argv[argc + 2] # Null
    <3>1. pc' = "count" /\ argc' = argc + 1
      BY <1>3, <2>1, <2>4 DEF Count
    <3>2. \A i \in 1 .. argc' + 1 : i \in 1 .. argc + 1 \/ i = argc + 2
      BY <1>1, <3>1
    <3>3. \A i \in 1 .. argc' + 1 : i \in DOMAIN exec_argv /\ exec_argv[i] # Null
      BY <2>1, <2>2, <2>4, <3>2
    <3> QED BY <2>1, <3>1, <3>3 DEF Counted, Called
  <2> QED BY <2>3, <2>4
<1>4. CASE \/ Refuse \/ Translate \/ HostCall \/ FreeNode \/ Return \/ UNCHANGED vars
  <2>1. /\ UNCHANGED <<exec_argv, argc>>
        /\ pc' \notin {"begin", "count"} \/ pc' = pc
        /\ pc' = "build" \/ Called' => pc = "build" \/ Called
    <3> USE DEF Goto, input, Called, Stage
    <3>1. CASE Refuse BY <1>4, <3>1 DEF Refuse
    <3>2. CASE Translate BY <1>4, <3>2 DEF Translate
    <3>3. CASE HostCall BY <1>4, <3>3 DEF HostCall, AfterCall
    <3>4. CASE FreeNode BY <1>4, <3>4 DEF FreeNode
    <3>5. CASE Return BY <1>4, <3>5 DEF Return
    <3>6. CASE UNCHANGED vars BY <1>4, <3>6 DEF vars
    <3> QED BY <1>4, <3>1, <3>2, <3>3, <3>4, <3>5, <3>6
  <2>2. HasName' <=> HasName
    BY <2>1 DEF HasName
  <2>3. FirstNull(argc + 2)' <=> FirstNull(argc + 2)
    BY <2>1 DEF FirstNull
  <2>4. pc' = "begin" => argc' = 0
    BY <2>1 DEF Counted
  <2>5. pc' = "count" => \A i \in 1 .. argc' + 1 : i \in DOMAIN exec_argv' /\ exec_argv'[i] # Null
    BY <2>1 DEF Counted
  <2>6. pc' = "build" \/ Called' => IF HasName' THEN FirstNull(argc + 2)' ELSE argc' = 0
    BY <2>1, <2>2, <2>3 DEF Counted
  <2> QED BY <2>4, <2>5, <2>6 DEF Counted
<1> QED BY <1>2, <1>3, <1>4 DEF Next

(* What the host was given is what was built, and is not touched again.    *)
LEMMA RequestStep ==
  ASSUME TypeOK, Built, Stage, RequestInOrder, [Next]_vars
  PROVE  RequestInOrder'
<1> USE DEF RequestInOrder, Called, IsDup2
<1>1. CASE HostCall
  <2>1. /\ request' = fa /\ pc = "build" /\ op = 0 /\ added' = added /\ lost' = lost
    BY <1>1 DEF HostCall, input
  <2>2. Increasing(fa) /\ Places(fa) = Wanted(1) \ lost
    BY <2>1 DEF Built
  <2> QED BY <2>1, <2>2 DEF Increasing, Places, Wanted
<1>2. CASE Refuse BY <1>2 DEF Refuse
<1>3. CASE Begin \/ Count BY <1>3 DEF Begin, Count, Stage, Goto
<1>4. CASE Translate BY <1>4 DEF Translate, Stage
<1>5. CASE FreeNode BY <1>5 DEF FreeNode, input
<1>6. CASE Return BY <1>6 DEF Return, input
<1>7. CASE UNCHANGED vars BY <1>7 DEF vars
<1> QED BY <1>1, <1>2, <1>3, <1>4, <1>5, <1>6, <1>7 DEF Next

LEMMA InitInv == Init => IInv
<1> SUFFICES ASSUME Init PROVE IInv
  OBVIOUS
<1>1. /\ pc = "begin" /\ op = Len(added) /\ ret = "none"
      /\ fa = << >> /\ heap = {} /\ argc = 0 /\ request = << >> /\ lost = {}
  BY DEF Init
<1>2. added \in ActionLists /\ exec_argv \in ArgLists /\ file \in Args \cup {""}
  BY DEF Init
<1>3. Len(added) \in Nat
  BY <1>2, LenAdded
<1>4. TypeOK
  <2>1. op \in 0 .. Len(added)
    BY <1>1, <1>3
  <2>2. \A S : << >> \in Seq(S)
    OBVIOUS
  <2>3. fa \in Seq(1 .. Len(added)) /\ request \in Seq(1 .. Len(added))
    BY <1>1, <2>2
  <2>4. heap \subseteq 1 .. Len(added) /\ lost \subseteq 1 .. Len(added)
    BY <1>1
  <2> QED BY <1>1, <1>2, <2>1, <2>3, <2>4 DEF TypeOK
<1>5. Built
  <2>1. Places(fa) = {} /\ Increasing(fa)
    BY <1>1 DEF Places, Increasing
  <2>2. Len(added) + 1 .. Len(added) = {}
    BY <1>3
  <2>3. Wanted(op + 1) = {}
    BY <1>1, <2>2 DEF Wanted
  <2> QED BY <1>1, <2>1, <2>3 DEF Built
<1>6. Stage /\ Counted /\ RequestInOrder
  BY <1>1 DEF Stage, Counted, Called, RequestInOrder
<1> QED BY <1>4, <1>5, <1>6 DEF IInv

LEMMA StepInv == IInv /\ [Next]_vars => IInv'
  BY TypeStep, BuiltStep, StageStep, CountStep, RequestStep DEF IInv

(* The inductive invariant of posix_spawnp()'s loops.                      *)
THEOREM Invariance == Spec => []IInv
  BY InitInv, StepInv, PTL DEF Spec

(* The host gets every dup2 action, in the order in which it was added.    *)
THEOREM RequestInOrderHolds == Spec => []RequestInOrder
<1>1. IInv => RequestInOrder
  BY DEF IInv
<1> QED BY <1>1, Invariance, PTL

(* The request's list is freed on every path.                              *)
THEOREM NodesFreedHolds == Spec => []NodesFreed
<1>1. IInv => NodesFreed
  BY DEF IInv, Built, NodesFreed, Places
<1> QED BY <1>1, Invariance, PTL

(* The count of the arguments stays in the vector and stops at its first   *)
(* NULL.                                                                   *)
THEOREM ArgumentsCountedHolds == Spec => []ArgumentsCounted
<1>1. ASSUME IInv PROVE ArgumentsCounted
  <2>1. /\ TypeOK /\ Counted /\ argc \in Nat
        /\ Len(exec_argv) \in Nat /\ DOMAIN exec_argv = 1 .. Len(exec_argv)
        /\ exec_argv # << >> => Len(exec_argv) \in DOMAIN exec_argv /\ exec_argv[Len(exec_argv)] = Null
    BY <1>1, VectorEnds DEF IInv, TypeOK
  <2>2. ASSUME pc = "count" PROVE argc + 2 <= Len(exec_argv)
    <3>1. argc + 1 \in 1 .. argc + 1
      BY <2>1
    <3>2. argc + 1 \in DOMAIN exec_argv /\ exec_argv[argc + 1] # Null
      BY <2>1, <2>2, <3>1 DEF Counted
    <3>3. (argc + 1) + 1 <= Len(exec_argv)
      BY <2>1, <3>2, PlaceBehind DEF TypeOK
    <3> QED BY <2>1, <3>3
  <2>3. ASSUME Called
        PROVE  IF exec_argv = << >> \/ FirstNull(1) THEN argc = 0 ELSE FirstNull(argc + 2)
    <3>1. IF HasName THEN FirstNull(argc + 2) ELSE argc = 0
      BY <2>1, <2>3 DEF Counted
    <3>2. CASE HasName
      <4>1. exec_argv # << >> /\ ~FirstNull(1)
        BY <3>2 DEF HasName, FirstNull
      <4> QED BY <3>1, <3>2, <4>1
    <3>3. CASE ~HasName
      <4>1. exec_argv = << >> \/ (1 \in DOMAIN exec_argv /\ exec_argv[1] = Null)
        BY <2>1, <3>3 DEF HasName
      <4>2. exec_argv = << >> \/ FirstNull(1)
        BY <4>1 DEF FirstNull
      <4> QED BY <3>1, <3>3, <4>2
    <3> QED BY <3>2, <3>3
  <2> QED BY <2>2, <2>3 DEF ArgumentsCounted
<1>2. IInv => ArgumentsCounted
  BY <1>1
<1> QED BY <1>2, Invariance, PTL
=============================================================================
