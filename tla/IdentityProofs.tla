--------------------------- MODULE IdentityProofs ---------------------------
(***************************************************************************)
(* Proofs about Identity, for any number of threads and any names, and     *)
(* about SignalSet.                                                        *)
(***************************************************************************)
EXTENDS Identity, SignalSet, TLAPS

USE IdentityAssumption

LEMMA CutType ==
  ASSUME NEW s \in Seq(Chars), NEW size \in Nat
  PROVE  Cut(s, size) \in Seq(Chars)
<1>1. CASE size = 0
  BY <1>1 DEF Cut
<1>2. CASE size # 0
  <2> DEFINE m == IF Len(s) < size THEN Len(s) ELSE size - 1
  <2>1. m \in 0 .. Len(s) /\ Len(s) \in Nat
    BY <1>2
  <2>2. \A j \in 1 .. m : s[j] \in Chars
    BY <2>1
  <2> HIDE DEF m
  <2>3. SubSeq(s, 1, m) \in Seq(Chars)
    BY <2>1, <2>2
  <2> QED BY <1>2, <2>3 DEF Cut, m
<1> QED BY <1>1, <1>2

LEMMA InitInv == Init => IInv
<1> SUFFICES ASSUME Init PROVE IInv
  OBVIOUS
<1>1. << >> \in Seq(Chars) /\ Cut(<< >>, NameSize) = << >>
  BY DEF Cut
<1>2. TypeOK
  BY <1>1 DEF Init, TypeOK
<1> QED BY <1>1, <1>2 DEF Init, IInv, Doubtful, OwnVariables

(* getpid() touches none of the thread-local variables.                    *)
LEMMA PidSteps ==
  ASSUME IInv, NEW t \in Threads, GetPid(t) \/ AskPid(t) \/ StorePid(t) \/ ReturnPid(t)
  PROVE  IInv'
<1>1. TypeOK /\ Doubtful /\ OwnVariables
  BY DEF IInv
<1>2. OwnVariables'
  BY <1>1 DEF OwnVariables, GetPid, AskPid, StorePid, ReturnPid, tlsVars
<1>3. TypeOK'
  BY <1>1 DEF TypeOK, GetPid, AskPid, StorePid, ReturnPid, tlsVars
<1>4. Doubtful'
  <2>1. CASE GetPid(t)
    <3>1. /\ g_pid' = g_pid /\ pc'[t] \in {"return", "ask"} /\ tmp'[t] = g_pid
          /\ pc'[t] = "return" => g_pid # 0
          /\ doubt'[t] = \E u \in Threads : pc[u] = "store" /\ tmp[u] = 0
          /\ \A u \in Threads \ {t} : pc'[u] = pc[u] /\ tmp'[u] = tmp[u] /\ doubt'[u] = doubt[u]
      BY <1>1, <2>1 DEF GetPid, Cached, TypeOK
    <3>2. \A u \in Threads : pc'[u] = "store" => u # t /\ pc[u] = "store"
      BY <3>1
    <3>3. (\E u \in Threads : pc'[u] = "store" /\ tmp'[u] = 0) =>
            /\ \E u \in Threads : pc[u] = "store" /\ tmp[u] = 0
            /\ \A u \in Threads : pc'[u] # "idle" => doubt'[u]
      <4>1. SUFFICES ASSUME NEW v \in Threads, pc'[v] = "store", tmp'[v] = 0
                     PROVE  /\ \E u \in Threads : pc[u] = "store" /\ tmp[u] = 0
                            /\ \A u \in Threads : pc'[u] # "idle" => doubt'[u]
        OBVIOUS
      <4>2. pc[v] = "store" /\ tmp[v] = 0
        BY <3>1, <3>2, <4>1
      <4>3. ASSUME NEW u \in Threads, pc'[u] # "idle" PROVE doubt'[u]
        <5>1. CASE u = t
          BY <3>1, <4>2, <5>1
        <5>2. CASE u # t
          BY <1>1, <3>1, <4>2, <4>3, <5>2 DEF Doubtful
        <5> QED BY <5>1, <5>2
      <4> QED BY <4>2, <4>3
    <3>4. ASSUME NEW u \in Threads, pc'[u] = "return", ~doubt'[u]
          PROVE  g_pid' = Pid /\ tmp'[u] = Pid
      <4>1. CASE u # t
        BY <1>1, <3>1, <3>4, <4>1 DEF Doubtful
      <4>2. CASE u = t
        BY <1>1, <3>1, <3>4, <4>2 DEF Doubtful, TypeOK
      <4> QED BY <4>1, <4>2
    <3> QED BY <3>3, <3>4 DEF Doubtful
  <2>2. CASE AskPid(t)
    <3>1. /\ g_pid' = g_pid /\ pc'[t] = "store" /\ pc[t] = "ask"
          /\ \A u \in Threads \ {t} : pc'[u] = pc[u] /\ tmp'[u] = tmp[u]
      BY <1>1, <2>2 DEF AskPid, TypeOK
    <3>2. CASE tmp'[t] = Pid /\ UNCHANGED doubt
      BY <1>1, <3>1, <3>2 DEF Doubtful, TypeOK
    <3>3. CASE doubt' = [u \in Threads |-> doubt[u] \/ u = t \/ pc[u] # "idle"]
      BY <1>1, <3>1, <3>3 DEF Doubtful, TypeOK
    <3> QED BY <1>1, <2>2, <3>2, <3>3 DEF AskPid, TypeOK
  <2>3. CASE StorePid(t)
    <3>1. /\ g_pid' = tmp[t] /\ pc'[t] = "return" /\ pc[t] = "store" /\ tmp' = tmp /\ doubt' = doubt
          /\ \A u \in Threads \ {t} : pc'[u] = pc[u]
      BY <1>1, <2>3 DEF StorePid, TypeOK
    <3> QED BY <1>1, <3>1 DEF Doubtful, TypeOK
  <2>4. CASE ReturnPid(t)
    <3>1. /\ g_pid' = g_pid /\ pc'[t] = "idle" /\ doubt' = doubt
          /\ \A u \in Threads \ {t} : pc'[u] = pc[u] /\ tmp'[u] = tmp[u]
      BY <1>1, <2>4 DEF ReturnPid, TypeOK
    <3> QED BY <1>1, <3>1 DEF Doubtful, TypeOK
  <2> QED BY <2>1, <2>2, <2>3, <2>4
<1> QED BY <1>2, <1>3, <1>4 DEF IInv

(* The other calls touch none of getpid()'s.                               *)
LEMMA OwnSteps ==
  ASSUME IInv, NEW t \in Threads,
         \/ GetTid(t) \/ Restart(t) \/ \E n \in Names : SetName(t, n)
         \/ \E len \in Lengths : GetName(t, len) \/ GetHostName(t, len)
  PROVE  IInv'
<1>1. TypeOK /\ Doubtful /\ OwnVariables /\ UNCHANGED pidVars
  BY DEF IInv, GetTid, Restart, SetName, GetName, GetHostName
<1>2. Doubtful'
  BY <1>1 DEF Doubtful, pidVars
<1>3. CASE GetTid(t)
  BY <1>1, <1>2, <1>3 DEF GetTid, TidOf, IInv, TypeOK, OwnVariables, pidVars
<1>4. CASE Restart(t)
  <2>1. << >> \in Seq(Chars) /\ Cut(<< >>, NameSize) = << >>
    BY DEF Cut
  <2> QED BY <1>1, <1>2, <1>4, <2>1 DEF Restart, IInv, TypeOK, OwnVariables, pidVars
<1>5. ASSUME NEW n \in Names, SetName(t, n) PROVE IInv'
  <2>1. Cut(n, NameSize) \in Seq(Chars) /\ n \in Seq(Chars)
    BY CutType
  <2>2. /\ name'[t] = Cut(n, NameSize) /\ named'[t] = n /\ tid' = tid /\ host' = host
        /\ name' \in [Threads -> Seq(Chars)] /\ named' \in [Threads -> Seq(Chars)]
        /\ \A u \in Threads \ {t} : name'[u] = name[u] /\ named'[u] = named[u]
    BY <1>1, <1>5, <2>1 DEF SetName, NameOf, TypeOK
  <2> QED BY <1>1, <1>2, <2>2 DEF IInv, TypeOK, OwnVariables, pidVars
<1>6. CASE \E len \in Lengths : GetName(t, len) \/ GetHostName(t, len)
  BY <1>1, <1>2, <1>6 DEF GetName, GetHostName, tlsVars, pidVars, IInv, TypeOK, OwnVariables
<1> QED BY <1>3, <1>4, <1>5, <1>6

LEMMA NextInv == IInv /\ [Next]_vars => IInv'
<1>1. IInv /\ UNCHANGED vars => IInv'
  BY DEF vars, IInv, TypeOK, Doubtful, OwnVariables
<1> QED BY <1>1, PidSteps, OwnSteps DEF Next

THEOREM Invariance == Spec => []IInv
  BY InitInv, NextInv, PTL DEF Spec

(* The variables that calls read keep their types.                         *)
THEOREM TypeCorrect == Spec => []TypeOK
<1>1. IInv => TypeOK
  BY DEF IInv
<1> QED BY <1>1, Invariance, PTL

(* What the last answer is: each step answers its own call or none.        *)
LEMMA Answers ==
  ASSUME IInv, Next
  PROVE  \/ last'.by = "none"
         \/ \E t \in Threads : last'.by = "getpid" /\ last'.thread = t /\ pc[t] = "return"
              /\ last'.value \in {g_pid, tmp[t]} /\ doubt' = doubt
         \/ \E t \in Threads : last'.by = "gettid" /\ last'.thread = t
              /\ last'.value \in {0, host[t]} /\ host' = host
         \/ \E t \in Threads, len \in Lengths :
              last'.by = "getname" /\ last'.thread = t /\ last'.value = len
              /\ last'.whole = Cut(name[t], len) /\ named' = named
         \/ \E t \in Threads, len \in Lengths :
              /\ last'.by = "gethostname"
              /\ \/ last'.whole = << >> /\ last'.value = 0
                 \/ /\ last'.whole = SubSeq(Append(Node, NUL), 1, IF len < NodeLen THEN len ELSE NodeLen)
                    /\ last'.value = IF NodeLen > len THEN 0 ELSE 1
<1>1. PICK t \in Threads :
        \/ GetPid(t) \/ AskPid(t) \/ StorePid(t) \/ ReturnPid(t)
        \/ GetTid(t) \/ Restart(t)
        \/ \E n \in Names : SetName(t, n)
        \/ \E len \in Lengths : GetName(t, len) \/ GetHostName(t, len)
  BY DEF Next
<1>2. CASE last' = Nothing
  BY <1>2 DEF Nothing
<1>3. CASE ReturnPid(t)
  <2>1. PICK v \in {g_pid, tmp[t]} :
          last' = [Nothing EXCEPT !.by = "getpid", !.thread = t, !.value = v]
    BY <1>3 DEF ReturnPid
  <2>2. last'.by = "getpid" /\ last'.thread = t /\ last'.value = v
    BY <2>1 DEF Nothing
  <2> QED BY <1>3, <2>2 DEF ReturnPid
<1>4. CASE GetTid(t)
  <2>1. tid[t] \in {0, host[t]}
    BY DEF IInv, OwnVariables
  <2>2. PICK answer \in {0, host[t]} :
          last' = [Nothing EXCEPT !.by = "gettid", !.thread = t, !.value = answer]
    BY <1>4, <2>1 DEF GetTid, TidOf
  <2>3. last'.by = "gettid" /\ last'.thread = t /\ last'.value = answer
    BY <2>2 DEF Nothing
  <2> QED BY <1>4, <2>3 DEF GetTid
<1>5. ASSUME NEW len \in Lengths, GetName(t, len)
      PROVE  last'.by = "getname" /\ last'.thread = t /\ last'.value = len
             /\ last'.whole = Cut(name[t], len) /\ named' = named
  BY <1>5 DEF GetName, NameOf, Nothing, tlsVars
<1>6. ASSUME NEW len \in Lengths, GetHostName(t, len)
      PROVE  /\ last'.by = "gethostname"
             /\ \/ last'.whole = << >> /\ last'.value = 0
                \/ /\ last'.whole = SubSeq(Append(Node, NUL), 1, IF len < NodeLen THEN len ELSE NodeLen)
                   /\ last'.value = IF NodeLen > len THEN 0 ELSE 1
  BY <1>6 DEF GetHostName, Nothing
<1> QED BY <1>1, <1>2, <1>3, <1>4, <1>5, <1>6 DEF GetPid, AskPid, StorePid, Restart, SetName

(* getpid() gives the process's number, or 0 because of a failure while it *)
(* ran.                                                                    *)
THEOREM PidRightHolds == Spec => []PidRight
<1>1. Init => PidRight
  BY DEF Init, PidRight, Nothing
<1>2. IInv /\ PidRight /\ [Next]_vars => PidRight'
  <2>1. ASSUME IInv, NEW t \in Threads, pc[t] = "return" PROVE
          \A v \in {g_pid, tmp[t]} : v = Pid \/ (v = 0 /\ doubt[t])
    BY <2>1 DEF IInv, Doubtful, TypeOK
  <2>2. ASSUME IInv, Next PROVE PidRight'
    BY <2>1, <2>2, Answers DEF PidRight
  <2>3. ASSUME PidRight, UNCHANGED vars PROVE PidRight'
    BY <2>3 DEF PidRight, vars
  <2> QED BY <2>2, <2>3
<1> QED BY Invariance, <1>1, <1>2, PTL DEF Spec

(* Nobody is told another thread's number.                                 *)
THEOREM OwnTidHolds == Spec => []OwnTid
<1>1. Init => OwnTid
  BY DEF Init, OwnTid, Nothing
<1>2. IInv /\ OwnTid /\ [Next]_vars => OwnTid'
  <2>1. ASSUME IInv, Next PROVE OwnTid'
    BY <2>1, Answers DEF OwnTid
  <2>2. ASSUME OwnTid, UNCHANGED vars PROVE OwnTid'
    BY <2>2 DEF OwnTid, vars
  <2> QED BY <2>1, <2>2
<1> QED BY Invariance, <1>1, <1>2, PTL DEF Spec

(* Nobody reads another thread's name.                                     *)
THEOREM OwnNameHolds == Spec => []OwnName
<1>1. Init => OwnName
  BY DEF Init, OwnName, Nothing
<1>2. IInv /\ OwnName /\ [Next]_vars => OwnName'
  <2>1. ASSUME IInv, Next PROVE OwnName'
    <3>1. \A t \in Threads : name[t] = Cut(named[t], NameSize)
      BY <2>1 DEF IInv, OwnVariables
    <3> QED BY <2>1, <3>1, Answers DEF OwnName
  <2>2. ASSUME OwnName, UNCHANGED vars PROVE OwnName'
    BY <2>2 DEF OwnName, vars
  <2> QED BY <2>1, <2>2
<1> QED BY Invariance, <1>1, <1>2, PTL DEF Spec

(* gethostname() succeeds exactly with the whole name.                     *)
LEMMA WholeOrShort ==
  ASSUME NEW len \in Nat
  PROVE  SubSeq(Append(Node, NUL), 1, IF len < NodeLen THEN len ELSE NodeLen) = Append(Node, NUL)
           <=> ~(NodeLen > len)
<1> DEFINE s == Append(Node, NUL)
<1>1. s \in Seq(Chars \cup {NUL}) /\ Len(s) = NodeLen /\ NodeLen \in Nat
  BY DEF NodeLen
<1> HIDE DEF s
<1>2. CASE len < NodeLen
  <2>1. Len(SubSeq(s, 1, len)) = len
    BY <1>1, <1>2
  <2> QED BY <1>1, <1>2, <2>1 DEF s
<1>3. CASE ~(len < NodeLen)
  <2>1. SubSeq(s, 1, Len(s)) = s
    BY <1>1
  <2> QED BY <1>1, <1>3, <2>1 DEF s
<1> QED BY <1>2, <1>3

THEOREM HostNameWholeHolds == Spec => []HostNameWhole
<1>1. Init => HostNameWhole
  BY DEF Init, HostNameWhole, Nothing
<1>2. IInv /\ HostNameWhole /\ [Next]_vars => HostNameWhole'
  <2>1. ASSUME IInv, Next PROVE HostNameWhole'
    <3> SUFFICES ASSUME last'.by = "gethostname"
                 PROVE  (last'.value = 1 <=> last'.whole = Append(Node, NUL))
      BY DEF HostNameWhole
    <3>1. PICK len \in Lengths :
            \/ last'.whole = << >> /\ last'.value = 0
            \/ /\ last'.whole = SubSeq(Append(Node, NUL), 1, IF len < NodeLen THEN len ELSE NodeLen)
               /\ last'.value = IF NodeLen > len THEN 0 ELSE 1
      BY <2>1, Answers
    <3>2. len \in Nat
      BY IdentityAssumption
    <3>3. CASE last'.whole = << >> /\ last'.value = 0
      <4>1. Len(Append(Node, NUL)) # Len(<< >>)
        BY IdentityAssumption
      <4> QED BY <3>3, <4>1
    <3>4. CASE /\ last'.whole = SubSeq(Append(Node, NUL), 1, IF len < NodeLen THEN len ELSE NodeLen)
               /\ last'.value = IF NodeLen > len THEN 0 ELSE 1
      <4>1. last'.value = 1 <=> ~(NodeLen > len)
        BY <3>4
      <4> QED BY <3>2, <3>4, <4>1, WholeOrShort
    <3> QED BY <3>1, <3>3, <3>4
  <2>2. ASSUME HostNameWhole, UNCHANGED vars PROVE HostNameWhole'
    BY <2>2 DEF HostNameWhole, vars
  <2> QED BY <2>1, <2>2
<1> QED BY Invariance, <1>1, <1>2, PTL DEF Spec

-----------------------------------------------------------------------------
(* Signal sets are a component of their own, which shares no variable with *)
(* Identity; its theorem is here because both are what a process can ask   *)
(* about itself.                                                           *)
USE SignalSetAssumption

(* A word that has lost nothing holds the bits, within its reach, of the   *)
(* signals put into it, and one that has gained nothing holds no other.    *)
Holds(s) ==
  /\ s \notin lost => \A b \in 0 .. Word - 1 : b + 1 \in asked[s] => b \in word[s]
  /\ s \notin gained => \A b \in word[s] : b + 1 \in asked[s]

SigInv ==
  /\ word \in [Sets -> SUBSET (0 .. Word - 1)]
  /\ asked \in [Sets -> SUBSET (Nat \ {0})]
  /\ \A s \in Sets : Holds(s)

(* A call changes one set, and is right if that one is.                    *)
LEMMA OneSet ==
  ASSUME SigInv, NEW s \in Sets, NEW bits \in SUBSET (0 .. Word - 1),
         NEW signals \in SUBSET (Nat \ {0}),
         word' = [word EXCEPT ![s] = bits], asked' = [asked EXCEPT ![s] = signals],
         \A u \in Sets \ {s} : (u \in lost' <=> u \in lost) /\ (u \in gained' <=> u \in gained),
         s \notin lost' => \A b \in 0 .. Word - 1 : b + 1 \in signals => b \in bits,
         s \notin gained' => \A b \in bits : b + 1 \in signals
  PROVE  SigInv'
<1>1. /\ word' \in [Sets -> SUBSET (0 .. Word - 1)]
      /\ asked' \in [Sets -> SUBSET (Nat \ {0})]
      /\ word'[s] = bits /\ asked'[s] = signals
      /\ \A u \in Sets \ {s} : word'[u] = word[u] /\ asked'[u] = asked[u]
  BY DEF SigInv
<1>2. Holds(s)'
  BY <1>1 DEF Holds
<1>3. ASSUME NEW u \in Sets \ {s} PROVE Holds(u)'
  <2>1. Holds(u)
    BY DEF SigInv
  <2> QED BY <1>1, <2>1 DEF Holds
<1> QED BY <1>1, <1>2, <1>3 DEF SigInv

LEMMA FreshKeeps ==
  ASSUME SigInv, NEW s \in Sets, NEW bits \in SUBSET (0 .. Word - 1),
         NEW signals \in SUBSET (Nat \ {0}),
         \A b \in 0 .. Word - 1 : b + 1 \in signals <=> b \in bits,
         Fresh(s, bits, signals)
  PROVE  SigInv'
  BY OneSet DEF Fresh

(* A signal that the shift reaches is one bit.                             *)
LEMMA MaskOf ==
  ASSUME NEW n \in Nat \ {0}, NEW mask \in Masks(n)
  PROVE  n <= UInt => mask = {n - 1}
  BY DEF Masks, BitOf

LEMMA SigStep ==
  ASSUME SigInv, [SigNext]_sigVars
  PROVE  SigInv'
<1>1. ASSUME NEW s \in Sets, SigEmptySet(s) \/ SigMask(s) PROVE SigInv'
  <2>1. Fresh(s, {}, {})
    BY <1>1 DEF SigEmptySet, SigMask
  <2> QED BY <2>1, FreshKeeps
<1>2. ASSUME NEW s \in Sets, SigFillSet(s) PROVE SigInv'
  <2>1. Fresh(s, 0 .. Word - 1, 1 .. Word)
    BY <1>2 DEF SigFillSet, Bits
  <2>2. /\ 0 .. Word - 1 \in SUBSET (0 .. Word - 1) /\ 1 .. Word \in SUBSET (Nat \ {0})
        /\ \A b \in 0 .. Word - 1 : b + 1 \in 1 .. Word <=> b \in 0 .. Word - 1
    OBVIOUS
  <2> QED BY <2>1, <2>2, FreshKeeps
<1>3. ASSUME NEW s \in Sets, NEW n \in Signals, SigAddSet(s, n) PROVE SigInv'
  <2>1. n \in Nat \ {0}
    BY <1>3 DEF SigAddSet
  <2>2. PICK mask \in Masks(n) :
          word' = [word EXCEPT ![s] = (word[s] \cup mask) \cap (0 .. Word - 1)]
    BY <1>3 DEF SigAddSet, Bits
  <2> DEFINE bits == (word[s] \cup mask) \cap (0 .. Word - 1)
             signals == asked[s] \cup {n}
  <2>3. /\ asked' = [asked EXCEPT ![s] = signals] /\ lost' = lost
        /\ gained' = gained \cup IF n > UInt THEN {s} ELSE {}
    BY <1>3 DEF SigAddSet, Beyond
  <2>4. bits \in SUBSET (0 .. Word - 1) /\ signals \in SUBSET (Nat \ {0})
    BY <2>1 DEF SigInv
  <2>5. Holds(s) /\ (n <= UInt => mask = {n - 1})
    BY <2>1, <2>2, MaskOf DEF SigInv
  <2>6. ASSUME s \notin lost', NEW b \in 0 .. Word - 1, b + 1 \in signals
        PROVE  b \in bits
    <3>1. CASE b + 1 \in asked[s]
      BY <2>3, <2>5, <2>6, <3>1 DEF Holds
    <3>2. CASE b + 1 = n
      <4>1. b = n - 1 /\ n <= UInt
        BY <2>1, <3>2
      <4> QED BY <2>5, <4>1
    <3> QED BY <2>6, <3>1, <3>2
  <2>7. ASSUME s \notin gained', NEW b \in bits PROVE b + 1 \in signals
    <3>1. s \notin gained /\ n <= UInt
      BY <2>1, <2>3, <2>7
    <3>2. CASE b \in word[s]
      BY <2>5, <3>1, <3>2 DEF Holds
    <3>3. CASE b = n - 1
      BY <2>1, <3>3
    <3> QED BY <2>5, <3>1, <3>2, <3>3
  <2> HIDE DEF bits, signals
  <2> QED BY <2>2, <2>3, <2>4, <2>6, <2>7, OneSet DEF bits
<1>4. ASSUME NEW s \in Sets, NEW n \in Signals, SigDelSet(s, n) PROVE SigInv'
  <2>1. n \in Nat \ {0}
    BY <1>4 DEF SigDelSet
  <2>2. PICK mask \in Masks(n) : word' = [word EXCEPT ![s] = word[s] \ mask]
    BY <1>4 DEF SigDelSet
  <2> DEFINE bits == word[s] \ mask
             signals == asked[s] \ {n}
  <2>3. /\ asked' = [asked EXCEPT ![s] = signals] /\ gained' = gained
        /\ lost' = lost \cup IF n > UInt THEN {s} ELSE {}
    BY <1>4 DEF SigDelSet, Beyond
  <2>4. bits \in SUBSET (0 .. Word - 1) /\ signals \in SUBSET (Nat \ {0})
    BY DEF SigInv
  <2>5. Holds(s) /\ (n <= UInt => mask = {n - 1})
    BY <2>1, <2>2, MaskOf DEF SigInv
  <2>6. ASSUME s \notin lost', NEW b \in 0 .. Word - 1, b + 1 \in signals
        PROVE  b \in bits
    <3>1. s \notin lost /\ n <= UInt
      BY <2>1, <2>3, <2>6
    <3>2. b \in word[s]
      BY <2>5, <2>6, <3>1 DEF Holds
    <3>3. b # n - 1
      BY <2>1, <2>6
    <3> QED BY <2>5, <3>1, <3>2, <3>3
  <2>7. ASSUME s \notin gained', NEW b \in bits PROVE b + 1 \in signals
    <3>1. b + 1 \in asked[s]
      BY <2>3, <2>5, <2>7 DEF Holds
    <3>2. CASE n <= UInt
      <4>1. b \in 0 .. Word - 1 /\ b # n - 1
        BY <2>4, <2>5, <3>2
      <4> QED BY <2>1, <3>1, <4>1
    <3>3. CASE n > UInt
      <4>1. b \in 0 .. Word - 1
        BY <2>4
      <4>2. b + 1 # n
        BY <2>1, <3>3, <4>1
      <4> QED BY <3>1, <4>2
    <3> QED BY <2>1, <3>2, <3>3
  <2> HIDE DEF bits, signals
  <2> QED BY <2>2, <2>3, <2>4, <2>6, <2>7, OneSet DEF bits
<1>5. CASE UNCHANGED sigVars
  BY <1>5 DEF sigVars, SigInv, Holds
<1> QED BY <1>1, <1>2, <1>3, <1>4, <1>5 DEF SigNext

LEMMA SigMembers ==
  ASSUME SigInv
  PROVE  MembersAsAsked
<1> SUFFICES ASSUME NEW s \in Sets, NEW n \in 1 .. UInt
             PROVE  /\ s \notin lost /\ n \in asked[s] /\ n <= Word => SigIsMember(s, n)
                    /\ s \notin gained /\ SigIsMember(s, n) => n \in asked[s] /\ n <= Word
  BY DEF MembersAsAsked
<1>1. Holds(s) /\ word[s] \in SUBSET (0 .. Word - 1)
  BY DEF SigInv
<1>2. SigIsMember(s, n) <=> n - 1 \in word[s]
  <2>1. Masks(n) = {{n - 1}}
    BY DEF Masks, BitOf
  <2> QED BY <2>1 DEF SigIsMember
<1>3. (n - 1) + 1 = n /\ (n - 1 \in 0 .. Word - 1 <=> n <= Word)
  OBVIOUS
<1> QED BY <1>1, <1>2, <1>3 DEF Holds

(* A signal in the reach of the shift is in a set that was asked for it    *)
(* and of no other, whatever the widths of sigset_t and of unsigned int    *)
(* are, as long as the one is not wider than the other, and also after     *)
(* calls with numbers beyond the shift, which may err on one side only: an *)
(* addition never takes a signal away, a deletion never brings one.        *)
THEOREM MembersAsAskedHolds == SigSpec => []MembersAsAsked
<1>1. SigInit => SigInv
  BY DEF SigInit, Bits, SigInv, Holds
<1>2. SigInv /\ [SigNext]_sigVars => SigInv'
  BY SigStep
<1>3. SigInv => MembersAsAsked
  BY SigMembers
<1> QED BY <1>1, <1>2, <1>3, PTL DEF SigSpec
=============================================================================
