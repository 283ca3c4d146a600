------------------------- MODULE SplitCmdlineProofs -------------------------
(***************************************************************************)
(* Proofs about SplitCmdline, for command lines and arguments of any       *)
(* length.  First induction over numbers, from the library's fact that     *)
(* inclusion of finite sets is well-founded; then what keeps the loop      *)
(* within its allocations; then what its result is.                        *)
(***************************************************************************)
EXTENDS SplitCmdline, Integers, TLAPS, WellFoundedInduction, FiniteSetTheorems,
        SequenceTheorems

-----------------------------------------------------------------------------
(* A nonempty set of numbers has a least one: of the intervals from 0 to   *)
(* its elements, all finite, one has none of the others inside.            *)
LEMMA Least == ASSUME NEW S \in SUBSET Nat, S # {} PROVE \E n \in S : \A m \in S : n <= m
<1> DEFINE Initial == {0 .. n : n \in S}
<1>1. Initial \subseteq FiniteSubsetsOf(Nat) /\ Initial # {}
  <2>1. ASSUME NEW n \in S PROVE 0 .. n \in FiniteSubsetsOf(Nat)
    <3>1. IsFiniteSet(0 .. n)
      BY FS_Interval
    <3> QED BY <3>1 DEF FiniteSubsetsOf
  <2> QED BY <2>1
<1>2. IsWellFoundedOn(StrictSubsetOrdering(Nat), FiniteSubsetsOf(Nat))
  BY FS_StrictSubsetOrderingWellFounded
<1>3. PICK x \in Initial : \A y \in Initial : ~(<<y, x>> \in StrictSubsetOrdering(Nat))
  <2> HIDE DEF Initial
  <2> QED BY <1>1, <1>2, WFMin
<1>4. PICK n \in S : x = 0 .. n
  BY <1>3
<1>5. ASSUME NEW m \in S, m < n PROVE FALSE
  <2>1. 0 .. m \in Initial /\ 0 .. m \subseteq 0 .. n /\ n \in 0 .. n /\ n \notin 0 .. m
    BY <1>5
  <2>2. <<0 .. m, 0 .. n>> \in StrictSubsetOrdering(Nat)
    BY <2>1 DEF StrictSubsetOrdering
  <2> QED BY <1>3, <1>4, <2>1, <2>2
<1> QED BY <1>5

(* Induction up to n: a set that holds 0 and, with every number, the next. *)
LEMMA UpTo ==
  ASSUME NEW n \in Nat, NEW S, 0 \in S, \A i \in 1 .. n : i - 1 \in S => i \in S
  PROVE  0 .. n \subseteq S
<1> SUFFICES ASSUME (0 .. n) \ S # {} PROVE FALSE
  OBVIOUS
<1>1. (0 .. n) \ S \in SUBSET Nat
  OBVIOUS
<1>2. PICK i \in (0 .. n) \ S : \A m \in (0 .. n) \ S : i <= m
  BY <1>1, Least
<1>3. i \in 1 .. n /\ i - 1 \in S
  BY <1>2
<1> QED BY <1>2, <1>3

(* Recursion: from x0, by the n given steps, a function is reached.        *)
Steps(n, X) == [1 .. n -> [X -> X]]
Follows(f, n, X, x0, step) ==
  f \in [0 .. n -> X] /\ f[0] = x0 /\ \A i \in 1 .. n : f[i] = step[i][f[i - 1]]

LEMMA RecursionExists ==
  ASSUME NEW n \in Nat, NEW X, NEW x0 \in X, NEW step \in Steps(n, X)
  PROVE  \E f : Follows(f, n, X, x0, step)
<1> DEFINE Reaches(k, f) == f \in [0 .. k -> X] /\ f[0] = x0
                            /\ \A i \in 1 .. k : f[i] = step[i][f[i - 1]]
           S == {k \in 0 .. n : \E f : Reaches(k, f)}
<1>1. 0 \in S
  <2> DEFINE f == [i \in 0 .. 0 |-> x0]
  <2>1. Reaches(0, f)
    OBVIOUS
  <2> HIDE DEF Reaches, f
  <2> QED BY <2>1
<1>2. ASSUME NEW k \in 1 .. n, k - 1 \in S PROVE k \in S
  <2>1. PICK f : Reaches(k - 1, f)
    BY <1>2
  <2> DEFINE g == [i \in 0 .. k |-> IF i = k THEN step[k][f[k - 1]] ELSE f[i]]
  <2>2. f[k - 1] \in X /\ step[k][f[k - 1]] \in X
    BY <2>1 DEF Steps
  <2>3. \A i \in 0 .. k : i = k \/ i \in 0 .. k - 1
    OBVIOUS
  <2>4. g \in [0 .. k -> X] /\ g[0] = x0
    BY <2>1, <2>2, <2>3
  <2>5. ASSUME NEW i \in 1 .. k PROVE g[i] = step[i][g[i - 1]]
    BY <2>1
  <2>6. Reaches(k, g)
    BY <2>4, <2>5
  <2> HIDE DEF Reaches, g
  <2> QED BY <2>6
<1> HIDE DEF S
<1>3. 0 .. n \subseteq S
  BY <1>1, <1>2, UpTo
<1>4. n \in S
  BY <1>3
<1> QED BY <1>4 DEF S, Follows

(* A function that takes these steps as long as it stays within X, takes   *)
(* them all.                                                               *)
LEMMA RecursionFollows ==
  ASSUME NEW n \in Nat, NEW X, NEW x0 \in X, NEW step \in Steps(n, X), NEW f,
         f = [i \in 0 .. n |-> f[i]], f[0] = x0,
         \A i \in 1 .. n : f[i - 1] \in X => f[i] = step[i][f[i - 1]]
  PROVE  Follows(f, n, X, x0, step)
<1> DEFINE Ok == {i \in 0 .. n : f[i] \in X}
<1>1. 0 \in Ok
  OBVIOUS
<1>2. ASSUME NEW i \in 1 .. n, i - 1 \in Ok PROVE i \in Ok
  <2>1. f[i - 1] \in X /\ f[i] = step[i][f[i - 1]]
    BY <1>2
  <2>2. step[i] \in [X -> X]
    BY DEF Steps
  <2> QED BY <2>1, <2>2
<1>3. 0 .. n \subseteq Ok
  <2> HIDE DEF Ok
  <2> QED BY <1>1, <1>2, UpTo
<1>4. \A i \in 1 .. n : i - 1 \in 0 .. n
  OBVIOUS
<1> QED BY <1>3, <1>4 DEF Follows

-----------------------------------------------------------------------------
(* The loop within its allocations.                                        *)

USE SplitAssumption

Inv == TypeOK /\ InBounds /\ Blocks /\ NoEmptyArgument

LEMMA InitInv == Init => Inv
<1> SUFFICES ASSUME Init PROVE Inv
  OBVIOUS
<1>1. cmd \in Seq(Char) /\ Len(cmd) \in Nat
  BY DEF Init
<1>2. buf \in Seq(Char) /\ argv \in Seq(Seq(Char) \cup {Null}) /\ Len(buf) = 0 /\ Len(argv) = 0
  BY DEF Init
<1>3. cur_pos \in 0 .. Len(cmd)
  BY <1>1 DEF Init
<1>4. heap \subseteq BlockSet /\ place \in Nat
  BY DEF Init, BlockSet, First
<1>5. TypeOK
  BY <1>2, <1>3, <1>4 DEF Init, TypeOK
<1> QED BY <1>2, <1>5 DEF Init, Inv, InBounds, Blocks, NoEmptyArgument

(* A number strictly between two neighbouring multiples of 5 is none.      *)
LEMMA BetweenMultiples ==
  ASSUME NEW n \in Nat, NEW k \in Nat, 5 * k < n, n < 5 * k + 5
  PROVE  n % 5 # 0
<1>1. PICK j \in 1 .. 4 : n = 5 * k + j
  <2>1. n - 5 * k \in 1 .. 4 /\ n = 5 * k + (n - 5 * k)
    OBVIOUS
  <2> QED BY <2>1
<1>2. (5 * k + 1) % 5 = 1 /\ (5 * k + 2) % 5 = 2
  OBVIOUS
<1>3. (5 * k + 3) % 5 = 3 /\ (5 * k + 4) % 5 = 4
  OBVIOUS
<1> QED BY <1>1, <1>2, <1>3

(* The character at the loop's index is one of the command line's.         *)
LEMMA CurrentChar ==
  ASSUME TypeOK, cur_pos < Len(cmd)
  PROVE  c \in Char /\ Append(buf, c) \in Seq(Char) /\ Len(Append(buf, c)) = Len(buf) + 1
  BY DEF TypeOK, c

(* What __process_add_arg() does: nothing, or one argument more.           *)
LEMMA AddArgDoes ==
  ASSUME buf \in Seq(Char), NEW rest, AddArg(rest)
  PROVE  \/ buf = << >> /\ UNCHANGED <<argv, slots>> /\ heap' = rest
         \/ /\ buf # << >> /\ slots' = SlotsFor(Len(argv), 1)
            /\ \E arg \in {buf, Null} :
                 /\ argv' = Append(argv, arg)
                 /\ heap' = rest \cup {Array}
                             \cup (IF arg = Null THEN {} ELSE {String(Len(argv) + 1)})
<1>1. CASE buf = << >>
  BY <1>1 DEF AddArg, AddNone
<1>2. CASE buf # << >>
  <2>1. AddAnd(1, rest)
    BY <1>2 DEF AddArg
  <2>2. buf # Null
    OBVIOUS
  <2>3. CASE argv' = Append(argv, buf) /\ heap' = rest \cup {Array, String(Len(argv) + 1)}
    <3>1. heap' = rest \cup {Array} \cup {String(Len(argv) + 1)}
      BY <2>3
    <3> QED BY <1>2, <2>1, <2>2, <2>3, <3>1 DEF AddAnd
  <2>4. CASE argv' = Append(argv, Null) /\ heap' = rest \cup {Array}
    BY <1>2, <2>1, <2>4 DEF AddAnd
  <2> QED BY <2>1, <2>3, <2>4 DEF AddAnd
<1> QED BY <1>1, <1>2

(* __process_add_arg() keeps argv within its allocation, and its arguments *)
(* nonempty.                                                               *)
LEMMA AddArgInv ==
  ASSUME Inv, NEW rest \in SUBSET BlockSet, AddArg(rest)
  PROVE  /\ argv' \in Seq(Seq(Char) \cup {Null}) /\ slots' \in Nat
         /\ heap' \subseteq BlockSet
         /\ argv' # << >> => Len(argv') < slots'
         /\ Blocks' /\ NoEmptyArgument'
<1>0. buf \in Seq(Char) /\ Len(argv) \in Nat
  BY DEF Inv, TypeOK
<1>1. CASE UNCHANGED <<argv, slots>> /\ heap' = rest
  BY <1>1 DEF Inv, TypeOK, InBounds, Blocks, NoEmptyArgument
<1>2. CASE buf # << >>
  <2>1. PICK arg \in {buf, Null} :
          /\ argv' = Append(argv, arg) /\ slots' = SlotsFor(Len(argv), 1)
          /\ heap' \subseteq rest \cup {Array, String(Len(argv) + 1)}
    BY <1>0, <1>2, AddArgDoes
  <2>7. heap' \subseteq BlockSet
    BY <1>0, <2>1 DEF BlockSet
  <2>2. argv' \in Seq(Seq(Char) \cup {Null}) /\ Len(argv') = Len(argv) + 1 /\ Len(argv) \in Nat
    BY <2>1 DEF Inv, TypeOK
  <2>3. \A i \in 1 .. Len(argv') : argv'[i] = IF i <= Len(argv) THEN argv[i] ELSE arg
    BY <2>1, <2>2 DEF Inv, TypeOK
  <2>4. PICK k \in Nat : slots' = 5 * k + 6 /\ 5 * k < Len(argv') /\ Len(argv') <= 5 * k + 5
    <3>1. CASE argv = << >>
      <4>1. Len(argv) = 0 /\ slots' = 5 * 0 + 6
        BY <2>1, <3>1 DEF SlotsFor
      <4> QED BY <2>2, <4>1
    <3>2. CASE argv # << >>
      <4>1. PICK k \in Nat : slots = 5 * k + 6 /\ 5 * k < Len(argv) /\ Len(argv) <= 5 * k + 5
        BY <3>2 DEF Inv, Blocks
      <4>2. CASE Len(argv) = 5 * k + 5
        <5>1. slots' = 5 * (k + 1) + 6
          BY <2>1, <4>1, <4>2 DEF SlotsFor
        <5>2. k + 1 \in Nat /\ 5 * (k + 1) < Len(argv') /\ Len(argv') <= 5 * (k + 1) + 5
          BY <2>2, <4>1, <4>2
        <5> QED BY <5>1, <5>2
      <4>3. CASE Len(argv) # 5 * k + 5
        <5>1. Len(argv) % 5 # 0
          <6>1. Len(argv) < 5 * k + 5 /\ Len(argv) \in Nat
            BY <2>2, <4>1, <4>3
          <6> QED BY <4>1, <6>1, BetweenMultiples
        <5>2. slots' = slots
          BY <2>1, <5>1 DEF SlotsFor
        <5>3. slots' = 5 * k + 6 /\ 5 * k < Len(argv') /\ Len(argv') <= 5 * k + 5
          BY <2>2, <4>1, <4>3, <5>2
        <5> QED BY <5>3
      <4> QED BY <4>2, <4>3
    <3> QED BY <3>1, <3>2
  <2>5. Blocks' /\ slots' \in Nat /\ Len(argv') < slots'
    BY <2>2, <2>4 DEF Blocks
  <2>6. NoEmptyArgument'
    <3>1. \A i \in 1 .. Len(argv) : argv[i] # << >>
      BY DEF Inv, NoEmptyArgument
    <3>2. ASSUME NEW i \in 1 .. Len(argv') PROVE argv'[i] # << >>
      <4>1. i <= Len(argv) => i \in 1 .. Len(argv)
        BY <2>2
      <4>2. arg # << >>
        <5>1. << >> \in Seq(Char)
          OBVIOUS
        <5> QED BY <1>2, <5>1
      <4> QED BY <2>3, <3>1, <4>1, <4>2
    <3> QED BY <3>2 DEF NoEmptyArgument
  <2> QED BY <2>2, <2>5, <2>6, <2>7
<1> QED BY <1>0, <1>1, <1>2, AddArgDoes

LEMMA NextInv == Inv /\ [Next]_vars => Inv'
<1> SUFFICES ASSUME Inv, [Next]_vars PROVE Inv'
  OBVIOUS
<1>1. CASE Iterate
  <2>1. /\ cmd' = cmd /\ done' = done /\ place' = place /\ cur_pos' = cur_pos + 1
        /\ cur_pos' \in 0 .. Len(cmd) /\ cur_pos \in Nat /\ Len(buf) \in Nat
    BY <1>1 DEF Iterate, Advance, Inv, TypeOK
  <2>2. c \in Char /\ Append(buf, c) \in Seq(Char) /\ Len(Append(buf, c)) = Len(buf) + 1
    BY <1>1, CurrentChar DEF Iterate, Advance, Inv
  <2>3. CASE Keep /\ (escaped' = FALSE \/ UNCHANGED escaped)
    <3>1. TypeOK'
      BY <2>1, <2>2, <2>3 DEF Keep, Inv, TypeOK
    <3>2. InBounds'
      BY <2>1, <2>2, <2>3 DEF Keep, Inv, InBounds
    <3>3. Blocks' /\ NoEmptyArgument'
      BY <2>3 DEF Keep, Inv, Blocks, NoEmptyArgument
    <3> QED BY <3>1, <3>2, <3>3 DEF Inv
  <2>4. CASE Escape \/ OpenQuote
    <3>1. TypeOK'
      BY <2>1, <2>4 DEF Escape, OpenQuote, OpensQuote, Inv, TypeOK
    <3>2. InBounds'
      BY <2>1, <2>4 DEF Escape, OpenQuote, Inv, InBounds
    <3>3. Blocks' /\ NoEmptyArgument'
      BY <2>4 DEF Escape, OpenQuote, Inv, Blocks, NoEmptyArgument
    <3> QED BY <3>1, <3>2, <3>3 DEF Inv
  <2>5. CASE EndPiece /\ UNCHANGED <<argv, slots, buf, heap>>
    BY <2>1, <2>5 DEF EndPiece, Inv, TypeOK, InBounds, Blocks, NoEmptyArgument
  <2>6. CASE EndPiece /\ AddArg(heap) /\ buf' = << >>
    <3>1. Blocks' /\ NoEmptyArgument' /\ (argv' # << >> => Len(argv') < slots')
          /\ argv' \in Seq(Seq(Char) \cup {Null}) /\ slots' \in Nat /\ heap' \subseteq BlockSet
      BY <2>6, AddArgInv DEF Inv, TypeOK
    <3>2. TypeOK' /\ InBounds'
      BY <2>1, <2>6, <3>1 DEF EndPiece, Inv, TypeOK, InBounds
    <3> QED BY <3>1, <3>2 DEF Inv
  <2> QED BY <1>1, <2>3, <2>4, <2>5, <2>6 DEF Iterate, Advance, TakeEscaped, TakePlain, EndPiece, AddNone
<1>2. CASE Finish
  <2>1. Blocks' /\ NoEmptyArgument' /\ (argv' # << >> => Len(argv') < slots')
        /\ argv' \in Seq(Seq(Char) \cup {Null}) /\ slots' \in Nat /\ heap' \subseteq BlockSet
    <3>1. heap \ {Temp} \in SUBSET BlockSet
      BY DEF Inv, TypeOK
    <3> QED BY <1>2, <3>1, AddArgInv DEF Finish
  <2>2. TypeOK' /\ InBounds'
    BY <1>2, <2>1 DEF Finish, Inv, TypeOK, InBounds
  <2> QED BY <2>1, <2>2 DEF Inv
<1>3. CASE FreeString \/ FreeArray
  BY <1>3 DEF FreeString, FreeArray, Inv, TypeOK, InBounds, Blocks, NoEmptyArgument
<1>4. CASE UNCHANGED vars
  BY <1>4 DEF vars, Inv, TypeOK, InBounds, Blocks, NoEmptyArgument
<1> QED BY <1>1, <1>2, <1>3, <1>4 DEF Next

(* The splitting loop keeps the types of its variables.                    *)
THEOREM TypeCorrect == Spec => []TypeOK
<1>1. Spec => []Inv
  BY InitInv, NextInv, PTL DEF Spec
<1>2. Inv => TypeOK
  BY DEF Inv
<1> QED BY <1>1, <1>2, PTL

(* Splitting stays within its two allocations, for every command line.     *)
THEOREM InBoundsHolds == Spec => []InBounds
<1>1. Spec => []Inv
  BY InitInv, NextInv, PTL DEF Spec
<1>2. Inv => InBounds
  BY DEF Inv
<1> QED BY <1>1, <1>2, PTL

(* No empty argument is ever produced.                                     *)
THEOREM NoEmptyArgumentHolds == Spec => []NoEmptyArgument
<1>1. Spec => []Inv
  BY InitInv, NextInv, PTL DEF Spec
<1>2. Inv => NoEmptyArgument
  BY DEF Inv
<1> QED BY <1>1, <1>2, PTL

(* The blocks of the strings are told from one another and from the two    *)
(* others.                                                                 *)
LEMMA BlocksDiffer ==
  /\ Temp # Array
  /\ \A i : String(i) # Temp /\ String(i) # Array
  /\ \A i, j : String(i) = String(j) => i = j
  BY DEF Temp, Array, String

LEMMA StringsAre ==
  ASSUME NEW i, NEW from
  PROVE  String(i) \in Strings(from) <=> i \in from .. Len(argv) /\ argv[i] # Null
  BY BlocksDiffer DEF Strings

(* One argument more is one string more, unless it could not be duplicated.*)
LEMMA AddArgHeap ==
  ASSUME TypeOK, NEW base, AddArg(base \cup ArrayIf \cup Strings(1))
  PROVE  heap' = base \cup ArrayIf' \cup Strings(1)'
<1> DEFINE rest == base \cup ArrayIf \cup Strings(1)
           n == Len(argv)
<1>1. buf \in Seq(Char) /\ argv \in Seq(Seq(Char) \cup {Null}) /\ n \in Nat
  BY DEF TypeOK
<1>2. CASE UNCHANGED <<argv, slots>> /\ heap' = rest
  BY <1>2 DEF ArrayIf, Strings, String, Array
<1>3. ASSUME NEW arg \in {buf, Null}, argv' = Append(argv, arg),
             heap' = rest \cup {Array} \cup (IF arg = Null THEN {} ELSE {String(n + 1)})
      PROVE  heap' = base \cup ArrayIf' \cup Strings(1)'
  <2>1. Len(argv') = n + 1 /\ argv'[n + 1] = arg /\ \A i \in 1 .. n : argv'[i] = argv[i]
    BY <1>1, <1>3
  <2>2. 1 .. Len(argv') = (1 .. n) \cup {n + 1}
    BY <1>1, <2>1
  <2>3. {k \in 1 .. Len(argv') : argv'[k] # Null}
          = {k \in 1 .. n : argv[k] # Null} \cup (IF arg = Null THEN {} ELSE {n + 1})
    BY <2>1, <2>2
  <2> HIDE DEF n
  <2>4. {String(i) : i \in {k \in 1 .. Len(argv') : argv'[k] # Null}}
          = {String(i) : i \in {k \in 1 .. n : argv[k] # Null}}
            \cup (IF arg = Null THEN {} ELSE {String(n + 1)})
    BY <2>3
  <2>5. Strings(1)' = Strings(1) \cup (IF arg = Null THEN {} ELSE {String(n + 1)})
    BY <2>4 DEF Strings, String, n
  <2>6. ArrayIf' = {Array} /\ ArrayIf \subseteq {Array}
    <3>1. argv' # << >>
      BY <1>1, <2>1
    <3> QED BY <3>1 DEF ArrayIf, Array
  <2> QED BY <1>3, <2>5, <2>6
<1> HIDE DEF rest
<1> QED BY <1>1, <1>2, <1>3, AddArgDoes DEF rest

(* When the release finds a NULL, the strings left are those behind it.    *)
LEMMA LeftAtNull ==
  ASSUME argv \in Seq(Seq(Char) \cup {Null}), place \in 1 .. Len(argv) + 1,
         SeenUpTo(place - 1), ~AtString
  PROVE  Strings(place)
           = {String(i) : i \in {k \in DOMAIN argv : argv[k] # Null /\ ~SeenUpTo(k)}}
<1>1. DOMAIN argv = 1 .. Len(argv) /\ Len(argv) \in Nat /\ place \in Nat
  OBVIOUS
<1>2. place \in 1 .. Len(argv) => argv[place] = Null
  BY <1>1 DEF AtString
<1>3. ASSUME NEW k \in 1 .. Len(argv), argv[k] # Null
      PROVE  k \in place .. Len(argv) <=> ~SeenUpTo(k)
  <2>1. CASE k < place
    <3>1. 1 .. k \subseteq 1 .. place - 1
      BY <1>1, <2>1
    <3> QED BY <1>1, <2>1, <3>1 DEF SeenUpTo
  <2>2. CASE place <= k
    <3>1. place \in 1 .. k /\ place \in 1 .. Len(argv)
      BY <1>1, <2>2
    <3> QED BY <1>1, <1>2, <2>2, <3>1 DEF SeenUpTo
  <2> QED BY <1>1, <2>1, <2>2
<1>4. {k \in place .. Len(argv) : argv[k] # Null}
        = {k \in DOMAIN argv : argv[k] # Null /\ ~SeenUpTo(k)}
  <2>1. place .. Len(argv) \subseteq 1 .. Len(argv)
    BY <1>1
  <2> QED BY <1>1, <1>3, <2>1
<1> QED BY <1>4 DEF Strings

(* Whatever strdup() does, the release gives back all of argv but the      *)
(* strings behind the place of an argument that could not be duplicated.   *)
THEOREM LostBehindNullHolds == Spec => []LostBehindNull
<1> DEFINE Left == {String(i) : i \in {k \in DOMAIN argv : argv[k] # Null /\ ~SeenUpTo(k)}}
           End == done /\ Array \notin heap => heap = Left
           J == HeapIs /\ End
<1>1. Init => J
  <2> SUFFICES ASSUME Init PROVE J
    OBVIOUS
  <2>1. argv = << >> /\ ~done /\ heap = {Temp} /\ place = First
    BY DEF Init
  <2>2. 1 .. Len(argv) = {} /\ Strings(1) = {} /\ ArrayIf = {}
    BY <2>1 DEF Strings, ArrayIf
  <2> QED BY <2>1, <2>2 DEF HeapIs
<1>2. Inv /\ J /\ [Next]_vars => J'
  <2> SUFFICES ASSUME Inv, J, [Next]_vars PROVE J'
    OBVIOUS
  <2>1. /\ TypeOK /\ argv \in Seq(Seq(Char) \cup {Null}) /\ Len(argv) \in Nat
        /\ DOMAIN argv = 1 .. Len(argv) /\ place \in Nat
    BY DEF Inv, TypeOK
  <2>2. CASE Iterate
    <3>1. ~done /\ ~done' /\ place' = place
      BY <2>2 DEF Iterate
    <3>2. heap = {Temp} \cup ArrayIf \cup Strings(1) /\ place = First
      BY <3>1 DEF HeapIs
    <3>3. CASE UNCHANGED <<argv, heap>>
      <4>1. ArrayIf' = ArrayIf /\ Strings(1)' = Strings(1)
        BY <3>3 DEF ArrayIf, Strings, String, Array
      <4> QED BY <3>1, <3>2, <3>3, <4>1 DEF HeapIs, Temp, First
    <3>4. CASE AddArg(heap)
      <4>1. heap' = {Temp} \cup ArrayIf' \cup Strings(1)'
        BY <2>1, <3>2, <3>4, AddArgHeap
      <4> QED BY <3>1, <3>2, <4>1 DEF HeapIs, Temp, First
    <3> QED BY <2>2, <3>3, <3>4
            DEF Iterate, TakeEscaped, Keep, Escape, OpenQuote, EndPiece, TakePlain, AddNone
  <2>3. CASE Finish
    <3>1. ~done /\ done' /\ place' = place /\ AddArg(heap \ {Temp})
      BY <2>3 DEF Finish
    <3>2. heap = {Temp} \cup ArrayIf \cup Strings(1) /\ place = First
      BY <3>1 DEF HeapIs
    <3>3. Temp \notin ArrayIf \cup Strings(1)
      BY BlocksDiffer DEF ArrayIf, Strings
    <3>4. heap \ {Temp} = {} \cup ArrayIf \cup Strings(1)
      BY <3>2, <3>3
    <3>5. heap' = {} \cup ArrayIf' \cup Strings(1)'
      BY <2>1, <3>1, <3>4, AddArgHeap
    <3>6. Array' = Array /\ Array \notin Strings(1)'
      BY DEF Strings, String, Array
    <3>7. argv' \in Seq(Seq(Char) \cup {Null}) /\ Len(argv') \in Nat
      BY NextInv DEF Inv, TypeOK
    <3>8. CASE argv' = << >>
      <4>1. ArrayIf' = {} /\ 1 .. Len(argv') = {} /\ DOMAIN argv' = {}
        BY <3>8 DEF ArrayIf
      <4>2. heap' = {}
        BY <3>5, <4>1 DEF Strings
      <4> QED BY <3>1, <3>6, <4>1, <4>2 DEF HeapIs, String
    <3>9. CASE argv' # << >>
      <4>1. heap' = {Array} \cup Strings(1)' /\ Array \in heap'
        BY <3>5, <3>9 DEF ArrayIf, Array
      <4>2. place' = 1 /\ 1 .. place' - 1 = {}
        BY <3>1, <3>2 DEF First
      <4>3. 1 \in 1 .. Len(argv') + 1
        BY <3>7
      <4> QED BY <3>1, <3>6, <4>1, <4>2, <4>3 DEF HeapIs, SeenUpTo, Strings
    <3> QED BY <3>8, <3>9
  <2>4. CASE FreeString
    <3>1. /\ done /\ done' /\ Array \in heap /\ AtString /\ heap' = heap \ {String(place)}
          /\ place' = place + 1 /\ argv' = argv
      BY <2>4 DEF FreeString
    <3>2. /\ place \in 1 .. Len(argv) + 1 /\ SeenUpTo(place - 1)
          /\ heap = {Array} \cup Strings(place)
      BY <3>1 DEF HeapIs
    <3>3. place \in 1 .. Len(argv) /\ argv[place] # Null
      BY <2>1, <3>1 DEF AtString
    <3>4. Array \in heap'
      BY <3>1, BlocksDiffer
    <3>5. heap' = {Array} \cup Strings(place + 1)
      <4>1. place .. Len(argv) = {place} \cup (place + 1 .. Len(argv))
            /\ place \notin place + 1 .. Len(argv)
        BY <2>1, <3>3
      <4>2. {k \in place .. Len(argv) : argv[k] # Null}
              = {place} \cup {k \in place + 1 .. Len(argv) : argv[k] # Null}
        BY <3>3, <4>1
      <4>3. Strings(place) = {String(place)} \cup Strings(place + 1)
        BY <4>2 DEF Strings
      <4>4. String(place) \notin Strings(place + 1)
        BY <4>1, StringsAre
      <4> QED BY <3>1, <3>2, <4>3, <4>4, BlocksDiffer
    <3>6. \A j \in 1 .. place : argv[j] # Null
      <4>1. \A j \in 1 .. place : j = place \/ j \in 1 .. place - 1
        BY <2>1
      <4> QED BY <3>2, <3>3, <4>1 DEF SeenUpTo
    <3>7. place' - 1 = place /\ place' \in 1 .. Len(argv') + 1
      BY <2>1, <3>1, <3>3
    <3>8. \A j \in 1 .. place' - 1 : argv'[j] # Null
      BY <3>1, <3>6, <3>7
    <3>9. heap' = {Array} \cup Strings(place)'
      BY <3>1, <3>5 DEF Strings, String
    <3>10. SeenUpTo(place - 1)'
      BY <3>8 DEF SeenUpTo
    <3> QED BY <3>1, <3>4, <3>7, <3>9, <3>10 DEF HeapIs, Array
  <2>5. CASE FreeArray
    <3>1. done /\ done' /\ Array \in heap /\ ~AtString /\ heap' = heap \ {Array} /\ argv' = argv
      BY <2>5 DEF FreeArray
    <3>2. /\ place \in 1 .. Len(argv) + 1 /\ SeenUpTo(place - 1)
          /\ heap = {Array} \cup Strings(place)
      BY <3>1 DEF HeapIs
    <3>3. Array \notin Strings(place)
      BY BlocksDiffer DEF Strings
    <3>4. heap' = Strings(place) /\ Strings(place) = Left
      BY <2>1, <3>1, <3>2, <3>3, LeftAtNull
    <3>5. Left' = Left
      BY <3>1 DEF SeenUpTo, String
    <3>6. Array \notin heap'
      BY <3>1
    <3> QED BY <3>1, <3>4, <3>5, <3>6 DEF HeapIs, Array
  <2>6. CASE UNCHANGED vars
    BY <2>6 DEF vars, HeapIs, ArrayIf, Strings, SeenUpTo, String, Array, Temp, First
  <2> QED BY <2>2, <2>3, <2>4, <2>5, <2>6 DEF Next
<1>3. TypeOK /\ J => LostBehindNull
  <2> SUFFICES ASSUME TypeOK, J PROVE LostBehindNull
    OBVIOUS
  <2>1. argv \in Seq(Seq(Char) \cup {Null}) /\ DOMAIN argv = 1 .. Len(argv)
        /\ place \in Nat /\ Len(argv) \in Nat
    BY DEF TypeOK
  <2>2. ASSUME done, Array \in heap, AtString PROVE String(place) \in heap
    <3>1. heap = {Array} \cup Strings(place) /\ place \in place .. Len(argv) /\ argv[place] # Null
      BY <2>1, <2>2 DEF HeapIs, AtString
    <3> QED BY <3>1, StringsAre
  <2> QED BY <2>2 DEF LostBehindNull
<1>4. Spec => []Inv
  BY InitInv, NextInv, PTL DEF Spec
<1>5. Inv => TypeOK
  BY DEF Inv
<1> QED BY <1>1, <1>2, <1>3, <1>4, <1>5, PTL DEF Spec

-----------------------------------------------------------------------------
(* What the recursive definitions compute.  A recursive function is chosen *)
(* to satisfy its equation; RecursionExists gives one that does, and by    *)
(* RecursionFollows the chosen one is it.                                  *)

Modes == [quote : {Space, DQuote, SQuote}, esc : BOOLEAN]

LEMMA ModeAfterType ==
  ASSUME NEW p \in Modes, NEW ch \in Char
  PROVE  ModeAfter(p, ch) \in Modes
  BY DEF Modes, ModeAfter

LEMMA ModeIs ==
  ASSUME NEW s \in Seq(Char)
  PROVE  /\ Mode(s) \in [0 .. Len(s) -> Modes]
         /\ Mode(s)[0] = Begin
         /\ \A i \in 1 .. Len(s) : Mode(s)[i] = ModeAfter(Mode(s)[i - 1], s[i])
<1> DEFINE n == Len(s)
           G(m) == [i \in 0 .. Len(s) |-> IF i = 0 THEN Begin ELSE ModeAfter(m[i - 1], s[i])]
           step == [i \in 1 .. n |-> [p \in Modes |-> ModeAfter(p, s[i])]]
<1>1. n \in Nat /\ Begin \in Modes
  BY DEF Begin, Modes
<1>2. step \in Steps(n, Modes)
  BY ModeAfterType DEF Steps
<1>3. \A i \in 1 .. n, p \in Modes : step[i][p] = ModeAfter(p, s[i])
  OBVIOUS
<1> HIDE DEF step
<1>4. PICK f : Follows(f, n, Modes, Begin, step)
  BY <1>1, <1>2, RecursionExists
<1>5. f = G(f)
  <2>1. ASSUME NEW i \in 0 .. n, i # 0 PROVE f[i] = ModeAfter(f[i - 1], s[i])
    <3>1. i \in 1 .. n /\ i - 1 \in 0 .. n
      BY <1>1, <2>1
    <3> QED BY <1>3, <1>4, <3>1 DEF Follows
  <2> QED BY <1>4, <2>1 DEF Follows
<1> DEFINE m == Mode(s)
<1>6. m = G(m)
  <2>1. m = CHOOSE g : g = G(g)
    BY DEF Mode
  <2> HIDE DEF G, m
  <2> QED BY <1>5, <2>1, Zenon
<1> HIDE DEF m
<1>7. /\ m = [i \in 0 .. n |-> m[i]] /\ m[0] = Begin
      /\ \A i \in 1 .. n : m[i] = ModeAfter(m[i - 1], s[i])
  BY <1>1, <1>6
<1>8. Follows(m, n, Modes, Begin, step)
  BY <1>1, <1>2, <1>3, <1>7, RecursionFollows
<1> QED BY <1>7, <1>8 DEF Follows, m

PieceLists == {q \in Seq(Seq(Char)) : Len(q) > 0}

LEMMA PiecesAfterType ==
  ASSUME NEW q \in PieceLists, NEW p, NEW ch \in Char
  PROVE  PiecesAfter(q, p, ch) \in PieceLists
<1>1. q \in Seq(Seq(Char)) /\ Len(q) \in 1 .. Len(q) /\ q[Len(q)] \in Seq(Char)
  BY DEF PieceLists
<1>2. << >> \in Seq(Char) /\ Append(q[Len(q)], ch) \in Seq(Char)
  BY <1>1
<1>3. Append(q, << >>) \in PieceLists
  BY <1>1, <1>2 DEF PieceLists
<1>4. [q EXCEPT ![Len(q)] = Append(q[Len(q)], ch)] \in PieceLists
  BY <1>1, <1>2 DEF PieceLists
<1> QED BY <1>3, <1>4 DEF PiecesAfter

LEMMA PiecesIs ==
  ASSUME NEW s \in Seq(Char)
  PROVE  /\ Pieces(s) \in [0 .. Len(s) -> PieceLists]
         /\ Pieces(s)[0] = << << >> >>
         /\ \A i \in 1 .. Len(s) : Pieces(s)[i] = PiecesAfter(Pieces(s)[i - 1], Mode(s)[i - 1], s[i])
<1> DEFINE n == Len(s)
           G(m) == [i \in 0 .. Len(s) |-> IF i = 0 THEN << << >> >> ELSE PiecesAfter(m[i - 1], Mode(s)[i - 1], s[i])]
           step == [i \in 1 .. n |-> [p \in PieceLists |-> PiecesAfter(p, Mode(s)[i - 1], s[i])]]
<1>1. n \in Nat /\ << << >> >> \in PieceLists
  BY DEF PieceLists
<1>2. step \in Steps(n, PieceLists)
  BY PiecesAfterType DEF Steps
<1>3. \A i \in 1 .. n, p \in PieceLists : step[i][p] = PiecesAfter(p, Mode(s)[i - 1], s[i])
  OBVIOUS
<1> HIDE DEF step
<1>4. PICK f : Follows(f, n, PieceLists, << << >> >>, step)
  BY <1>1, <1>2, RecursionExists
<1>5. f = G(f)
  <2>1. ASSUME NEW i \in 0 .. n, i # 0 PROVE f[i] = PiecesAfter(f[i - 1], Mode(s)[i - 1], s[i])
    <3>1. i \in 1 .. n /\ i - 1 \in 0 .. n
      BY <1>1, <2>1
    <3> QED BY <1>3, <1>4, <3>1 DEF Follows
  <2> QED BY <1>4, <2>1 DEF Follows
<1> DEFINE m == Pieces(s)
<1>6. m = G(m)
  <2>1. m = CHOOSE g : g = G(g)
    BY DEF Pieces
  <2> HIDE DEF G, m
  <2> QED BY <1>5, <2>1, Zenon
<1> HIDE DEF m
<1>7. /\ m = [i \in 0 .. n |-> m[i]] /\ m[0] = << << >> >>
      /\ \A i \in 1 .. n : m[i] = PiecesAfter(m[i - 1], Mode(s)[i - 1], s[i])
  <2>1. m = [i \in 0 .. n |-> m[i]] /\ m[0] = << << >> >>
    BY <1>1, <1>6
  <2>2. ASSUME NEW i \in 1 .. n PROVE m[i] = PiecesAfter(m[i - 1], Mode(s)[i - 1], s[i])
    <3>1. i \in 0 .. n /\ i # 0
      BY <1>1
    <3> QED BY <1>6, <3>1
  <2> QED BY <2>1, <2>2
<1>8. Follows(m, n, PieceLists, << << >> >>, step)
  BY <1>1, <1>2, <1>3, <1>7, RecursionFollows
<1> QED BY <1>7, <1>8 DEF Follows, m

LEMMA NonEmptyIs ==
  ASSUME NEW q \in Seq(Seq(Char))
  PROVE  /\ NonEmpty(q) \in [0 .. Len(q) -> Seq(Seq(Char))]
         /\ NonEmpty(q)[0] = << >>
         /\ \A i \in 1 .. Len(q) : NonEmpty(q)[i] = WithPiece(NonEmpty(q)[i - 1], q[i])
<1> DEFINE n == Len(q)
           G(m) == [i \in 0 .. Len(q) |-> IF i = 0 THEN << >> ELSE WithPiece(m[i - 1], q[i])]
           step == [i \in 1 .. n |-> [p \in Seq(Seq(Char)) |-> WithPiece(p, q[i])]]
<1>1. n \in Nat /\ << >> \in Seq(Seq(Char))
  OBVIOUS
<1>2. step \in Steps(n, Seq(Seq(Char)))
  BY DEF WithPiece, Steps
<1>3. \A i \in 1 .. n, p \in Seq(Seq(Char)) : step[i][p] = WithPiece(p, q[i])
  OBVIOUS
<1> HIDE DEF step
<1>4. PICK f : Follows(f, n, Seq(Seq(Char)), << >>, step)
  BY <1>1, <1>2, RecursionExists
<1>5. f = G(f)
  <2>1. ASSUME NEW i \in 0 .. n, i # 0 PROVE f[i] = WithPiece(f[i - 1], q[i])
    <3>1. i \in 1 .. n /\ i - 1 \in 0 .. n
      BY <1>1, <2>1
    <3> QED BY <1>3, <1>4, <3>1 DEF Follows
  <2> QED BY <1>4, <2>1 DEF Follows
<1> DEFINE m == NonEmpty(q)
<1>6. m = G(m)
  <2>1. m = CHOOSE g : g = G(g)
    BY DEF NonEmpty
  <2> HIDE DEF G, m
  <2> QED BY <1>5, <2>1, Zenon
<1> HIDE DEF m
<1>7. /\ m = [i \in 0 .. n |-> m[i]] /\ m[0] = << >>
      /\ \A i \in 1 .. n : m[i] = WithPiece(m[i - 1], q[i])
  BY <1>1, <1>6
<1>8. Follows(m, n, Seq(Seq(Char)), << >>, step)
  BY <1>1, <1>2, <1>3, <1>7, RecursionFollows
<1> QED BY <1>7, <1>8 DEF Follows, m

-----------------------------------------------------------------------------
(* What becomes of the pieces.                                             *)

(* The piece being read, and the arguments from the pieces before it.      *)
Current(q) == q[Len(q)]
Earlier(q) == NonEmpty(q)[Len(q) - 1]

(* The arguments from the first k pieces depend on these only.             *)
LEMMA NonEmptyLocal ==
  ASSUME NEW q \in Seq(Seq(Char)), NEW r \in Seq(Seq(Char)), NEW k \in Nat,
         k <= Len(q), k <= Len(r), \A i \in 1 .. k : q[i] = r[i]
  PROVE  NonEmpty(q)[k] = NonEmpty(r)[k]
<1> DEFINE Same == {i \in 0 .. k : NonEmpty(q)[i] = NonEmpty(r)[i]}
<1>1. Len(q) \in Nat /\ Len(r) \in Nat
  OBVIOUS
<1>2. 0 \in Same
  BY NonEmptyIs
<1>3. ASSUME NEW i \in 1 .. k, i - 1 \in Same PROVE i \in Same
  <2>1. i \in 1 .. Len(q) /\ i \in 1 .. Len(r)
    BY <1>1
  <2>2. /\ NonEmpty(q)[i] = WithPiece(NonEmpty(q)[i - 1], q[i])
        /\ NonEmpty(r)[i] = WithPiece(NonEmpty(r)[i - 1], r[i])
    BY <2>1, NonEmptyIs
  <2> QED BY <1>3, <2>2
<1>4. 0 .. k \subseteq Same
  <2> HIDE DEF Same
  <2> QED BY <1>2, <1>3, UpTo
<1> QED BY <1>4

LEMMA LastWritten ==
  ASSUME NEW q \in PieceLists, NEW x \in Seq(Char),
         NEW r, r = [q EXCEPT ![Len(q)] = x]
  PROVE  r \in PieceLists /\ Current(r) = x /\ Earlier(r) = Earlier(q)
<1>1. q \in Seq(Seq(Char)) /\ Len(q) \in 1 .. Len(q) /\ Len(q) - 1 \in Nat
  BY DEF PieceLists
<1>2. r \in Seq(Seq(Char)) /\ Len(r) = Len(q) /\ r[Len(q)] = x
  BY <1>1
<1>3. \A i \in 1 .. Len(q) - 1 : q[i] = r[i]
  BY <1>1
<1>4. NonEmpty(q)[Len(q) - 1] = NonEmpty(r)[Len(q) - 1]
  <2> DEFINE k == Len(q) - 1
  <2>0. q \in Seq(Seq(Char)) /\ r \in Seq(Seq(Char))
    BY <1>1, <1>2
  <2>1. k \in Nat /\ k <= Len(q) /\ k <= Len(r)
    BY <1>1, <1>2
  <2>2. \A i \in 1 .. k : q[i] = r[i]
    BY <1>1, <1>3
  <2> HIDE DEF k
  <2>3. NonEmpty(q)[k] = NonEmpty(r)[k]
    BY <2>0, <2>1, <2>2, NonEmptyLocal
  <2> QED BY <2>3 DEF k
<1> QED BY <1>1, <1>2, <1>4 DEF PieceLists, Current, Earlier

LEMMA PieceEnded ==
  ASSUME NEW q \in PieceLists, NEW r, r = Append(q, << >>)
  PROVE  /\ r \in PieceLists /\ Current(r) = << >>
         /\ Earlier(r) = WithPiece(Earlier(q), Current(q))
<1>1. q \in Seq(Seq(Char)) /\ Len(q) \in 1 .. Len(q) /\ Len(q) - 1 \in Nat /\ << >> \in Seq(Char)
  BY DEF PieceLists
<1>2. r \in Seq(Seq(Char)) /\ Len(r) = Len(q) + 1 /\ r[Len(q) + 1] = << >>
  BY <1>1
<1>3. \A i \in 1 .. Len(q) : q[i] = r[i]
  BY <1>1
<1>4. NonEmpty(q)[Len(q) - 1] = NonEmpty(r)[Len(q) - 1]
  <2> DEFINE k == Len(q) - 1
  <2>0. q \in Seq(Seq(Char)) /\ r \in Seq(Seq(Char))
    BY <1>1, <1>2
  <2>1. k \in Nat /\ k <= Len(q) /\ k <= Len(r)
    BY <1>1, <1>2
  <2>2. \A i \in 1 .. k : q[i] = r[i]
    BY <1>1, <1>3
  <2> HIDE DEF k
  <2>3. NonEmpty(q)[k] = NonEmpty(r)[k]
    BY <2>0, <2>1, <2>2, NonEmptyLocal
  <2> QED BY <2>3 DEF k
<1>5. NonEmpty(r)[Len(q)] = WithPiece(NonEmpty(r)[Len(q) - 1], r[Len(q)])
  <2>1. Len(q) \in 1 .. Len(r)
    BY <1>1, <1>2
  <2> QED BY <1>2, <2>1, NonEmptyIs
<1>6. r[Len(q)] = q[Len(q)] /\ Len(r) - 1 = Len(q)
  BY <1>1, <1>2, <1>3
<1> QED BY <1>1, <1>2, <1>4, <1>5, <1>6 DEF PieceLists, Current, Earlier

(* All the arguments of a list of pieces.                                  *)
LEMMA AllArguments ==
  ASSUME NEW q \in PieceLists
  PROVE  NonEmpty(q)[Len(q)] = WithPiece(Earlier(q), Current(q))
<1>1. q \in Seq(Seq(Char)) /\ Len(q) \in 1 .. Len(q)
  BY DEF PieceLists
<1> QED BY <1>1, NonEmptyIs DEF Earlier, Current

-----------------------------------------------------------------------------
(* The loop computes what Arguments defines.                               *)

(* argv has these arguments, but for those that could not be duplicated.   *)
Agrees(a) ==
  Len(argv) = Len(a) /\ \A i \in 1 .. Len(argv) : argv[i] \in {a[i], Null}

(* The two flags are the mode of the next character, the buffer is the     *)
(* piece being read, and argv has the arguments from the pieces before it. *)
Scanned ==
  IF done THEN Agrees(Arguments(cmd))
  ELSE LET q == Pieces(cmd)[cur_pos]
       IN /\ Mode(cmd)[cur_pos] = [quote |-> end_char, esc |-> escaped]
          /\ Current(q) = buf
          /\ Agrees(Earlier(q))

LEMMA InitScanned == Init => Scanned
<1> SUFFICES ASSUME Init PROVE Scanned
  OBVIOUS
<1>1. cmd \in Seq(Char) /\ ~done /\ cur_pos = 0
  BY DEF Init
<1>2. Mode(cmd)[0] = Begin /\ Pieces(cmd)[0] = << << >> >>
  BY <1>1, ModeIs, PiecesIs
<1> DEFINE q == << << >> >>
<1>3. q \in Seq(Seq(Char)) /\ Len(q) = 1 /\ q[1] = << >>
  OBVIOUS
<1>4. NonEmpty(q)[0] = << >>
  BY <1>3, NonEmptyIs
<1>5. Current(q) = << >> /\ Earlier(q) = << >>
  <2> HIDE DEF q
  <2> QED BY <1>3, <1>4 DEF Current, Earlier
<1>6. Agrees(Earlier(q))
  <2> HIDE DEF q
  <2>1. argv = << >>
    BY DEF Init
  <2> QED BY <1>5, <2>1 DEF Agrees
<1> QED BY <1>1, <1>2, <1>5, <1>6 DEF Scanned, Init, Begin

(* __process_add_arg() adds the buffer as WithPiece says.                  *)
LEMMA AddArgAgrees ==
  ASSUME TypeOK, NEW rest, AddArg(rest), NEW a \in Seq(Seq(Char)), Agrees(a), NEW b, b = WithPiece(a, buf)
  PROVE  Agrees(b)'
<1>1. argv \in Seq(Seq(Char) \cup {Null}) /\ Len(argv) \in Nat /\ Len(argv) = Len(a)
  BY DEF TypeOK, Agrees
<1>2. CASE buf = << >>
  <2>1. UNCHANGED argv /\ b = a
    BY <1>2, AddArgDoes DEF TypeOK, WithPiece
  <2> QED BY <2>1 DEF Agrees
<1>3. CASE buf # << >>
  <2>1. PICK arg \in {buf, Null} : argv' = Append(argv, arg)
    BY <1>3, AddArgDoes DEF TypeOK
  <2>2. b = Append(a, buf)
    BY <1>3 DEF WithPiece
  <2>3. Len(argv') = Len(argv) + 1 /\ Len(Append(a, buf)) = Len(a) + 1
    BY <1>1, <2>1
  <2>4. ASSUME NEW i \in 1 .. Len(argv') PROVE argv'[i] \in {Append(a, buf)[i], Null}
    <3>1. i \in 1 .. Len(argv) \/ i = Len(argv) + 1
      BY <1>1, <2>3
    <3>2. CASE i \in 1 .. Len(argv)
      BY <1>1, <2>1, <3>2 DEF Agrees
    <3>3. CASE i = Len(argv) + 1
      BY <1>1, <2>1, <3>3
    <3> QED BY <3>1, <3>2, <3>3
  <2> QED BY <1>1, <2>2, <2>3, <2>4 DEF Agrees
<1> QED BY <1>2, <1>3

LEMMA IterateScanned ==
  ASSUME Inv, Scanned, Iterate
  PROVE  Scanned'
<1>a. PICK p, q : p = Mode(cmd)[cur_pos] /\ q = Pieces(cmd)[cur_pos]
  OBVIOUS
<1>b. PICK pp, qq : pp = Mode(cmd)[cur_pos + 1] /\ qq = Pieces(cmd)[cur_pos + 1]
  OBVIOUS
<1>1. /\ ~done /\ cmd' = cmd /\ done' = done /\ cur_pos' = cur_pos + 1
      /\ cmd \in Seq(Char) /\ cur_pos \in 0 .. Len(cmd) /\ cur_pos + 1 \in 1 .. Len(cmd)
      /\ c \in Char /\ c = cmd[cur_pos + 1]
  BY CurrentChar DEF Iterate, Advance, Inv, TypeOK, c
<1>2. pp = ModeAfter(p, c) /\ qq = PiecesAfter(q, p, c) /\ p \in Modes /\ q \in PieceLists
  <2>1. /\ Mode(cmd) \in [0 .. Len(cmd) -> Modes] /\ Pieces(cmd) \in [0 .. Len(cmd) -> PieceLists]
        /\ \A i \in 1 .. Len(cmd) : /\ Mode(cmd)[i] = ModeAfter(Mode(cmd)[i - 1], cmd[i])
                                    /\ Pieces(cmd)[i] = PiecesAfter(Pieces(cmd)[i - 1], Mode(cmd)[i - 1], cmd[i])
    BY <1>1, ModeIs, PiecesIs
  <2>2. (cur_pos + 1) - 1 = cur_pos
    BY <1>1
  <2> QED BY <1>a, <1>b, <1>1, <2>1, <2>2
<1>3. p = [quote |-> end_char, esc |-> escaped] /\ Current(q) = buf /\ Agrees(Earlier(q))
  BY <1>a, <1>1 DEF Scanned
<1>4. /\ end_char \in {Space, DQuote, SQuote} /\ escaped \in BOOLEAN /\ buf \in Seq(Char)
      /\ Append(buf, c) \in Seq(Char)
  BY <1>1 DEF Inv, TypeOK
<1>5. Earlier(q) \in Seq(Seq(Char))
  <2>1. q \in Seq(Seq(Char)) /\ Len(q) - 1 \in 0 .. Len(q)
    BY <1>2 DEF PieceLists
  <2> QED BY <2>1, NonEmptyIs DEF Earlier
<1> SUFFICES /\ pp = [quote |-> end_char', esc |-> escaped']
             /\ Current(qq) = buf'
             /\ Agrees(Earlier(qq))'
  BY <1>b, <1>1 DEF Scanned, Agrees
<1>6. ASSUME Keep, Literal(p, c)
      PROVE  Current(qq) = buf' /\ Agrees(Earlier(qq))'
  <2>1. qq = [q EXCEPT ![Len(q)] = Append(buf, c)]
    BY <1>2, <1>3, <1>6 DEF PiecesAfter, Literal, Current
  <2>2. Current(qq) = Append(buf, c) /\ Earlier(qq) = Earlier(q)
    BY <1>2, <1>4, <2>1, LastWritten
  <2> QED BY <1>3, <1>6, <2>2 DEF Keep, Agrees
<1>7. ASSUME UNCHANGED <<buf, argv>>, ~Literal(p, c), ~Separates(p, c)
      PROVE  Current(qq) = buf' /\ Agrees(Earlier(qq))'
  <2>1. qq = q
    BY <1>2, <1>7 DEF PiecesAfter
  <2> QED BY <1>3, <1>7, <2>1 DEF Agrees
<1>8. CASE TakeEscaped
  <2>1. Literal(p, c) /\ pp = [quote |-> end_char, esc |-> FALSE]
    BY <1>2, <1>3, <1>8 DEF TakeEscaped, Literal, Separates, ModeAfter
  <2> QED BY <1>6, <1>8, <2>1 DEF TakeEscaped, Keep
<1>9. CASE Escape
  <2>1. pp = [quote |-> end_char, esc |-> TRUE] /\ ~Literal(p, c) /\ ~Separates(p, c)
    BY <1>2, <1>3, <1>9 DEF Escape, Escapes, Literal, Separates, ModeAfter
  <2> QED BY <1>7, <1>9, <2>1 DEF Escape
<1>10. CASE OpenQuote
  <2>1. pp = [quote |-> c, esc |-> FALSE] /\ ~Literal(p, c) /\ ~Separates(p, c)
    BY <1>2, <1>3, <1>4, <1>10
       DEF OpenQuote, OpensQuote, Escapes, Literal, Separates, ModeAfter
  <2>2. end_char' = c /\ escaped' = FALSE /\ UNCHANGED <<buf, argv>>
    BY <1>4, <1>10 DEF OpenQuote, OpensQuote
  <2> QED BY <1>7, <2>1, <2>2
<1>11. CASE EndPiece
  <2>1. /\ c = end_char /\ ~escaped /\ ~Escapes /\ ~OpensQuote
        /\ end_char' = Space /\ escaped' = FALSE
    BY <1>4, <1>11 DEF EndPiece, EndsPiece
  <2>2. pp = [quote |-> Space, esc |-> FALSE]
    BY <1>2, <1>3, <1>4, <2>1 DEF ModeAfter, Escapes, OpensQuote
  <2>3. CASE end_char = Space
    <3>1. Separates(p, c) /\ qq = Append(q, << >>)
      BY <1>2, <1>3, <2>1, <2>3 DEF Separates, PiecesAfter
    <3>2. Current(qq) = << >> /\ Earlier(qq) = WithPiece(Earlier(q), buf)
      BY <1>2, <1>3, <3>1, PieceEnded
    <3>3. AddArg(heap) /\ buf' = << >>
      BY <1>11, <2>3 DEF EndPiece
    <3>4. Agrees(Earlier(qq))'
      BY <1>3, <1>5, <3>2, <3>3, AddArgAgrees DEF Inv
    <3> QED BY <2>1, <2>2, <3>2, <3>3, <3>4
  <2>4. CASE end_char # Space
    <3>1. ~Literal(p, c) /\ ~Separates(p, c)
      BY <1>2, <1>3, <2>1, <2>2, <2>4 DEF Separates, Literal
    <3>2. UNCHANGED <<argv, slots, buf>>
      BY <1>11, <2>4 DEF EndPiece, AddNone
    <3> QED BY <1>7, <2>1, <2>2, <3>1, <3>2
  <2> QED BY <2>3, <2>4
<1>12. CASE TakePlain
  <2>1. ~escaped /\ ~Escapes /\ ~OpensQuote /\ c # end_char
    BY <1>12 DEF TakePlain, EndsPiece
  <2>2. pp = p /\ Literal(p, c)
    BY <1>2, <1>3, <1>4, <2>1 DEF ModeAfter, Escapes, OpensQuote, Literal, Separates
  <2> QED BY <1>3, <1>6, <1>12, <2>2 DEF TakePlain, Keep
<1> QED BY <1>8, <1>9, <1>10, <1>11, <1>12 DEF Iterate

LEMMA FinishScanned ==
  ASSUME Inv, Scanned, Finish
  PROVE  Scanned'
<1> DEFINE q == Pieces(cmd)[cur_pos]
<1>1. /\ ~done /\ done' /\ cmd' = cmd /\ AddArg(heap \ {Temp}) /\ cur_pos = Len(cmd) /\ cmd \in Seq(Char)
  BY DEF Finish, Inv, TypeOK
<1>2. q \in PieceLists
  BY <1>1, PiecesIs
<1>3. Current(q) = buf /\ Agrees(Earlier(q))
  BY <1>1 DEF Scanned
<1>4. Arguments(cmd) = NonEmpty(q)[Len(q)]
  BY <1>1 DEF Arguments
<1> HIDE DEF q
<1>5. Arguments(cmd) = WithPiece(Earlier(q), buf)
  BY <1>2, <1>3, <1>4, AllArguments
<1>6. Earlier(q) \in Seq(Seq(Char))
  <2>1. q \in Seq(Seq(Char)) /\ Len(q) - 1 \in 0 .. Len(q)
    BY <1>2 DEF PieceLists
  <2> QED BY <2>1, NonEmptyIs DEF Earlier
<1>7. ASSUME NEW a, a = Arguments(cmd) PROVE Agrees(a)'
  BY <1>1, <1>3, <1>5, <1>6, <1>7, AddArgAgrees DEF Inv
<1>8. Agrees(Arguments(cmd))'
  BY <1>1, <1>7 DEF Agrees
<1> QED BY <1>1, <1>8 DEF Scanned

(* The arguments are those that the definition without the loop gives.     *)
THEOREM SplitsAsDefinedHolds == Spec => []SplitsAsDefined
<1>1. Init => Inv /\ Scanned
  BY InitInv, InitScanned
<1>2. Inv /\ Scanned /\ [Next]_vars => Inv' /\ Scanned'
  <2> SUFFICES ASSUME Inv, Scanned, [Next]_vars PROVE Scanned'
    BY NextInv
  <2>1. CASE Iterate
    BY <2>1, IterateScanned
  <2>2. CASE Finish
    BY <2>2, FinishScanned
  <2>3. CASE FreeString \/ FreeArray \/ UNCHANGED vars
    BY <2>3 DEF FreeString, FreeArray, vars, Scanned, Agrees
  <2> QED BY <2>1, <2>2, <2>3 DEF Next
<1>3. Inv /\ Scanned => SplitsAsDefined
  BY DEF Inv, TypeOK, Scanned, Agrees, SplitsAsDefined
<1> QED BY <1>1, <1>2, <1>3, PTL DEF Spec

-----------------------------------------------------------------------------
(* A line that is built character by character.                            *)

LEMMA ConcatAppend ==
  ASSUME NEW S, NEW s \in Seq(S), NEW t \in Seq(S), NEW e \in S
  PROVE  s \o Append(t, e) = Append(s \o t, e)
<1>1. Append(t, e) \in Seq(S) /\ s \o t \in Seq(S) /\ <<e>> \in Seq(S)
  BY AppendProperties, ConcatProperties
<1>2. Append(t, e) = t \o <<e>> /\ Append(s \o t, e) = (s \o t) \o <<e>>
  BY <1>1, AppendIsConcat
<1> QED BY <1>1, <1>2, ConcatAssociative

LEMMA CharsAssociative ==
  \A s, t, u \in Seq(Char) : (s \o t) \o u = s \o (t \o u)
BY ConcatAssociative

LEMMA CharsAppend ==
  \A s, t \in Seq(Char), e \in Char : s \o Append(t, e) = Append(s \o t, e)
BY ConcatAppend

LEMMA ConcatFour ==
  ASSUME NEW S, NEW s \in Seq(S), NEW a \in S, NEW b \in S, NEW d \in S, NEW e \in S
  PROVE  s \o <<a, b, d, e>> = Append(Append(Append(Append(s, a), b), d), e)
<1>1. s \o <<a>> = Append(s, a)
  BY AppendIsConcat
<1>2. s \o <<a, b>> = Append(s \o <<a>>, b)
  <2>1. <<a, b>> = Append(<<a>>, b) /\ <<a>> \in Seq(S)
    OBVIOUS
  <2> QED BY <2>1, ConcatAppend
<1>3. s \o <<a, b, d>> = Append(s \o <<a, b>>, d)
  <2>1. <<a, b, d>> = Append(<<a, b>>, d) /\ <<a, b>> \in Seq(S)
    OBVIOUS
  <2> QED BY <2>1, ConcatAppend
<1>4. s \o <<a, b, d, e>> = Append(s \o <<a, b, d>>, e)
  <2>1. <<a, b, d, e>> = Append(<<a, b, d>>, e) /\ <<a, b, d>> \in Seq(S)
    OBVIOUS
  <2> QED BY <2>1, ConcatAppend
<1> QED BY <1>1, <1>2, <1>3, <1>4

(* Where a line leaves the splitting.                                      *)
EndMode(s) == Mode(s)[Len(s)]
EndPieces(s) == Pieces(s)[Len(s)]

LEMMA EndTypes ==
  ASSUME NEW s \in Seq(Char)
  PROVE  EndMode(s) \in Modes /\ EndPieces(s) \in PieceLists
  BY ModeIs, PiecesIs DEF EndMode, EndPieces

LEMMA Appended ==
  ASSUME NEW s \in Seq(Char), NEW ch \in Char
  PROVE  /\ Append(s, ch) \in Seq(Char)
         /\ EndMode(Append(s, ch)) = ModeAfter(EndMode(s), ch)
         /\ EndPieces(Append(s, ch)) = PiecesAfter(EndPieces(s), EndMode(s), ch)
<1> DEFINE t == Append(s, ch)
           n == Len(s)
           Same == {i \in 0 .. n : Mode(s)[i] = Mode(t)[i] /\ Pieces(s)[i] = Pieces(t)[i]}
<1>1. /\ t \in Seq(Char) /\ n \in Nat /\ Len(t) = n + 1 /\ t[n + 1] = ch
      /\ \A i \in 1 .. n : t[i] = s[i]
  OBVIOUS
<1> HIDE DEF t
<1>2. /\ Mode(t)[0] = Begin /\ Pieces(t)[0] = << << >> >>
      /\ \A i \in 1 .. n + 1 : /\ Mode(t)[i] = ModeAfter(Mode(t)[i - 1], t[i])
                               /\ Pieces(t)[i] = PiecesAfter(Pieces(t)[i - 1], Mode(t)[i - 1], t[i])
  BY <1>1, ModeIs, PiecesIs
<1>3. /\ Mode(s)[0] = Begin /\ Pieces(s)[0] = << << >> >>
      /\ \A i \in 1 .. n : /\ Mode(s)[i] = ModeAfter(Mode(s)[i - 1], s[i])
                           /\ Pieces(s)[i] = PiecesAfter(Pieces(s)[i - 1], Mode(s)[i - 1], s[i])
  BY <1>1, ModeIs, PiecesIs
<1> HIDE DEF n
<1>4. 0 \in Same
  <2>1. 0 \in 0 .. n
    BY <1>1
  <2>2. Mode(s)[0] = Mode(t)[0] /\ Pieces(s)[0] = Pieces(t)[0]
    BY <1>2, <1>3, Zenon
  <2> QED BY <2>1, <2>2
<1>5. ASSUME NEW i \in 1 .. n, i - 1 \in Same PROVE i \in Same
  <2>1. i \in 1 .. n + 1 /\ i \in 0 .. n
    BY <1>1
  <2> QED BY <1>1, <1>2, <1>3, <1>5, <2>1
<1>6. 0 .. n \subseteq Same
  <2> HIDE DEF Same
  <2> QED BY <1>1, <1>4, <1>5, UpTo
<1>7. n \in Same /\ n + 1 \in 1 .. n + 1 /\ (n + 1) - 1 = n
  BY <1>1, <1>6
<1> QED BY <1>1, <1>2, <1>7 DEF EndMode, EndPieces, n, t

-----------------------------------------------------------------------------
(* Quoted arguments and their lines.                                       *)

LEMMA QuotedCharType ==
  ASSUME NEW q \in Seq(Char), NEW ch \in Char
  PROVE  q \o QuotedChar(ch) \in Seq(Char)
<1>1. SQuote \in Char /\ Backslash \in Char
  BY DEF Char, Special
<1>2. <<SQuote, Backslash, SQuote, SQuote>> \in Seq(Char) /\ <<ch>> \in Seq(Char)
  BY <1>1
<1>3. QuotedChar(ch) \in Seq(Char)
  BY <1>2 DEF QuotedChar
<1> QED BY <1>3, ConcatProperties

LEMMA QuotedIs ==
  ASSUME NEW a \in Seq(Char)
  PROVE  /\ Quoted(a) \in [0 .. Len(a) -> Seq(Char)]
         /\ Quoted(a)[0] = <<SQuote>>
         /\ \A i \in 1 .. Len(a) : Quoted(a)[i] = Quoted(a)[i - 1] \o QuotedChar(a[i])
<1> DEFINE n == Len(a)
           G(m) == [i \in 0 .. Len(a) |-> IF i = 0 THEN <<SQuote>> ELSE m[i - 1] \o QuotedChar(a[i])]
           step == [i \in 1 .. n |-> [p \in Seq(Char) |-> p \o QuotedChar(a[i])]]
<1>1. n \in Nat /\ <<SQuote>> \in Seq(Char)
  BY DEF Char, Special
<1>2. step \in Steps(n, Seq(Char))
  BY QuotedCharType DEF Steps
<1>3. \A i \in 1 .. n, p \in Seq(Char) : step[i][p] = p \o QuotedChar(a[i])
  OBVIOUS
<1> HIDE DEF step
<1>4. PICK f : Follows(f, n, Seq(Char), <<SQuote>>, step)
  BY <1>1, <1>2, RecursionExists
<1>5. f = G(f)
  <2>1. ASSUME NEW i \in 0 .. n, i # 0 PROVE f[i] = f[i - 1] \o QuotedChar(a[i])
    <3>1. i \in 1 .. n /\ i - 1 \in 0 .. n
      BY <1>1, <2>1
    <3> QED BY <1>3, <1>4, <3>1 DEF Follows
  <2> QED BY <1>4, <2>1 DEF Follows
<1> DEFINE m == Quoted(a)
<1>6. m = G(m)
  <2>1. m = CHOOSE g : g = G(g)
    BY DEF Quoted
  <2> HIDE DEF G, m
  <2> QED BY <1>5, <2>1, Zenon
<1> HIDE DEF m
<1>7. /\ m = [i \in 0 .. n |-> m[i]] /\ m[0] = <<SQuote>>
      /\ \A i \in 1 .. n : m[i] = m[i - 1] \o QuotedChar(a[i])
  <2>1. ASSUME NEW i \in 1 .. n PROVE m[i] = m[i - 1] \o QuotedChar(a[i])
    <3>1. i \in 0 .. n /\ i # 0
      OBVIOUS
    <3> QED BY <1>6, <3>1, Zenon
  <2>2. 0 \in 0 .. n
    BY <1>1
  <2> QED BY <1>6, <2>1, <2>2, Zenon
<1>8. Follows(m, n, Seq(Char), <<SQuote>>, step)
  BY <1>1, <1>2, <1>3, <1>7, RecursionFollows
<1> QED BY <1>7, <1>8 DEF Follows, m

LEMMA LineWithType ==
  ASSUME NEW l \in Seq(Char), NEW i, NEW a \in Seq(Char)
  PROVE  LineWith(l, i, a) \in Seq(Char)
<1>1. Quoted(a)[Len(a)] \in Seq(Char)
  <2>1. Len(a) \in 0 .. Len(a)
    OBVIOUS
  <2> QED BY <2>1, QuotedIs
<1>0. SQuote \in Char /\ Space \in Char
  BY DEF Char, Special
<1>2. Append(Quoted(a)[Len(a)], SQuote) \in Seq(Char) /\ Append(l, Space) \in Seq(Char)
  BY <1>0, <1>1, AppendProperties
<1> QED BY <1>2, ConcatProperties DEF LineWith

LEMMA LineIs ==
  ASSUME NEW args \in Seq(Seq(Char))
  PROVE  /\ Line(args) \in [0 .. Len(args) -> Seq(Char)]
         /\ Line(args)[0] = << >>
         /\ \A i \in 1 .. Len(args) : Line(args)[i] = LineWith(Line(args)[i - 1], i, args[i])
<1> DEFINE n == Len(args)
           G(m) == [i \in 0 .. Len(args) |-> IF i = 0 THEN << >> ELSE LineWith(m[i - 1], i, args[i])]
           step == [i \in 1 .. n |-> [p \in Seq(Char) |-> LineWith(p, i, args[i])]]
<1>1. n \in Nat /\ << >> \in Seq(Char)
  OBVIOUS
<1>2. step \in Steps(n, Seq(Char))
  BY LineWithType DEF Steps
<1>3. \A i \in 1 .. n, p \in Seq(Char) : step[i][p] = LineWith(p, i, args[i])
  OBVIOUS
<1> HIDE DEF step
<1>4. PICK f : Follows(f, n, Seq(Char), << >>, step)
  BY <1>1, <1>2, RecursionExists
<1>5. f = G(f)
  <2>1. ASSUME NEW i \in 0 .. n, i # 0 PROVE f[i] = LineWith(f[i - 1], i, args[i])
    <3>1. i \in 1 .. n /\ i - 1 \in 0 .. n
      BY <1>1, <2>1
    <3> QED BY <1>3, <1>4, <3>1 DEF Follows
  <2> QED BY <1>4, <2>1 DEF Follows
<1> DEFINE m == Line(args)
<1>6. m = G(m)
  <2>1. m = CHOOSE g : g = G(g)
    BY DEF Line
  <2> HIDE DEF G, m
  <2> QED BY <1>5, <2>1, Zenon
<1> HIDE DEF m
<1>7. /\ m = [i \in 0 .. n |-> m[i]] /\ m[0] = << >>
      /\ \A i \in 1 .. n : m[i] = LineWith(m[i - 1], i, args[i])
  BY <1>1, <1>6
<1>8. Follows(m, n, Seq(Char), << >>, step)
  BY <1>1, <1>2, <1>3, <1>7, RecursionFollows
<1> QED BY <1>7, <1>8 DEF Follows, m

(* Between single quotes, with the piece w being read.                     *)
InQuotes == [quote |-> SQuote, esc |-> FALSE]
Reading(s, mode, base, w) ==
  s \in Seq(Char) /\ EndMode(s) = mode /\ EndPieces(s) = Append(base, w)

LEMMA LastOfPieces ==
  ASSUME NEW base \in Seq(Seq(Char)), NEW w \in Seq(Char), NEW ch \in Char
  PROVE  LET q == Append(base, w)
         IN [q EXCEPT ![Len(q)] = Append(@, ch)] = Append(base, Append(w, ch))
<1> DEFINE q == Append(base, w)
           r == [q EXCEPT ![Len(q)] = Append(q[Len(q)], ch)]
           t == Append(base, Append(w, ch))
<1>1. Append(w, ch) \in Seq(Char)
  OBVIOUS
<1>2. q \in Seq(Seq(Char)) /\ Len(q) = Len(base) + 1 /\ q[Len(base) + 1] = w
      /\ \A i \in 1 .. Len(base) : q[i] = base[i]
  BY AppendProperties
<1>3. t \in Seq(Seq(Char)) /\ Len(t) = Len(base) + 1 /\ t[Len(base) + 1] = Append(w, ch)
      /\ \A i \in 1 .. Len(base) : t[i] = base[i]
  BY <1>1, AppendProperties
<1>4. Len(base) \in Nat /\ Len(q) \in 1 .. Len(q)
  BY <1>2
<1> HIDE DEF q, t
<1>5. r \in Seq(Seq(Char)) /\ Len(r) = Len(q)
      /\ \A i \in 1 .. Len(q) : r[i] = IF i = Len(q) THEN Append(q[Len(q)], ch) ELSE q[i]
  BY <1>1, <1>2, <1>4, ExceptSeq
<1> HIDE DEF r
<1>6. ASSUME NEW i \in 1 .. Len(r) PROVE r[i] = t[i]
  <2>1. i = Len(base) + 1 \/ i \in 1 .. Len(base)
    BY <1>2, <1>4, <1>5
  <2> QED BY <1>2, <1>3, <1>4, <1>5, <2>1
<1>7. r = t
  BY <1>2, <1>3, <1>5, <1>6, SeqEqual
<1> QED BY <1>7 DEF q, r, t

(* One more character, by its part in the line.                            *)
LEMMA ReadLiteral ==
  ASSUME NEW s, NEW mode \in Modes, NEW base \in Seq(Seq(Char)), NEW w \in Seq(Char),
         Reading(s, mode, base, w), NEW ch \in Char, Literal(mode, ch)
  PROVE  Reading(Append(s, ch), ModeAfter(mode, ch), base, Append(w, ch))
<1>1. s \in Seq(Char) /\ EndMode(s) = mode /\ EndPieces(s) = Append(base, w)
  BY DEF Reading
<1>2. /\ Append(s, ch) \in Seq(Char) /\ EndMode(Append(s, ch)) = ModeAfter(mode, ch)
      /\ EndPieces(Append(s, ch)) = PiecesAfter(Append(base, w), mode, ch)
  BY <1>1, Appended
<1>3. PiecesAfter(Append(base, w), mode, ch) = Append(base, Append(w, ch))
  BY LastOfPieces DEF PiecesAfter, Literal
<1> QED BY <1>2, <1>3 DEF Reading

LEMMA ReadMark ==
  ASSUME NEW s, NEW mode \in Modes, NEW base \in Seq(Seq(Char)), NEW w \in Seq(Char),
         Reading(s, mode, base, w), NEW ch \in Char, ~Literal(mode, ch), ~Separates(mode, ch)
  PROVE  Reading(Append(s, ch), ModeAfter(mode, ch), base, w)
<1>1. s \in Seq(Char) /\ EndMode(s) = mode /\ EndPieces(s) = Append(base, w)
  BY DEF Reading
<1>2. /\ Append(s, ch) \in Seq(Char) /\ EndMode(Append(s, ch)) = ModeAfter(mode, ch)
      /\ EndPieces(Append(s, ch)) = PiecesAfter(Append(base, w), mode, ch)
  BY <1>1, Appended
<1> QED BY <1>1, <1>2 DEF Reading, PiecesAfter

LEMMA QuoteModes ==
  /\ Begin \in Modes /\ InQuotes \in Modes /\ [Begin EXCEPT !.esc = TRUE] \in Modes
  /\ ModeAfter(Begin, SQuote) = InQuotes /\ ModeAfter(InQuotes, SQuote) = Begin
  /\ ~Literal(Begin, SQuote) /\ ~Separates(Begin, SQuote)
  /\ ~Literal(InQuotes, SQuote) /\ ~Separates(InQuotes, SQuote)
  /\ ModeAfter(Begin, Backslash) = [Begin EXCEPT !.esc = TRUE]
  /\ ~Literal(Begin, Backslash) /\ ~Separates(Begin, Backslash)
  /\ ModeAfter([Begin EXCEPT !.esc = TRUE], SQuote) = Begin
  /\ Literal([Begin EXCEPT !.esc = TRUE], SQuote)
  BY DEF Begin, InQuotes, Modes, ModeAfter, Literal, Separates

LEMMA QuotedCharRead ==
  ASSUME NEW s, NEW base \in Seq(Seq(Char)), NEW w \in Seq(Char),
         Reading(s, InQuotes, base, w), NEW ch \in Char
  PROVE  Reading(s \o QuotedChar(ch), InQuotes, base, Append(w, ch))
<1>0. s \in Seq(Char) /\ SQuote \in Char /\ Backslash \in Char /\ Append(w, ch) \in Seq(Char)
  BY DEF Reading, Char, Special
<1>1. CASE ch # SQuote
  <2>1. Literal(InQuotes, ch) /\ ModeAfter(InQuotes, ch) = InQuotes
    BY <1>1 DEF InQuotes, Literal, Separates, ModeAfter
  <2>2. s \o QuotedChar(ch) = Append(s, ch)
    BY <1>0, <1>1, AppendIsConcat DEF QuotedChar
  <2> QED BY <2>1, <2>2, QuoteModes, ReadLiteral
<1>2. CASE ch = SQuote
  <2> DEFINE s1 == Append(s, SQuote)
             s2 == Append(s1, Backslash)
             s3 == Append(s2, SQuote)
             s4 == Append(s3, SQuote)
             esc == [Begin EXCEPT !.esc = TRUE]
  <2>1. s \o QuotedChar(ch) = s4
    <3>1. QuotedChar(ch) = <<SQuote, Backslash, SQuote, SQuote>>
      BY <1>2 DEF QuotedChar
    <3>2. s \o <<SQuote, Backslash, SQuote, SQuote>> = s4
      <4>1. \A b \in Char : s \o <<SQuote, b, SQuote, SQuote>>
              = Append(Append(Append(Append(s, SQuote), b), SQuote), SQuote)
        BY <1>0, ConcatFour
      <4> QED BY <1>0, <4>1
    <3> QED BY <3>1, <3>2
  <2>0. /\ esc \in Modes /\ ModeAfter(Begin, Backslash) = esc
        /\ ModeAfter(esc, SQuote) = Begin /\ Literal(esc, SQuote)
    BY QuoteModes
  <2> HIDE DEF s4, esc
  <2>2. Reading(s1, Begin, base, w)
    BY <1>0, QuoteModes, ReadMark
  <2> HIDE DEF s1
  <2>3. Reading(s2, esc, base, w)
    BY <1>0, <2>0, <2>2, QuoteModes, ReadMark
  <2> HIDE DEF s2
  <2>4. Reading(s3, Begin, base, Append(w, SQuote))
    BY <1>0, <2>0, <2>3, ReadLiteral
  <2> HIDE DEF s3
  <2>5. Reading(s4, InQuotes, base, Append(w, SQuote))
    BY <1>0, <1>2, <2>4, QuoteModes, ReadMark DEF s4
  <2> QED BY <1>2, <2>1, <2>5
<1> QED BY <1>1, <1>2

(* A quoted argument is read as that argument.                             *)
LEMMA QuotedRead ==
  ASSUME NEW s, NEW base \in Seq(Seq(Char)), Reading(s, Begin, base, << >>),
         NEW a \in Seq(Char)
  PROVE  Reading(s \o Append(Quoted(a)[Len(a)], SQuote), Begin, base, a)
<1> DEFINE n == Len(a)
           Q == Quoted(a)
           Ok == {i \in 0 .. n : Reading(s \o Q[i], InQuotes, base, SubSeq(a, 1, i))}
<1>1. /\ s \in Seq(Char) /\ SQuote \in Char /\ << >> \in Seq(Char)
      /\ n \in Nat /\ \A i \in 1 .. n : a[i] \in Char
  BY DEF Reading, Char, Special
<1>2. /\ \A i \in 0 .. n : Q[i] \in Seq(Char)
      /\ Q[0] = <<SQuote>> /\ \A i \in 1 .. n : Q[i] = Q[i - 1] \o QuotedChar(a[i])
  BY QuotedIs
<1>3. \A i \in 0 .. n : SubSeq(a, 1, i) \in Seq(Char)
  <2> TAKE i \in 0 .. n
  <2>1. i \in Int /\ \A j \in 1 .. i : a[j] \in Char
    BY <1>1
  <2> QED BY <2>1, SubSeqProperties
<1>4. SubSeq(a, 1, 0) = << >> /\ SubSeq(a, 1, n) = a
  BY SubSeqEmpty, SubSeqFull
<1>5. \A i \in 1 .. n : SubSeq(a, 1, i) = Append(SubSeq(a, 1, i - 1), a[i])
  <2> TAKE i \in 1 .. n
  <2>1. 1 \in 1 .. Len(a) /\ i \in 1 .. Len(a) /\ i - 1 \in 0 .. n
    BY <1>1
  <2>2. SubSeq(a, 1, i) = SubSeq(a, 1, i - 1) \o <<a[i]>>
    BY <2>1, SubSeqRecursiveSecond
  <2>3. Append(SubSeq(a, 1, i - 1), a[i]) = SubSeq(a, 1, i - 1) \o <<a[i]>>
    BY <1>1, <1>3, <2>1, AppendIsConcat
  <2> QED BY <2>2, <2>3
<1>6. 0 \in Ok
  <2>1. s \o Q[0] = Append(s, SQuote)
    BY <1>1, <1>2, AppendIsConcat
  <2>2. Reading(Append(s, SQuote), InQuotes, base, << >>)
    BY <1>1, QuoteModes, ReadMark
  <2>3. 0 \in 0 .. n
    BY <1>1
  <2> QED BY <1>4, <2>1, <2>2, <2>3
<1>7. ASSUME NEW i \in 1 .. n, i - 1 \in Ok PROVE i \in Ok
  <2>1. i - 1 \in 0 .. n /\ i \in 0 .. n /\ a[i] \in Char
    BY <1>1
  <2>2. QuotedChar(a[i]) \in Seq(Char)
    <3>1. << >> \o QuotedChar(a[i]) \in Seq(Char) /\ SQuote \in Char /\ Backslash \in Char
      BY <1>1, <2>1, QuotedCharType DEF Char, Special
    <3>2. <<SQuote, Backslash, SQuote, SQuote>> \in Seq(Char) /\ <<a[i]>> \in Seq(Char)
      BY <2>1, <3>1
    <3> QED BY <3>2 DEF QuotedChar
  <2>3. s \o Q[i] = (s \o Q[i - 1]) \o QuotedChar(a[i])
    <3>1. Q[i - 1] \in Seq(Char) /\ Q[i] = Q[i - 1] \o QuotedChar(a[i])
      BY <1>2, <2>1
    <3> DEFINE q == Q[i - 1]
               d == QuotedChar(a[i])
    <3>2. Q[i] = q \o d /\ q \in Seq(Char) /\ d \in Seq(Char)
      BY <2>2, <3>1
    <3>3. s \in Seq(Char)
      BY <1>1
    <3> HIDE DEF q, d, Q, n, Ok
    <3>4. (s \o q) \o d = s \o (q \o d)
      BY <3>2, <3>3, CharsAssociative
    <3> QED BY <3>2, <3>4 DEF q, d
  <2>4. Reading(s \o Q[i - 1], InQuotes, base, SubSeq(a, 1, i - 1))
    BY <1>7
  <2>5. Reading((s \o Q[i - 1]) \o QuotedChar(a[i]), InQuotes, base, Append(SubSeq(a, 1, i - 1), a[i]))
    BY <1>3, <2>1, <2>4, QuotedCharRead
  <2>6. Reading(s \o Q[i], InQuotes, base, SubSeq(a, 1, i))
    BY <1>5, <2>3, <2>5
  <2> QED BY <2>1, <2>6
<1>8. 0 .. n \subseteq Ok
  <2> HIDE DEF Ok, n
  <2> QED BY <1>1, <1>6, <1>7, UpTo
<1>9. n \in 0 .. n
  BY <1>1
<1>10. Reading(s \o Q[n], InQuotes, base, a)
  BY <1>4, <1>8, <1>9
<1>11. s \o Append(Q[n], SQuote) = Append(s \o Q[n], SQuote)
  <2>1. s \in Seq(Char) /\ SQuote \in Char
    BY <1>1
  <2>2. Q[n] \in Seq(Char)
    BY <1>2, <1>9
  <2> HIDE DEF Q, n, Ok
  <2> QED BY <2>1, <2>2, CharsAppend
<1>12. Reading(Append(s \o Q[n], SQuote), Begin, base, a)
  <2> HIDE DEF Q, n
  <2> QED BY <1>1, <1>10, QuoteModes, ReadMark
<1> QED BY <1>11, <1>12

(* The pieces of a line of quoted arguments are these arguments.           *)
LEMMA LineRead ==
  ASSUME NEW args \in Seq(Seq(Char)), Len(args) > 0
  PROVE  /\ Line(args)[Len(args)] \in Seq(Char)
         /\ EndPieces(Line(args)[Len(args)]) = args
<1> DEFINE n == Len(args)
           L == Line(args)
           Done(i) == /\ L[i] \in Seq(Char) /\ EndMode(L[i]) = Begin
                      /\ EndPieces(L[i]) = SubSeq(args, 1, i)
           Ok == {i \in 0 .. n : i > 0 => Done(i)}
<1>1. /\ n \in Nat /\ n > 0 /\ << >> \in Seq(Char) /\ << >> \in Seq(Seq(Char))
      /\ \A i \in 1 .. n : args[i] \in Seq(Char)
  OBVIOUS
<1>2. /\ \A i \in 0 .. n : L[i] \in Seq(Char)
      /\ L[0] = << >> /\ \A i \in 1 .. n : L[i] = LineWith(L[i - 1], i, args[i])
  BY LineIs
<1>3. \A i \in 0 .. n : SubSeq(args, 1, i) \in Seq(Seq(Char))
  <2> TAKE i \in 0 .. n
  <2>1. i \in Int /\ \A j \in 1 .. i : args[j] \in Seq(Char)
    BY <1>1
  <2> QED BY <2>1, SubSeqProperties
<1>4. SubSeq(args, 1, 0) = << >> /\ SubSeq(args, 1, n) = args
  BY SubSeqEmpty, SubSeqFull
<1>5. \A i \in 1 .. n : SubSeq(args, 1, i) = Append(SubSeq(args, 1, i - 1), args[i])
  <2> TAKE i \in 1 .. n
  <2>1. 1 \in 1 .. Len(args) /\ i \in 1 .. Len(args) /\ i - 1 \in 0 .. n
    BY <1>1
  <2>2. SubSeq(args, 1, i) = SubSeq(args, 1, i - 1) \o <<args[i]>>
    BY <2>1, SubSeqRecursiveSecond
  <2>3. Append(SubSeq(args, 1, i - 1), args[i]) = SubSeq(args, 1, i - 1) \o <<args[i]>>
    BY <1>1, <1>3, <2>1, AppendIsConcat
  <2> QED BY <2>2, <2>3
<1>6. 0 \in Ok
  BY <1>1
<1>7. ASSUME NEW i \in 1 .. n, i - 1 \in Ok PROVE i \in Ok
  <2> DEFINE l == IF i = 1 THEN L[i - 1] ELSE Append(L[i - 1], Space)
             base == SubSeq(args, 1, i - 1)
  <2>1. i - 1 \in 0 .. n /\ i \in 0 .. n /\ args[i] \in Seq(Char) /\ base \in Seq(Seq(Char))
    BY <1>1, <1>3
  <2>2. Reading(l, Begin, base, << >>)
    <3>1. CASE i = 1
      <4>1. l = << >> /\ base = << >>
        BY <1>2, <1>4, <3>1
      <4>2. Len(<< >>) = 0 /\ Append(<< >>, << >>) = << << >> >>
        OBVIOUS
      <4>3. EndMode(<< >>) = Begin /\ EndPieces(<< >>) = << << >> >>
        BY <1>1, <4>2, ModeIs, PiecesIs DEF EndMode, EndPieces
      <4> QED BY <1>1, <4>1, <4>2, <4>3 DEF Reading
    <3>2. CASE i # 1
      <4>1. L[i - 1] \in Seq(Char) /\ EndMode(L[i - 1]) = Begin /\ EndPieces(L[i - 1]) = base
        BY <1>7, <3>2
      <4>2. Space \in Char /\ Separates(Begin, Space) /\ ModeAfter(Begin, Space) = Begin
        BY DEF Char, Special, Separates, Begin, ModeAfter
      <4> HIDE DEF L, base
      <4>3. /\ l \in Seq(Char) /\ EndMode(l) = Begin
            /\ EndPieces(l) = PiecesAfter(base, Begin, Space)
        BY <3>2, <4>1, <4>2, Appended
      <4> QED BY <4>2, <4>3 DEF Reading, PiecesAfter
    <3> QED BY <3>1, <3>2
  <2>3. L[i] = l \o Append(Quoted(args[i])[Len(args[i])], SQuote)
    BY <1>2 DEF LineWith
  <2> HIDE DEF l, base, L
  <2>4. Reading(L[i], Begin, base, args[i])
    BY <2>1, <2>2, <2>3, QuotedRead
  <2>5. SubSeq(args, 1, i) = Append(base, args[i])
    BY <1>5 DEF base
  <2> QED BY <2>1, <2>4, <2>5 DEF Reading
<1>8. 0 .. n \subseteq Ok
  <2> HIDE DEF Ok, n
  <2> QED BY <1>1, <1>6, <1>7, UpTo
<1>9. n \in Ok
  BY <1>1, <1>8
<1> HIDE DEF L
<1> QED BY <1>1, <1>4, <1>9 DEF L

(* No argument is lost where none is empty.                                *)
LEMMA NoneEmpty ==
  ASSUME NEW q \in Seq(Seq(Char)), \A i \in 1 .. Len(q) : q[i] # << >>
  PROVE  NonEmpty(q)[Len(q)] = q
<1> DEFINE n == Len(q)
           N == NonEmpty(q)
           Ok == {i \in 0 .. n : N[i] = SubSeq(q, 1, i)}
<1>1. n \in Nat /\ SubSeq(q, 1, 0) = << >> /\ SubSeq(q, 1, n) = q
  BY SubSeqEmpty, SubSeqFull
<1>2. N[0] = << >> /\ \A i \in 1 .. n : N[i] = WithPiece(N[i - 1], q[i])
  BY NonEmptyIs
<1>3. 0 \in Ok
  <2>1. 0 \in 0 .. n /\ N[0] = SubSeq(q, 1, 0)
    <3> HIDE DEF N
    <3> QED BY <1>1, <1>2
  <2> QED BY <2>1
<1>4. ASSUME NEW i \in 1 .. n, i - 1 \in Ok PROVE i \in Ok
  <2>1. /\ 1 \in 1 .. Len(q) /\ i \in 1 .. Len(q) /\ i \in 0 .. n /\ q[i] \in Seq(Char)
        /\ i - 1 \in Int /\ \A j \in 1 .. i - 1 : q[j] \in Seq(Char)
    BY <1>1
  <2>2. SubSeq(q, 1, i) = SubSeq(q, 1, i - 1) \o <<q[i]>>
    BY <2>1, SubSeqRecursiveSecond
  <2>3. SubSeq(q, 1, i - 1) \in Seq(Seq(Char))
    BY <2>1, SubSeqProperties
  <2>4. Append(SubSeq(q, 1, i - 1), q[i]) = SubSeq(q, 1, i - 1) \o <<q[i]>>
    BY <2>1, <2>3, AppendIsConcat
  <2>5. N[i] = Append(SubSeq(q, 1, i - 1), q[i])
    BY <1>2, <1>4 DEF WithPiece
  <2> QED BY <2>1, <2>2, <2>4, <2>5
<1>5. 0 .. n \subseteq Ok
  <2> HIDE DEF Ok, n
  <2> QED BY <1>1, <1>3, <1>4, UpTo
<1>6. n \in Ok
  BY <1>1, <1>5
<1> HIDE DEF N
<1>7. N[n] = SubSeq(q, 1, n)
  BY <1>6
<1> QED BY <1>1, <1>7 DEF N

LEMMA LineArguments ==
  ASSUME NEW args \in ArgLists
  PROVE  Arguments(LineOf[args]) = args
<1>1. args \in Seq(Seq(Char)) /\ \A i \in 1 .. Len(args) : args[i] # << >>
  OBVIOUS
<1>2. LineOf[args] = Line(args)[Len(args)]
  BY DEF LineOf
<1>3. Arguments(LineOf[args]) = NonEmpty(EndPieces(LineOf[args]))[Len(EndPieces(LineOf[args]))]
  BY DEF Arguments, EndPieces
<1>4. CASE Len(args) > 0
  BY <1>1, <1>2, <1>3, <1>4, LineRead, NoneEmpty
<1>5. CASE ~(Len(args) > 0)
  <2>1. args = << >> /\ Len(args) = 0
    BY <1>1, <1>5
  <2>2. LineOf[args] = << >>
    BY <1>1, <1>2, <2>1, LineIs
  <2>3. << >> \in Seq(Char) /\ Len(<< >>) = 0
    OBVIOUS
  <2>4. EndPieces(<< >>) = << << >> >>
    BY <2>3, PiecesIs DEF EndPieces
  <2> DEFINE q == << << >> >>
  <2>5. q \in Seq(Seq(Char)) /\ Len(q) = 1 /\ 1 \in 1 .. Len(q) /\ 1 - 1 = 0 /\ q[1] = << >>
    BY <2>3
  <2> HIDE DEF q
  <2>6. NonEmpty(q)[1] = WithPiece(<< >>, << >>)
    <3>1. NonEmpty(q)[0] = << >> /\ NonEmpty(q)[1] = WithPiece(NonEmpty(q)[1 - 1], q[1])
      BY <2>5, NonEmptyIs
    <3> QED BY <2>5, <3>1
  <2>7. NonEmpty(q)[Len(q)] = << >>
    BY <2>5, <2>6 DEF WithPiece
  <2> QED BY <1>3, <2>1, <2>2, <2>4, <2>7 DEF q
<1> QED BY <1>4, <1>5

(* A program gets the arguments that were quoted on its command line,      *)
(* however many and however long they are.                                 *)
THEOREM RoundTripHolds == Spec => []RoundTrip
<1>1. Inv /\ SplitsAsDefined => RoundTrip
  <2> SUFFICES ASSUME Inv, SplitsAsDefined, done, SeenUpTo(Len(argv)),
                      NEW args \in ArgLists, cmd = LineOf[args]
               PROVE  argv = args
    BY DEF RoundTrip
  <2>1. Arguments(cmd) = args
    BY LineArguments
  <2>2. argv \in Seq(Seq(Char) \cup {Null}) /\ Len(argv) \in Nat /\ DOMAIN argv = 1 .. Len(argv)
    BY DEF Inv, TypeOK
  <2>3. Len(argv) = Len(args) /\ \A i \in 1 .. Len(argv) : argv[i] = args[i]
    BY <2>1, <2>2 DEF SplitsAsDefined, SeenUpTo
  <2>4. args \in Seq(Seq(Char) \cup {Null})
    OBVIOUS
  <2> QED BY <2>2, <2>3, <2>4, SeqEqual
<1>2. Spec => []Inv
  BY InitInv, NextInv, PTL DEF Spec
<1> QED BY <1>1, <1>2, SplitsAsDefinedHolds, PTL
=============================================================================
