------------------------ MODULE NetInterfacesProofs ------------------------
(***************************************************************************)
(* Proofs about NetInterfaces, for tables of any length.                   *)
(***************************************************************************)
EXTENDS NetInterfaces, TLAPS

USE InterfacesAssumption

LEMMA RowIndex ==
  ASSUME NEW table \in Seq(Row), NEW k \in 1 .. Len(table)
  PROVE  /\ table[k].name \in Names /\ table[k].name # Null
         /\ IndexOf[table[k].name] \in Nat /\ IndexOf[table[k].name] # 0
<1>1. table[k] \in Row
  OBVIOUS
<1>2. table[k].name \in Names
  BY <1>1 DEF Row
<1>3. IndexOf[table[k].name] \in Nat \ {0}
  BY <1>2
<1> QED BY <1>2, <1>3

(* Only the last entry ends the array.                                     *)
LEMMA ListedIsNoEnd ==
  ASSUME snap \in Seq(Row), NEW n \in Nat, NEW m \in Nat, m <= Len(snap),
         ListsFirst(n, m), NEW j \in 1 .. n
  PROVE  ~AtEnd(ni[j])
<1>1. PICK k \in 1 .. m : ni[j].if_index = Index(k)
  BY DEF ListsFirst
<1>2. k \in 1 .. Len(snap)
  BY <1>1
<1> QED BY <1>1, <1>2, RowIndex DEF AtEnd, Index

LEMMA NameBlocksNi ==
  ASSUME NEW from
  PROVE  /\ Block("table") \notin NameBlocks(from)
         /\ Block("array") \notin NameBlocks(from)
  BY DEF Block, NameBlock, NameBlocks

(* The tables that were left are no blocks of a call in progress.          *)
LEMMA LeftByIs ==
  ASSUME empties \subseteq Functions
  PROVE  /\ LeftBy \subseteq Blocks
         /\ Block("table") \notin LeftBy /\ Block("list") \notin LeftBy
         /\ Block("array") \notin LeftBy /\ \A k : NameBlock(k) \notin LeftBy
  BY DEF LeftBy, Block, NameBlock, Blocks, Functions

LEMMA EmptyTable == << >> \in Seq(Row)
  OBVIOUS

LEMMA LeftBySame ==
  ASSUME empties' = empties
  PROVE  LeftBy' = LeftBy
  BY DEF LeftBy, Block

LEMMA InitInv == Init => IInv
<1> SUFFICES ASSUME Init PROVE IInv
  OBVIOUS
<1>1. ni \in Seq(Entry) /\ snap \in Seq(Row) /\ Len(ni) = 0 /\ Len(snap) = 0
  BY DEF Init
<1>2. trip \in Trips
  BY DEF Init, NoTrip, Trips
<1>3. TypeOK
  BY <1>1, <1>2 DEF Init, TypeOK, Room
<1>4. HeapIs
  BY DEF Init, HeapIs, LeftBy, Functions
<1> QED BY <1>3, <1>4 DEF Init, IInv, Progress, NamesListed

(* A step that leaves ni as it is, outside if_nameindex().                 *)
Outside == {"idle", "list", "named", "back"} \cup Functions

LEMMA Elsewhere ==
  ASSUME IInv, pc \in Outside, pc' \in Outside,
         snap' \in Seq(Row), UNCHANGED <<ni, i>>,
         heap' \subseteq Blocks, HeapIs', trip' \in Trips, empties' \subseteq Functions
  PROVE  IInv'
<1>1. ni = << >> /\ ni \in Seq(Entry) /\ Len(ni) = 0
  BY DEF IInv, Progress, TypeOK, Outside, Functions
<1>2. Len(snap') \in Nat
  OBVIOUS
<1>3. TypeOK'
  <2>1. i \in Nat /\ ni' = ni /\ i' = i /\ Len(ni') <= Len(snap') + 1
    BY <1>1, <1>2 DEF IInv, TypeOK
  <2> QED BY <1>1, <2>1 DEF TypeOK, Room, Outside
<1>4. pc' \notin {"scan", "held", "free"} /\ ni' = << >>
  BY <1>1 DEF Outside, Functions
<1>5. Progress' /\ NamesListed'
  BY <1>4 DEF Progress, NamesListed
<1> QED BY <1>3, <1>5 DEF IInv

(* The host's answer.                                                      *)
LEMMA HostCallKeeps ==
  ASSUME IInv, NEW fn \in Functions, NEW table \in Tables, HostCall(fn, table)
  PROVE  IInv'
<1>1. /\ pc \in {"idle", "named"} /\ pc' = fn /\ snap' = table /\ snap' \in Seq(Row)
      /\ heap = LeftBy /\ empties \subseteq Functions /\ UNCHANGED <<ni, i>>
      /\ trip \in Trips /\ trip' = [trip EXCEPT !.same = (pc = "named" /\ table = snap)]
  BY DEF HostCall, IInv, TypeOK, HeapIs
<1>2. trip' \in Trips
  BY <1>1 DEF Trips
<1>3. heap' \subseteq {Block("table")} \cup LeftBy /\ empties' \subseteq Functions
  BY <1>1 DEF HostCall
<1>4. heap' \subseteq Blocks
  <2>1. Block("table") \in Blocks
    BY DEF Block, Blocks
  <2> QED BY <1>1, <1>3, <2>1, LeftByIs
<1>5. Block("table") \notin LeftBy
  BY <1>1, LeftByIs
<1>6. heap' \ {Block("table")} = LeftBy
  BY <1>1, <1>5 DEF HostCall
<1>7. CASE empties' = empties
  <2>1. LeftBy' = LeftBy
    BY <1>7, LeftBySame
  <2>2. Block("table") \in heap' => table # << >> \/ fn \in empties
    BY <1>1, <1>5, <1>7 DEF HostCall
  <2>3. fn \in empties /\ fn # "if_nameindex" => Block(fn) \in LeftBy
    BY DEF LeftBy
  <2>4. fn # "if_nameindex" =>
          (IF table = << >> THEN {IF b = Block("table") THEN Block(fn) ELSE b : b \in heap'}
           ELSE heap' \ {Block("table")}) = LeftBy
    BY <1>5, <1>6, <2>2, <2>3
  <2>5. Released(fn)' = IF table = << >> THEN {IF b = Block("table") THEN Block(fn) ELSE b : b \in heap'}
                        ELSE heap' \ {Block("table")}
    BY <1>1 DEF Released, Abandoned, Block
  <2>6. pc' \in Functions \ {"if_nameindex"} => Released(pc)' = LeftBy'
    BY <1>1, <2>1, <2>4, <2>5 DEF Released, Abandoned, Block
  <2>7. HeapIs'
    BY <1>1, <1>6, <2>1, <2>6 DEF HeapIs, Functions, Block
  <2> QED BY <1>1, <1>2, <1>3, <1>4, <2>7, Elsewhere DEF Outside
<1>8. CASE empties' # empties
  <2>1. table = << >> /\ heap' = LeftBy \cup {Block("table")} /\ empties' = empties \cup {fn}
    BY <1>1, <1>8 DEF HostCall
  <2>2. fn # "if_nameindex" => LeftBy' = LeftBy \cup {Block(fn)}
    BY <2>1 DEF LeftBy, Block
  <2>3. fn = "if_nameindex" => LeftBy' = LeftBy
    BY <2>1 DEF LeftBy, Block
  <2>4. {IF b = Block("table") THEN Block(fn) ELSE b : b \in heap'} = LeftBy \cup {Block(fn)}
    BY <1>5, <2>1
  <2>5. Released(fn)' = {IF b = Block("table") THEN Block(fn) ELSE b : b \in heap'}
    BY <1>1, <2>1 DEF Released, Abandoned, Block
  <2>6. pc' \in Functions \ {"if_nameindex"} => Released(pc)' = LeftBy'
    BY <1>1, <2>2, <2>4, <2>5 DEF Released, Abandoned, Block
  <2>7. HeapIs'
    BY <1>1, <1>6, <2>3, <2>6 DEF HeapIs, Functions, Block
  <2> QED BY <1>1, <1>2, <1>3, <1>4, <2>7, Elsewhere DEF Outside
<1> QED BY <1>7, <1>8

LEMMA TripSteps ==
  ASSUME IInv, (\E n \in Names : IndexToName(IndexOf[n])) \/ NameToIndex
  PROVE  trip' \in Trips
<1> USE DEF Trips
<1>0. snap \in Seq(Row) /\ trip \in Trips
  BY DEF IInv, TypeOK
<1>1. ASSUME NEW n \in Names, IndexToName(IndexOf[n]), trip' # trip PROVE trip' \in Trips
  <2>1. PICK k \in 1 .. Len(snap) :
          trip' = [trip EXCEPT !.index = IndexOf[n], !.name = snap[k].name]
    BY <1>1 DEF IndexToName, IsFirst
  <2>2. snap[k].name \in Names /\ IndexOf[n] \in Nat
    BY <1>0, RowIndex
  <2> QED BY <1>0, <2>1, <2>2
<1>2. CASE NameToIndex
  <2>1. PICK ix \in {Index(k) : k \in 1 .. Len(snap)} \cup {0} : trip' = [trip EXCEPT !.back = ix]
    BY <1>2 DEF NameToIndex
  <2>2. ix \in Nat
    BY <1>0, RowIndex DEF Index
  <2> QED BY <1>0, <2>1, <2>2
<1> QED BY <1>0, <1>1, <1>2

(* One entry of the table is looked at.                                    *)
LEMMA ScanKeeps ==
  ASSUME IInv, Scan
  PROVE  IInv'
<1>1. /\ pc = "scan" /\ pc' = "scan" /\ snap' = snap /\ snap \in Seq(Row)
      /\ Len(snap) \in Nat /\ i \in 1 .. Len(snap) /\ i' = i + 1 /\ trip' = trip
      /\ ni \in Seq(Entry) /\ Len(ni) \in Nat /\ Len(ni) < i /\ ListsFirst(Len(ni), i - 1)
      /\ heap \ {Block("table")} = {Block("array")} \cup NameBlocks(1) \cup LeftBy
      /\ heap \subseteq Blocks /\ LeftBy' = LeftBy
      /\ trip \in Trips /\ empties' = empties /\ empties \subseteq Functions
  BY LeftBySame DEF Scan, IInv, TypeOK, Progress, HeapIs
<1>2. snap[i].name \in Names /\ Index(i) \in Nat /\ Index(i) # 0
  BY <1>1, RowIndex DEF Index
<1>3. ASSUME NEW k \in 1 .. Len(snap) PROVE Index(k)' = Index(k)
  BY <1>1 DEF Index
<1>4. CASE Listed(Index(i)) /\ UNCHANGED <<ni, heap>>
  <2>1. ListsFirst(Len(ni), i)
    <3>1. PICK m \in 1 .. Len(ni) : ni[m].if_index = Index(i)
      BY <1>4 DEF Listed
    <3>2. \A k \in 1 .. i : k = i \/ k \in 1 .. i - 1
      BY <1>1
    <3>3. 1 .. i - 1 \subseteq 1 .. i
      BY <1>1
    <3> HIDE DEF Index
    <3>4. \A k \in 1 .. i : \E j \in 1 .. Len(ni) : ni[j].if_index = Index(k)
      BY <1>1, <3>1, <3>2 DEF ListsFirst
    <3>5. \A j \in 1 .. Len(ni) : \E k \in 1 .. i :
            /\ ni[j].if_index = Index(k) /\ ni[j].if_name \in {snap[k].name, Null}
            /\ \A l \in 1 .. k - 1 : Index(l) # Index(k)
      BY <1>1, <3>3 DEF ListsFirst
    <3> QED BY <1>1, <3>4, <3>5 DEF ListsFirst
  <2>2. ListsFirst(Len(ni), i - 1)'
    <3>1. ni' = ni /\ i' - 1 = i /\ snap' = snap
      BY <1>1, <1>4
    <3> QED BY <2>1, <3>1 DEF ListsFirst, Index
  <2>3. TypeOK'
    BY <1>1, <1>4 DEF TypeOK, Room
  <2>4. Progress'
    BY <1>1, <1>4, <2>2 DEF Progress
  <2>5. NameBlocks(1)' = NameBlocks(1)
    BY <1>4 DEF NameBlocks, NameBlock
  <2>6. HeapIs'
    BY <1>1, <1>4, <2>5 DEF HeapIs, Block, Functions
  <2> QED BY <1>1, <2>3, <2>4, <2>6 DEF IInv, NamesListed
<1>5. ASSUME NEW name \in {snap[i].name, Null}, ~Listed(Index(i)), AddEntry(name)
      PROVE  IInv'
  <2> DEFINE e == [if_index |-> Index(i), if_name |-> name]
             n == Len(ni)
  <2>1. ni' = Append(ni, e) /\ e \in Entry
    BY <1>2, <1>5 DEF AddEntry, Entry
  <2>2. /\ ni' \in Seq(Entry) /\ Len(ni') = n + 1 /\ ni'[n + 1] = e
        /\ \A j \in 1 .. n : ni'[j] = ni[j]
    <3> HIDE DEF e
    <3> QED BY <1>1, <2>1
  <2>3. TypeOK'
    <3>1. NameBlock(n + 1) \in Blocks
      BY <1>1 DEF NameBlock, Blocks
    <3>2. heap' \subseteq Blocks
      BY <1>1, <1>5, <3>1 DEF AddEntry
    <3> QED BY <1>1, <2>2, <3>2 DEF TypeOK, Room
  <2>4. ListsFirst(Len(ni), i - 1)'
    <3>1. ASSUME NEW j \in 1 .. n + 1, NEW k \in 1 .. n + 1, ni'[j].if_index = ni'[k].if_index
          PROVE  j = k
      <4>1. \A l \in 1 .. n : ni[l].if_index # Index(i)
        BY <1>5 DEF Listed
      <4>2. \A l, m \in 1 .. n : ni[l].if_index = ni[m].if_index => l = m
        BY <1>1 DEF ListsFirst
      <4>3. j \in 1 .. n \/ j = n + 1
        BY <1>1
      <4>4. k \in 1 .. n \/ k = n + 1
        BY <1>1
      <4>5. ni'[n + 1].if_index = Index(i)
        BY <2>2
      <4>6. CASE j \in 1 .. n /\ k \in 1 .. n
        BY <2>2, <3>1, <4>2, <4>6
      <4>7. CASE j \in 1 .. n /\ k = n + 1
        BY <2>2, <3>1, <4>1, <4>5, <4>7
      <4>8. CASE j = n + 1 /\ k \in 1 .. n
        BY <2>2, <3>1, <4>1, <4>5, <4>8
      <4> QED BY <4>3, <4>4, <4>6, <4>7, <4>8
    <3>2. ASSUME NEW k \in 1 .. i
          PROVE  \E j \in 1 .. n + 1 : ni'[j].if_index = Index(k)
      <4>1. CASE k = i
        <5>1. n + 1 \in 1 .. n + 1 /\ ni'[n + 1].if_index = Index(k)
          BY <1>1, <2>2, <4>1
        <5> QED BY <5>1
      <4>2. CASE k \in 1 .. i - 1
        <5>1. PICK j \in 1 .. n : ni[j].if_index = Index(k)
          BY <1>1, <4>2 DEF ListsFirst
        <5>2. j \in 1 .. n + 1 /\ ni'[j].if_index = Index(k)
          BY <1>1, <2>2, <5>1
        <5> QED BY <5>2
      <4>3. k = i \/ k \in 1 .. i - 1
        BY <1>1
      <4> QED BY <4>1, <4>2, <4>3
    <3>3. ASSUME NEW j \in 1 .. n + 1
          PROVE  \E k \in 1 .. i :
                   /\ ni'[j].if_index = Index(k) /\ ni'[j].if_name \in {snap[k].name, Null}
                   /\ \A l \in 1 .. k - 1 : Index(l) # Index(k)
      <4>1. CASE j = n + 1
        <5>1. ASSUME NEW l \in 1 .. i - 1 PROVE Index(l) # Index(i)
          <6>1. PICK m \in 1 .. n : ni[m].if_index = Index(l)
            BY <1>1 DEF ListsFirst
          <6> QED BY <1>5, <6>1 DEF Listed
        <5>2. /\ i \in 1 .. i /\ ni'[j].if_index = Index(i)
              /\ ni'[j].if_name \in {snap[i].name, Null}
          BY <1>1, <2>2, <4>1
        <5> QED BY <5>1, <5>2
      <4>2. CASE j \in 1 .. n
        <5>1. PICK k \in 1 .. i - 1 :
                /\ ni[j].if_index = Index(k) /\ ni[j].if_name \in {snap[k].name, Null}
                /\ \A l \in 1 .. k - 1 : Index(l) # Index(k)
          BY <1>1, <4>2 DEF ListsFirst
        <5>2. k \in 1 .. i /\ ni'[j] = ni[j]
          BY <1>1, <2>2, <4>2
        <5> QED BY <5>1, <5>2
      <4>3. j = n + 1 \/ j \in 1 .. n
        BY <1>1
      <4> QED BY <4>1, <4>2, <4>3
    <3> HIDE DEF e
    <3>4. Len(ni') = n + 1 /\ i' - 1 = i /\ snap' = snap
      BY <1>1, <2>2
    <3> HIDE DEF n
    <3>5. \A k : Index(k)' = Index(k)
      BY <3>4 DEF Index
    <3>6. \A j, k \in 1 .. Len(ni') : ni'[j].if_index = ni'[k].if_index => j = k
      BY <3>1, <3>4
    <3>7. \A k \in 1 .. i' - 1 : \E j \in 1 .. Len(ni') : ni'[j].if_index = Index(k)'
      BY <3>2, <3>4, <3>5
    <3>8. \A j \in 1 .. Len(ni') : \E k \in 1 .. i' - 1 :
            /\ ni'[j].if_index = Index(k)' /\ ni'[j].if_name \in {snap'[k].name, Null}
            /\ \A l \in 1 .. k - 1 : Index(l)' # Index(k)'
      BY <3>3, <3>4, <3>5
    <3> QED BY <3>6, <3>7, <3>8 DEF ListsFirst, Index
  <2>5. Progress'
    <3>1. i' \in 1 .. Len(snap') + 1 /\ Len(ni') < i'
      BY <1>1, <2>2
    <3> QED BY <1>1, <2>4, <3>1 DEF Progress
  <2>6. HeapIs'
    <3>1. NameBlocks(1)' = NameBlocks(1) \cup (IF name = Null THEN {} ELSE {NameBlock(n + 1)})
      <4>1. 1 .. Len(ni') = 1 .. n + 1 /\ 1 .. n + 1 = (1 .. n) \cup {n + 1}
        BY <1>1, <2>2
      <4>2. ni'[n + 1].if_name = name
        BY <2>2
      <4> HIDE DEF n, e
      <4>3. NameBlocks(1) = {NameBlock(j) : j \in {k \in 1 .. n : ni[k].if_name # Null}}
        BY DEF NameBlocks, n
      <4>4. {k \in 1 .. Len(ni') : ni'[k].if_name # Null} =
              {k \in 1 .. n : ni[k].if_name # Null} \cup (IF name = Null THEN {} ELSE {n + 1})
        BY <2>2, <4>1, <4>2
      <4>5. NameBlocks(1)' = {NameBlock(j) : j \in {k \in 1 .. Len(ni') : ni'[k].if_name # Null}}
        BY DEF NameBlocks, NameBlock
      <4> QED BY <4>3, <4>4, <4>5
    <3>2. NameBlock(n + 1) # Block("table")
      BY DEF NameBlock, Block
    <3>3. heap' \ {Block("table")} = {Block("array")} \cup NameBlocks(1)' \cup LeftBy'
      BY <1>1, <1>5, <3>1, <3>2 DEF AddEntry
    <3> QED BY <1>1, <3>3 DEF HeapIs, Block, Functions
  <2> QED BY <1>1, <2>3, <2>5, <2>6 DEF IInv, NamesListed
<1> QED BY <1>4, <1>5 DEF Scan

(* The entry that ends the array is appended.                              *)
LEMMA FinishKeeps ==
  ASSUME IInv, Finish
  PROVE  IInv'
<1> DEFINE n == Len(ni)
<1>1. /\ pc = "scan" /\ pc' = "held" /\ snap' = snap /\ snap \in Seq(Row) /\ i' = i
      /\ Len(snap) \in Nat /\ i = Len(snap) + 1 /\ trip' = trip /\ trip \in Trips
      /\ ni \in Seq(Entry) /\ n \in Nat /\ n < i /\ ListsFirst(n, Len(snap))
      /\ heap \ {Block("table")} = {Block("array")} \cup NameBlocks(1) \cup LeftBy
      /\ heap \subseteq Blocks /\ LeftBy' = LeftBy /\ empties' = empties /\ empties \subseteq Functions
      /\ heap' = heap \ {Block("table")} /\ ni' = Append(ni, End)
  <2>1. /\ pc = "scan" /\ pc' = "held" /\ UNCHANGED <<snap, i, trip, empties>> /\ i > Len(snap)
        /\ heap' = heap \ {Block("table")} /\ ni' = Append(ni, End)
    BY DEF Finish
  <2>2. /\ snap \in Seq(Row) /\ trip \in Trips /\ ni \in Seq(Entry) /\ heap \subseteq Blocks
        /\ empties \subseteq Functions /\ n \in Nat /\ Len(snap) \in Nat
    BY DEF IInv, TypeOK
  <2>3. i \in 1 .. Len(snap) + 1 /\ n < i /\ ListsFirst(n, i - 1)
    BY <2>1 DEF IInv, Progress
  <2>4. i = Len(snap) + 1 /\ i - 1 = Len(snap)
    BY <2>1, <2>2, <2>3
  <2>5. heap \ {Block("table")} = {Block("array")} \cup NameBlocks(1) \cup LeftBy
    BY <2>1 DEF IInv, HeapIs
  <2>6. LeftBy' = LeftBy
    BY <2>1, LeftBySame
  <2> HIDE DEF n
  <2> QED BY <2>1, <2>2, <2>3, <2>4, <2>5, <2>6
<1>2. End \in Entry /\ AtEnd(End) /\ End.if_name = Null
  BY DEF End, Entry, AtEnd
<1>3. /\ ni' \in Seq(Entry) /\ Len(ni') = n + 1 /\ ni'[n + 1] = End
      /\ \A j \in 1 .. n : ni'[j] = ni[j]
  BY <1>1, <1>2
<1>4. \A j \in 1 .. n : ~AtEnd(ni[j])
  BY <1>1, ListedIsNoEnd
<1> HIDE DEF n
<1>5. \A j \in 1 .. Len(ni') : AtEnd(ni'[j]) <=> j = Len(ni')
  <2>1. \A j \in 1 .. Len(ni') : j \in 1 .. n \/ j = n + 1
    BY <1>1, <1>3
  <2>2. n + 1 \notin 1 .. n
    BY <1>1
  <2> QED BY <1>2, <1>3, <1>4, <2>1, <2>2
<1>6. NamesListed'
  <2>1. Len(ni') - 1 = n /\ snap' = snap
    BY <1>1, <1>3
  <2>2. \A k \in 1 .. Len(snap) : \E j \in 1 .. n : ni'[j].if_index = Index(k)
    BY <1>1, <1>3 DEF ListsFirst
  <2>3. \A j \in 1 .. n : \E k \in 1 .. Len(snap) :
          /\ ni'[j].if_index = Index(k) /\ ni'[j].if_name \in {snap[k].name, Null}
          /\ \A l \in 1 .. k - 1 : Index(l) # Index(k)
    <3>1. \A j \in 1 .. n : \E k \in 1 .. Len(snap) :
            /\ ni[j].if_index = Index(k) /\ ni[j].if_name \in {snap[k].name, Null}
            /\ \A l \in 1 .. k - 1 : Index(l) # Index(k)
      BY <1>1 DEF ListsFirst
    <3> QED BY <1>3, <3>1
  <2>4. \A j, k \in 1 .. n : ni'[j].if_index = ni'[k].if_index => j = k
    BY <1>1, <1>3 DEF ListsFirst
  <2>5. ListsFirst(Len(ni) - 1, Len(snap))'
    <3>1. snap' = snap /\ 1 .. Len(snap') = 1 .. Len(snap) /\ 1 .. Len(ni') - 1 = 1 .. n
      BY <2>1
    <3>2. \A k : Index(k)' = Index(k)
      BY <3>1 DEF Index
    <3>3. \A k \in 1 .. Len(snap') : \E j \in 1 .. Len(ni') - 1 : ni'[j].if_index = Index(k)'
      BY <2>2, <3>1, <3>2
    <3>4. \A j \in 1 .. Len(ni') - 1 : \E k \in 1 .. Len(snap') :
            /\ ni'[j].if_index = Index(k)' /\ ni'[j].if_name \in {snap'[k].name, Null}
            /\ \A l \in 1 .. k - 1 : Index(l)' # Index(k)'
      <4> SUFFICES ASSUME NEW j \in 1 .. n
                   PROVE  \E k \in 1 .. Len(snap) :
                            /\ ni'[j].if_index = Index(k)'
                            /\ ni'[j].if_name \in {snap'[k].name, Null}
                            /\ \A l \in 1 .. k - 1 : Index(l)' # Index(k)'
        BY <3>1
      <4>1. PICK k \in 1 .. Len(snap) :
              /\ ni'[j].if_index = Index(k) /\ ni'[j].if_name \in {snap[k].name, Null}
              /\ \A l \in 1 .. k - 1 : Index(l) # Index(k)
        BY <2>3
      <4> QED BY <3>1, <3>2, <4>1
    <3> QED BY <2>4, <3>1, <3>3, <3>4 DEF ListsFirst, Index
  <2> QED BY <1>5, <2>5 DEF NamesListed, AtEnd
<1>7. TypeOK'
  BY <1>1, <1>3 DEF TypeOK, Room, IInv
<1>8. Progress'
  BY <1>1, <1>3, <1>5 DEF Progress, Room, AtEnd
<1>9. HeapIs'
  <2>1. 1 .. Len(ni') = (1 .. n) \cup {n + 1} /\ n + 1 \notin 1 .. n
    BY <1>1, <1>3
  <2>2. {k \in 1 .. Len(ni') : ni'[k].if_name # Null} = {k \in 1 .. n : ni[k].if_name # Null}
    BY <1>2, <1>3, <2>1
  <2>3. NameBlocks(1)' = NameBlocks(1)
    BY <2>2 DEF NameBlocks, NameBlock, n
  <2>4. heap' = {Block("array")} \cup NameBlocks(1)' \cup LeftBy'
    BY <1>1, <2>3
  <2> QED BY <1>1, <2>4 DEF HeapIs, Block, Functions
<1> QED BY <1>6, <1>7, <1>8, <1>9 DEF IInv

(* if_freenameindex() frees the names one by one, then the array.          *)
LEMMA FreeKeeps ==
  ASSUME IInv, FreeNameIndex \/ FreeEntry \/ FreeArray
  PROVE  IInv'
<1>1. /\ TypeOK /\ Progress /\ HeapIs /\ trip' = trip
      /\ empties' = empties /\ LeftBy' = LeftBy /\ empties \subseteq Functions
      /\ Len(ni) \in Nat /\ pc \in {"held", "free"}
      /\ \A j \in 1 .. Len(ni) : AtEnd(ni[j]) <=> j = Len(ni)
      /\ Len(ni) \in 1 .. Room
  BY LeftBySame DEF IInv, TypeOK, Progress, FreeNameIndex, FreeEntry, FreeArray
<1>2. CASE FreeNameIndex
  <2>1. pc = "held" /\ pc' = "free" /\ i' = 1 /\ ni' = ni /\ heap' = heap /\ snap' = snap
    BY <1>2 DEF FreeNameIndex
  <2>2. TypeOK'
    BY <1>1, <2>1 DEF TypeOK, Room
  <2>3. Progress'
    BY <1>1, <2>1 DEF Progress, Room, AtEnd
  <2>4. NameBlocks(i)' = NameBlocks(1)
    BY <2>1 DEF NameBlocks, NameBlock
  <2>5. HeapIs'
    BY <1>1, <2>1, <2>4 DEF HeapIs, Block, Functions
  <2> QED BY <2>1, <2>2, <2>3, <2>5 DEF IInv, NamesListed
<1>3. CASE FreeEntry
  <2>1. /\ pc = "free" /\ pc' = "free" /\ i' = i + 1 /\ ni' = ni /\ snap' = snap
        /\ heap' = heap \ {NameBlock(i)} /\ i \in 1 .. Len(ni) /\ ~AtEnd(ni[i])
        /\ heap = {Block("array")} \cup NameBlocks(i) \cup LeftBy
    BY <1>1, <1>3 DEF FreeEntry, Progress, HeapIs
  <2>2. i # Len(ni) /\ i + 1 \in 1 .. Len(ni)
    BY <1>1, <2>1
  <2>3. TypeOK'
    BY <1>1, <2>1, <2>2 DEF TypeOK, Room
  <2>4. Progress'
    BY <1>1, <2>1, <2>2 DEF Progress, Room, AtEnd
  <2>5. heap' = {Block("array")} \cup NameBlocks(i)' \cup LeftBy'
    <3>1. i .. Len(ni) = {i} \cup (i + 1 .. Len(ni)) /\ i \notin i + 1 .. Len(ni)
      BY <1>1, <2>1
    <3>2. NameBlocks(i) \ {NameBlock(i)} = NameBlocks(i + 1)
      BY <3>1 DEF NameBlocks, NameBlock
    <3>3. NameBlocks(i)' = NameBlocks(i + 1)
      BY <2>1 DEF NameBlocks, NameBlock
    <3>4. Block("array") # NameBlock(i) /\ NameBlock(i) \notin LeftBy
      BY <1>1, LeftByIs DEF Block, NameBlock
    <3> QED BY <1>1, <2>1, <3>2, <3>3, <3>4
  <2>6. HeapIs'
    BY <2>1, <2>5 DEF HeapIs, Block, Functions
  <2> QED BY <2>1, <2>3, <2>4, <2>6 DEF IInv, NamesListed
<1>4. CASE FreeArray
  <2>1. /\ pc = "free" /\ pc' = "idle" /\ ni' = << >> /\ i' = 0 /\ snap' = << >>
        /\ heap' = heap \ {Block("array")} /\ i \in 1 .. Len(ni) /\ AtEnd(ni[i])
        /\ heap = {Block("array")} \cup NameBlocks(i) \cup LeftBy
    BY <1>1, <1>4 DEF FreeArray, Progress, HeapIs
  <2>2. i = Len(ni) /\ ni[i].if_name = Null
    BY <1>1, <2>1 DEF AtEnd
  <2>3. NameBlocks(i) = {}
    <3>1. i .. Len(ni) = {i}
      BY <1>1, <2>1, <2>2
    <3> QED BY <2>2, <3>1 DEF NameBlocks
  <2>4. heap' = LeftBy' /\ heap' \subseteq Blocks
    <3>1. Block("array") \notin LeftBy /\ LeftBy \subseteq Blocks
      BY <1>1, LeftByIs
    <3> QED BY <1>1, <2>1, <2>3, <3>1
  <2>5. ni' \in Seq(Entry) /\ Len(ni') = 0 /\ snap' \in Seq(Row) /\ Len(snap') = 0
    BY <2>1
  <2>6. TypeOK'
    BY <1>1, <2>1, <2>4, <2>5 DEF TypeOK, Room
  <2>7. HeapIs'
    BY <2>1, <2>4 DEF HeapIs, Functions
  <2> QED BY <2>1, <2>6, <2>7 DEF IInv, Progress, NamesListed
<1> QED BY <1>2, <1>3, <1>4

LEMMA NameIndexKeeps ==
  ASSUME IInv, NameIndex
  PROVE  IInv'
<1>1. /\ pc = "if_nameindex" /\ pc' = "scan" /\ snap' = snap /\ i' = 1 /\ ni' = ni /\ trip' = trip
      /\ heap \ {Block("table")} = LeftBy /\ heap \subseteq Blocks
      /\ heap' = heap \cup {Block("array")} /\ ni = << >> /\ Len(ni) = 0
      /\ snap \in Seq(Row) /\ Len(snap) \in Nat /\ ni \in Seq(Entry) /\ trip \in Trips
      /\ empties' = empties /\ LeftBy' = LeftBy /\ empties \subseteq Functions
  BY LeftBySame DEF NameIndex, IInv, TypeOK, Progress, HeapIs
<1>2. NameBlocks(1)' = {}
  BY <1>1 DEF NameBlocks
<1>3. HeapIs'
  <2>1. Block("array") # Block("table")
    BY DEF Block
  <2>2. heap' \ {Block("table")} = {Block("array")} \cup LeftBy
    BY <1>1, <2>1
  <2> QED BY <1>1, <1>2, <2>2 DEF HeapIs, Block, Functions
<1>4. TypeOK'
  <2>1. Block("array") \in Blocks
    BY DEF Block, Blocks
  <2> QED BY <1>1, <2>1 DEF TypeOK, Room
<1>5. Progress'
  BY <1>1 DEF Progress, ListsFirst
<1> QED BY <1>1, <1>3, <1>4, <1>5 DEF IInv, NamesListed

(* A function other than if_nameindex() is done with the table.            *)
LEMMA BodyKeeps ==
  ASSUME IInv, pc \in Functions \ {"if_nameindex"}, pc' \in {"idle", "named", "back", "list"},
         heap' = Released(pc) \cup (IF pc' = "list" THEN {Block("list")} ELSE {}),
         snap' \in {snap, << >>}, UNCHANGED <<ni, i, empties>>, trip' \in Trips
  PROVE  IInv'
<1>1. /\ Released(pc) = LeftBy /\ LeftBy' = LeftBy /\ snap' \in Seq(Row)
      /\ empties \subseteq Functions /\ LeftBy \subseteq Blocks
  <2>1. Released(pc) = LeftBy
    BY DEF IInv, HeapIs
  <2>2. snap \in Seq(Row) /\ empties \subseteq Functions
    BY DEF IInv, TypeOK
  <2>3. snap' \in Seq(Row)
    BY <2>2, EmptyTable
  <2> QED BY <2>1, <2>2, <2>3, LeftBySame, LeftByIs
<1>2. Block("list") \in Blocks
  BY DEF Block, Blocks
<1>3. heap' \subseteq Blocks
  BY <1>1, <1>2
<1>4. HeapIs'
  BY <1>1 DEF HeapIs, Functions, Block
<1> QED BY <1>1, <1>3, <1>4, Elsewhere DEF Outside

LEMMA NextInv == IInv /\ [Next]_vars => IInv'
<1> SUFFICES ASSUME IInv, [Next]_vars PROVE IInv'
  OBVIOUS
<1>1. TypeOK /\ HeapIs /\ Progress
  BY DEF IInv
<1>2. CASE GetIfAddrs \/ GetIfAddrsNone
  <2>1. trip' = trip /\ trip \in Trips
    BY <1>1, <1>2 DEF GetIfAddrs, GetIfAddrsNone, TypeOK
  <2>2. /\ pc = "getifaddrs" /\ snap' = snap /\ UNCHANGED <<ni, i, empties>>
        /\ \/ pc' = "list" /\ heap' = Released("getifaddrs") \cup {Block("list")}
           \/ pc' = "idle" /\ heap' = Released("getifaddrs")
    BY <1>2 DEF GetIfAddrs, GetIfAddrsNone
  <2> QED BY <2>1, <2>2, BodyKeeps DEF Functions
<1>3. CASE (\E n \in Names : IndexToName(IndexOf[n])) \/ NameToIndex
  <2>1. trip' \in Trips
    BY <1>3, TripSteps
  <2>2. /\ pc \in {"if_indextoname", "if_nametoindex"} /\ pc' \in {"idle", "named", "back"}
        /\ heap' = Released(pc) /\ snap' \in {snap, << >>} /\ UNCHANGED <<ni, i, empties>>
    BY <1>3 DEF IndexToName, NameToIndex
  <2> QED BY <2>1, <2>2, BodyKeeps DEF Functions
<1>4. CASE FreeIfAddrs \/ Forget
  <2>0. trip \in Trips /\ empties \subseteq Functions /\ NoTrip \in Trips
    BY <1>1 DEF TypeOK, NoTrip, Trips
  <2>1. /\ pc \in {"list", "back"} /\ pc' = "idle" /\ snap' \in Seq(Row)
        /\ UNCHANGED <<ni, i, empties>> /\ empties \subseteq Functions
        /\ heap' = heap \ (IF pc = "list" THEN {Block("list")} ELSE {})
    BY <1>4, <2>0, EmptyTable DEF FreeIfAddrs, Forget
  <2>2. trip' \in Trips
    BY <1>4, <2>0 DEF FreeIfAddrs, Forget
  <2>3. Block("list") \notin LeftBy /\ LeftBy \subseteq Blocks /\ LeftBy' = LeftBy
    BY <2>1, LeftByIs, LeftBySame
  <2>4. heap' = LeftBy
    BY <1>1, <2>1, <2>3 DEF HeapIs
  <2>5. HeapIs'
    BY <2>1, <2>3, <2>4 DEF HeapIs, Functions
  <2> QED BY <2>1, <2>2, <2>3, <2>4, <2>5, Elsewhere DEF Outside
<1>5. CASE UNCHANGED vars
  <2> USE <1>5 DEF vars
  <2>1. TypeOK'
    BY <1>1 DEF TypeOK, Room
  <2>2. Progress' /\ NamesListed'
    BY DEF IInv, Progress, Room, NamesListed, ListsFirst, Index, AtEnd
  <2>3. /\ LeftBy' = LeftBy /\ Released(pc)' = Released(pc)
        /\ NameBlocks(1)' = NameBlocks(1) /\ NameBlocks(i)' = NameBlocks(i)
    BY DEF LeftBy, Released, Abandoned, NameBlocks, NameBlock, Block
  <2>4. HeapIs'
    BY <1>1, <2>3 DEF HeapIs, Block, Functions
  <2> QED BY <2>1, <2>2, <2>4 DEF IInv
<1> QED BY <1>2, <1>3, <1>4, <1>5, HostCallKeeps, NameIndexKeeps, ScanKeeps, FinishKeeps, FreeKeeps
        DEF Next

THEOREM Invariance == Spec => []IInv
  BY InitInv, NextInv, PTL DEF Spec

(* Every variable keeps its type, and ret_ni its allocation.               *)
THEOREM TypeCorrect == Spec => []TypeOK
<1>1. IInv => TypeOK
  BY DEF IInv
<1> QED BY <1>1, Invariance, PTL

(* No call and no free function leaves a block behind, whichever strdup()  *)
(* fails, but for the blocks of empty tables that three of them leave.     *)
THEOREM NothingLeaksHolds == Spec => []NothingLeaks
<1>1. IInv => NothingLeaks
  BY DEF IInv, HeapIs, NothingLeaks
<1> QED BY <1>1, Invariance, PTL

(* if_nameindex() lists each interface of the table once.                  *)
THEOREM NamesListedHolds == Spec => []NamesListed
<1>1. IInv => NamesListed
  BY DEF IInv
<1> QED BY <1>1, Invariance, PTL

(* getifaddrs() shows the host's table.                                    *)
THEOREM ListShowsTableHolds == Spec => []ListShowsTable
<1>1. Init => ListShowsTable
  BY DEF Init, ListShowsTable
<1>2. IInv /\ ListShowsTable /\ [Next]_vars => ListShowsTable'
  <2> SUFFICES ASSUME IInv, ListShowsTable, [Next]_vars PROVE ListShowsTable'
    OBVIOUS
  <2>1. CASE GetIfAddrs
    <3> DEFINE table == snap
    <3>1. PICK junk \in Families :
            list' = [k \in 1 .. Len(table) |-> Node(table[k], k, Len(table), junk)]
      BY <2>1 DEF GetIfAddrs
    <3>2. snap' = table /\ Len(table) \in Nat
      BY <2>1 DEF GetIfAddrs, IInv, TypeOK
    <3> HIDE DEF table
    <3>3. DOMAIN list' = 1 .. Len(snap')
      BY <3>1, <3>2
    <3>4. ASSUME NEW k \in 1 .. Len(table)
          PROVE  /\ list'[k].name = snap'[k].name
                 /\ list'[k].addr = IF snap'[k].family \in Internet THEN snap'[k].family
                                    ELSE Null
                 /\ list'[k].next = IF k + 1 \in 1 .. Len(table) THEN k + 1 ELSE 0
      <4>1. list'[k] = Node(table[k], k, Len(table), junk)
        BY <3>1
      <4>2. (k = Len(table)) <=> k + 1 \notin 1 .. Len(table)
        BY <3>2
      <4> QED BY <3>2, <4>1, <4>2 DEF Node, Preset, NextNode
    <3> QED BY <3>2, <3>3, <3>4 DEF ListShowsTable
  <2>2. CASE pc' # "list" \/ UNCHANGED <<pc, snap, list>>
    BY <2>2 DEF ListShowsTable
  <2> QED BY <2>1, <2>2 DEF Next, vars, HostCall, NameIndex, NameToIndex, IndexToName, GetIfAddrsNone,
          FreeIfAddrs, Scan, Finish, FreeNameIndex, FreeEntry, FreeArray, Forget, Functions
<1> QED BY <1>1, <1>2, Invariance, PTL DEF Spec

(* An index comes back from its name, unless that was cut.                 *)
THEOREM IndexComesBackHolds == Spec => []IndexComesBack
<1> DEFINE InTable == \E k \in 1 .. Len(snap) : snap[k].name = trip.name
           Named == /\ pc = "named" => InTable /\ IndexOf[trip.name] = trip.index
                    /\ pc = "if_nametoindex" =>
                         (trip.same => InTable) /\ IndexOf[trip.name] = trip.index
           J == Named /\ IndexComesBack
<1>1. Init => J
  BY DEF Init, IndexComesBack
<1>2. IInv /\ J /\ [Next]_vars => J'
  <2> SUFFICES ASSUME IInv, J, [Next]_vars PROVE J'
    OBVIOUS
  <2>0. trip \in Trips
    BY DEF IInv, TypeOK
  <2>1. ASSUME NEW n \in Names, IndexToName(IndexOf[n]) PROVE J'
    <3>1. CASE pc' = "named"
      <4>1. PICK k \in 1 .. Len(snap) :
              /\ Index(k) = IndexOf[n] /\ snap' = snap
              /\ trip' = [trip EXCEPT !.index = IndexOf[n], !.name = snap[k].name]
        BY <2>1, <3>1 DEF IndexToName, IsFirst
      <4>2. trip'.index = IndexOf[n] /\ trip'.name = snap[k].name
        BY <2>0, <4>1 DEF Trips
      <4> QED BY <3>1, <4>1, <4>2 DEF IndexComesBack, Index
    <3>2. CASE pc' = "idle"
      BY <3>2 DEF IndexComesBack
    <3> QED BY <2>1, <3>1, <3>2 DEF IndexToName
  <2>2. CASE NameToIndex
    <3> DEFINE cut == Cut[trip.name]
               match == {k \in 1 .. Len(snap) : snap[k].name = cut}
    <3>1. PICK ix : /\ trip' = [trip EXCEPT !.back = ix] /\ snap' = snap
                    /\ \/ match = {} /\ ix = 0
                       \/ \E k \in match : ix = IndexOf[snap[k].name]
      BY <2>2 DEF NameToIndex, SameName, Index
    <3>2. /\ trip'.back = ix /\ trip'.same = trip.same
          /\ trip'.name = trip.name /\ trip'.index = trip.index
      BY <2>0, <3>1 DEF Trips
    <3>3. pc = "if_nametoindex" /\ pc' = "back"
      BY <2>2 DEF NameToIndex
    <3>4. ix = IF \E k \in 1 .. Len(snap) : snap[k].name = cut THEN IndexOf[cut] ELSE 0
      BY <3>1
    <3>5. ASSUME trip.same, cut = trip.name PROVE ix = trip.index
      BY <3>3, <3>4, <3>5
    <3> HIDE DEF match
    <3> QED BY <3>1, <3>2, <3>3, <3>4, <3>5 DEF IndexComesBack
  <2>3. ASSUME NEW fn \in Functions, NEW table \in Tables, HostCall(fn, table) PROVE J'
    <3>1. /\ trip'.same = (pc = "named" /\ table = snap) /\ pc' = fn /\ snap' = table
          /\ trip'.name = trip.name /\ trip'.index = trip.index
          /\ fn = "if_nametoindex" => pc = "named"
      BY <2>0, <2>3 DEF HostCall, Trips
    <3> QED BY <3>1 DEF IndexComesBack, Functions
  <2>4. CASE pc' \notin {"named", "back", "if_nametoindex"} \/ UNCHANGED <<pc, snap, trip>>
    BY <2>4 DEF IndexComesBack
  <2> QED BY <2>1, <2>2, <2>3, <2>4 DEF Next, vars, NameIndex, GetIfAddrs, GetIfAddrsNone, FreeIfAddrs,
          Scan, Finish, FreeNameIndex, FreeEntry, FreeArray, Forget
<1> QED BY Invariance, <1>1, <1>2, PTL DEF Spec
=============================================================================
