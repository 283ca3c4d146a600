---------------------------- MODULE NetInterfaces ----------------------------
(***************************************************************************)
(* The interface functions of wamr-ext-libc/src/socket_api.c, lines        *)
(* 359-529.  Each makes one host call that returns a table, one entry per  *)
(* address of an interface, and builds its answer from that: a linked list *)
(* (getifaddrs), an array without duplicates (if_nameindex), a name or an  *)
(* index.  The host has the library allocate the block of the table, and   *)
(* may return another table to every call; for an empty one it may or may  *)
(* not have asked for a block.  A host call that fails makes the function  *)
(* return before it allocates anything, so the model has no step for it.   *)
(* Interfaces have nonzero indices: the code takes 0 for none.             *)
(***************************************************************************)
EXTENDS Naturals, Sequences

CONSTANTS
  Names,     \* the names of interfaces
  Families,  \* address families; the conversion knows Internet only
  Internet,
  Unspec,    \* AF_UNSPEC
  Tables,    \* the tables the host may return
  IndexOf,   \* the index of each interface; a name and its alias share one
  Cut,       \* each name cut to IF_NAMESIZE
  Faults,    \* "memory" when strdup() may fail
  Null

Row == [name : Names, family : Families]

ASSUME InterfacesAssumption ==
  /\ Tables \subseteq Seq(Row)
  /\ Internet \subseteq Families \ {Unspec}
  /\ IndexOf \in [Names -> Nat \ {0}]
  /\ DOMAIN Cut = Names
  /\ Null \notin Names

VARIABLES
  pc,    \* what the program is doing, or which answer it holds
  snap,  \* the table that the call, or its answer, is about
  list,  \* the nodes of getifaddrs()
  ni,    \* the entries of ret_ni
  i,     \* the index of the loop
  heap,  \* the blocks allocated
  trip,  \* an index, the name it was told to have, the index of that name,
         \* and whether the host's table was the same both times
  empties \* history: the functions that were given a block for an empty table

vars == <<pc, snap, list, ni, i, heap, trip, empties>>

Functions == {"getifaddrs", "if_nameindex", "if_indextoname", "if_nametoindex"}

NoTrip == [index |-> 0, name |-> Null, back |-> 0, same |-> FALSE]

Init ==
  /\ pc = "idle" /\ snap = << >> /\ list = << >> /\ ni = << >>
  /\ i = 0 /\ heap = {} /\ trip = NoTrip /\ empties = {}

(* The host's table, a list of nodes, ret_ni, and the names in ret_ni; and *)
(* under the name of a function the tables that it has left allocated,     *)
(* which nothing points to.                                                *)
Block(kind) == <<kind, 0>>
NameBlock(k) == <<"name", k>>

Index(k) == IndexOf[snap[k].name]

-----------------------------------------------------------------------------
(* __wamr_sock_getifaddrs(), for the function fn.                          *)

HostCall(fn, table) ==
  /\ pc = IF fn = "if_nametoindex" THEN "named" ELSE "idle"
  /\ pc' = fn /\ snap' = table
  /\ \/ /\ heap' = heap \cup {Block("table")}
        /\ empties' = IF table = << >> THEN empties \cup {fn} ELSE empties
     \/ table = << >> /\ UNCHANGED <<heap, empties>>
  /\ trip' = [trip EXCEPT !.same = (pc = "named" /\ table = snap)]
  /\ UNCHANGED <<list, ni, i>>

Abandoned(fn) == {IF b = Block("table") THEN Block(fn) ELSE b : b \in heap}
(* All but if_nameindex() return early for an empty table, and free        *)
(* nothing then.                                                           *)
Released(fn) == IF snap = << >> THEN Abandoned(fn) ELSE heap \ {Block("table")}

-----------------------------------------------------------------------------
(* getifaddrs() and freeifaddrs(): one malloc() holds all the nodes, with  *)
(* whatever was in that memory.  No interface, no list.                    *)

(* Mutant: ss_family is not set before the conversion.                     *)
Preset_None(junk) == junk
Preset(junk) == Unspec

(* Mutant: the last node still has a successor.                            *)
NextNode_NoEnd(k, count) == k + 1
NextNode(k, count) == IF k = count THEN 0 ELSE k + 1

Node(entry, k, count, junk) ==
  LET family == IF entry.family \in Internet THEN entry.family
                ELSE Preset(junk)
  IN [name |-> entry.name,
      addr |-> IF family = Unspec THEN Null ELSE family,
      next |-> NextNode(k, count)]

GetIfAddrs ==
  /\ pc = "getifaddrs" /\ snap # << >>
  /\ pc' = "list"
  /\ \E junk \in Families :
       list' = [k \in 1 .. Len(snap) |-> Node(snap[k], k, Len(snap), junk)]
  /\ heap' = Released("getifaddrs") \cup {Block("list")}
  /\ UNCHANGED <<snap, ni, i, trip, empties>>

GetIfAddrsNone ==
  /\ pc = "getifaddrs" /\ snap = << >>
  /\ pc' = "idle"
  /\ heap' = Released("getifaddrs")
  /\ UNCHANGED <<snap, list, ni, i, trip, empties>>

FreeIfAddrs ==
  /\ pc = "list" /\ pc' = "idle"
  /\ list' = << >> /\ heap' = heap \ {Block("list")}
  /\ snap' = << >>
  /\ UNCHANGED <<ni, i, trip, empties>>

-----------------------------------------------------------------------------
(* if_nameindex() and if_freenameindex().                                  *)

End == [if_index |-> 0, if_name |-> Null]

NameIndex ==
  /\ pc = "if_nameindex" /\ pc' = "scan"
  /\ heap' = heap \cup {Block("array")}
  /\ i' = 1
  /\ UNCHANGED <<snap, list, ni, trip, empties>>

(* Mutant: the array has no room for the last entry.                       *)
Room_NoEnd == Len(snap)
Room == Len(snap) + 1

(* Mutant: only the last entry is looked at.                               *)
Listed_LastOnly(ix) == ni # << >> /\ ni[Len(ni)].if_index = ix
Listed(ix) == \E j \in 1 .. Len(ni) : ni[j].if_index = ix

AddEntry(name) ==
  /\ ni' = Append(ni, [if_index |-> Index(i), if_name |-> name])
  /\ heap' = heap \cup (IF name = Null THEN {} ELSE {NameBlock(Len(ni) + 1)})

(* The result of strdup() is not checked: the name may be a null pointer.  *)
Scan ==
  /\ pc = "scan" /\ i <= Len(snap)
  /\ i' = i + 1
  /\ \/ Listed(Index(i)) /\ UNCHANGED <<ni, heap>>
     \/ ~Listed(Index(i)) /\ AddEntry(snap[i].name)
     \/ ~Listed(Index(i)) /\ "memory" \in Faults /\ AddEntry(Null)
  /\ UNCHANGED <<pc, snap, list, trip, empties>>

Finish ==
  /\ pc = "scan" /\ i > Len(snap)
  /\ pc' = "held"
  /\ heap' = heap \ {Block("table")}
  /\ ni' = Append(ni, End)
  /\ UNCHANGED <<snap, list, i, trip, empties>>

FreeNameIndex ==
  /\ pc = "held" /\ pc' = "free"
  /\ i' = 1
  /\ UNCHANGED <<snap, list, ni, heap, trip, empties>>

(* Mutant: the loop stops at the first null name.                          *)
AtEnd_NullName(e) == e.if_name = Null
AtEnd(e) == e.if_index = 0 /\ e.if_name = Null

FreeEntry ==
  /\ pc = "free" /\ ~AtEnd(ni[i])
  /\ heap' = heap \ {NameBlock(i)}
  /\ i' = i + 1
  /\ UNCHANGED <<pc, snap, list, ni, trip, empties>>

FreeArray ==
  /\ pc = "free" /\ AtEnd(ni[i])
  /\ pc' = "idle"
  /\ heap' = heap \ {Block("array")}
  /\ ni' = << >> /\ i' = 0 /\ snap' = << >>
  /\ UNCHANGED <<list, trip, empties>>

-----------------------------------------------------------------------------
(* if_indextoname(), then if_nametoindex() of the name.                    *)

IsFirst(k, match) == k \in match /\ \A j \in match : k <= j

(* An index the table does not have: ENXIO.                                *)
IndexToName(ix) ==
  LET match == {k \in 1 .. Len(snap) : Index(k) = ix} IN
  /\ pc = "if_indextoname"
  /\ \/ match = {} /\ pc' = "idle" /\ snap' = << >> /\ UNCHANGED trip
     \/ \E k \in match :
          /\ IsFirst(k, match) /\ pc' = "named" /\ UNCHANGED snap
          /\ trip' = [trip EXCEPT !.index = ix, !.name = snap[k].name]
  /\ heap' = Released("if_indextoname")
  /\ UNCHANGED <<list, ni, i, empties>>

(* Mutant: names are compared up to IF_NAMESIZE only.                      *)
SameName_Cut(a, b) == Cut[a] = b
SameName(a, b) == a = b

NameToIndex ==
  LET match == {k \in 1 .. Len(snap) : SameName(snap[k].name, Cut[trip.name])} IN
  /\ pc = "if_nametoindex" /\ pc' = "back"
  /\ \/ match = {} /\ trip' = [trip EXCEPT !.back = 0]
     \/ \E k \in match : IsFirst(k, match) /\ trip' = [trip EXCEPT !.back = Index(k)]
  /\ heap' = Released("if_nametoindex")
  /\ UNCHANGED <<snap, list, ni, i, empties>>

Forget ==
  /\ pc = "back" /\ pc' = "idle"
  /\ trip' = NoTrip /\ snap' = << >>
  /\ UNCHANGED <<list, ni, i, heap, empties>>

Next ==
  \/ \E fn \in Functions, t \in Tables : HostCall(fn, t)
  \/ \E n \in Names : IndexToName(IndexOf[n])
  \/ GetIfAddrs \/ GetIfAddrsNone \/ FreeIfAddrs \/ NameToIndex \/ Forget
  \/ NameIndex \/ Scan \/ Finish \/ FreeNameIndex \/ FreeEntry \/ FreeArray

Spec == Init /\ [][Next]_vars

-----------------------------------------------------------------------------
Entry == [if_index : Nat, if_name : Names \cup {Null}]
Trips == [index : Nat, name : Names \cup {Null}, back : Nat, same : BOOLEAN]
Blocks == ({"table", "list", "array", "name"} \cup Functions) \X Nat

(* Every variable has its type, and the array never outgrows what malloc() *)
(* was asked for (line 501).                                               *)
TypeOK ==
  /\ pc \in {"idle", "list", "scan", "held", "free", "named", "back"} \cup Functions
  /\ snap \in Seq(Row)
  /\ ni \in Seq(Entry) /\ Len(ni) <= Room
  /\ i \in Nat /\ heap \subseteq Blocks
  /\ trip \in Trips /\ empties \subseteq Functions

(* While the program holds nothing of theirs, no block of these functions  *)
(* is allocated, whichever names strdup() could not copy and whether or    *)
(* not an index or a name was found; but three of them leave the block     *)
(* that the host may have asked for an empty table (lines 404, 452, 476),  *)
(* and if_nameindex() does not.                                            *)
LeftBy == {Block(fn) : fn \in empties \ {"if_nameindex"}}
NothingLeaks == pc \in {"idle", "named", "back"} => heap = LeftBy

(* The first n entries of ret_ni list the indices of the table's first     *)
(* entries, up to last, once each, with the name that comes first.         *)
ListsFirst(n, last) ==
  /\ \A j, k \in 1 .. n : ni[j].if_index = ni[k].if_index => j = k
  /\ \A k \in 1 .. last : \E j \in 1 .. n : ni[j].if_index = Index(k)
  /\ \A j \in 1 .. n : \E k \in 1 .. last :
       /\ ni[j].if_index = Index(k) /\ ni[j].if_name \in {snap[k].name, Null}
       /\ \A l \in 1 .. k - 1 : Index(l) # Index(k)

(* if_nameindex() lists every index of the table once, with the name that  *)
(* comes first for it, and the entry if_freenameindex() looks for is the   *)
(* last one and no other (lines 502-519).                                  *)
NamesListed ==
  pc = "held" =>
    /\ \A j \in 1 .. Len(ni) : AtEnd(ni[j]) <=> j = Len(ni)
    /\ ListsFirst(Len(ni) - 1, Len(snap))

(* The list of getifaddrs() leads through the whole table in its order,    *)
(* stays inside its one block, and shows an address exactly where the host *)
(* gave one of a known family, whatever the memory held (lines 409-434).   *)
ListShowsTable ==
  pc = "list" =>
    /\ DOMAIN list = 1 .. Len(snap)
    /\ \A k \in DOMAIN list :
         /\ list[k].name = snap[k].name
         /\ list[k].addr = IF snap[k].family \in Internet THEN snap[k].family
                           ELSE Null
         /\ list[k].next = IF k + 1 \in DOMAIN list THEN k + 1 ELSE 0

(* While the host's table stays the same a name translates back to the     *)
(* index it was asked for, unless it was cut: the index is then the one of *)
(* whatever interface has the cut name for its full name, or 0 (lines      *)
(* 458-461 and 482-486).                                                   *)
IndexComesBack ==
  pc = "back" /\ trip.same =>
    \/ trip.back = trip.index
    \/ LET cut == Cut[trip.name] IN
       /\ cut # trip.name
       /\ trip.back = IF \E k \in 1 .. Len(snap) : snap[k].name = cut THEN IndexOf[cut] ELSE 0

-----------------------------------------------------------------------------
(* Why the properties hold.                                                *)

(* How far the loops are.                                                  *)
Progress ==
  /\ pc = "scan" => /\ i \in 1 .. Len(snap) + 1 /\ Len(ni) < i
                    /\ ListsFirst(Len(ni), i - 1)
  /\ pc \in {"held", "free"} => \A j \in 1 .. Len(ni) : AtEnd(ni[j]) <=> j = Len(ni)
  /\ pc \in {"held", "free"} => Len(ni) \in 1 .. Room
  /\ pc = "free" => i \in 1 .. Len(ni)
  /\ pc \notin {"scan", "held", "free"} => ni = << >>

(* What is allocated at each point.                                        *)
NameBlocks(from) == {NameBlock(j) : j \in {k \in from .. Len(ni) : ni[k].if_name # Null}}
HeapIs ==
  /\ pc \in {"idle", "named", "back"} => heap = LeftBy
  /\ pc \in Functions \ {"if_nameindex"} => Released(pc) = LeftBy
  /\ pc = "list" => heap = {Block("list")} \cup LeftBy
  /\ pc = "if_nameindex" => heap \ {Block("table")} = LeftBy
  /\ pc = "scan" => heap \ {Block("table")} = {Block("array")} \cup NameBlocks(1) \cup LeftBy
  /\ pc = "held" => heap = {Block("array")} \cup NameBlocks(1) \cup LeftBy
  /\ pc = "free" => heap = {Block("array")} \cup NameBlocks(i) \cup LeftBy

IInv == TypeOK /\ Progress /\ HeapIs /\ NamesListed
=============================================================================
