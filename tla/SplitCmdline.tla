---------------------------- MODULE SplitCmdline ----------------------------
(***************************************************************************)
(* __process_split_cmdline(), __process_add_arg() and                      *)
(* __process_free_argv() of wamr-ext-libc/src/process.c, lines 22-81:      *)
(* popen() and system() have no shell and cut the command line into        *)
(* arguments themselves.  One step is one iteration of the loop.  A        *)
(* character is one of the four that mean something to the loop, or any    *)
(* other.  strdup() may fail; the other allocations do not: without memory *)
(* for temp_strbuf the function returns before the loop, with no argv.     *)
(***************************************************************************)
EXTENDS Naturals, Sequences

CONSTANTS
  Commands,  \* the command lines: sequences of characters
  ArgLists,  \* lists of nonempty arguments that programs quote in them
  Plain,     \* the characters that mean nothing to the loop
  Space, DQuote, SQuote, Backslash,
  StrdupFails,  \* whether memory for an argument may be lacking
  Null          \* what strdup() returns then

Special == {Space, DQuote, SQuote, Backslash}
Char == Plain \cup Special

ASSUME SplitAssumption ==
  /\ Commands \subseteq Seq(Char)
  /\ \A args \in ArgLists :
       args \in Seq(Seq(Char)) /\ \A i \in 1 .. Len(args) : args[i] # << >>
  /\ Plain \cap Special = {}
  /\ Space \notin {DQuote, SQuote, Backslash} /\ Backslash \notin {DQuote, SQuote}
  /\ DQuote # SQuote
  /\ Null \notin Seq(Char)

VARIABLES
  cmd,       \* the command line
  cur_pos,   \* the loop's index, from 0 as in C
  end_char,  \* what ends the piece being read: a blank or the open quote
  escaped,   \* the last character was an escaping backslash
  buf,       \* the first temp_strbuf_len characters of temp_strbuf
  argv,      \* the arguments so far
  slots,     \* pointers that argv has room for
  done,      \* __process_split_cmdline() returned
  heap,      \* the blocks that are allocated
  place      \* the element of argv that __process_free_argv() is at

vars == <<cmd, cur_pos, end_char, escaped, buf, argv, slots, done, heap, place>>

(* temp_strbuf, the array argv, and the string of its i-th argument.       *)
Temp == <<"temp_strbuf", 0>>
Array == <<"argv", 0>>
String(i) == <<"string", i>>

BlockSet == {Temp, Array} \cup {String(i) : i \in Nat}

(* Mutant: the release begins after the program's name.                    *)
First_Second == 2
First == 1

Init ==
  /\ cmd \in Commands
  /\ cur_pos = 0
  /\ end_char = Space
  /\ escaped = FALSE
  /\ buf = << >>
  /\ argv = << >>
  /\ slots = 0
  /\ done = FALSE
  /\ heap = {Temp} /\ place = First

(* argv grows by five arguments at a time, plus the terminating NULL.      *)
SlotsFor(n, extra) == IF n % 5 = 0 THEN n + 5 + extra ELSE slots

(* rest is what stays allocated of what was.  A failed strdup() leaves a   *)
(* NULL in the argument's place.                                           *)
AddAnd(extra, rest) ==
  LET n == Len(argv) + 1 IN
  /\ slots' = SlotsFor(Len(argv), extra)
  /\ \/ /\ argv' = Append(argv, buf)
        /\ heap' = rest \cup {Array, String(n)}
     \/ /\ StrdupFails
        /\ argv' = Append(argv, Null)
        /\ heap' = rest \cup {Array}

AddNone(rest) == heap' = rest /\ UNCHANGED <<argv, slots>>

(* Mutant: no room is made for the NULL.                                   *)
AddArg_NoRoomForNull(rest) == IF buf = << >> THEN AddNone(rest) ELSE AddAnd(0, rest)
(* Mutant: an argument that cannot be duplicated is skipped.               *)
AddArg_FailedSkipped(rest) ==
  \/ buf # << >> /\ AddAnd(1, rest) /\ argv' # Append(argv, Null)
  \/ (buf = << >> \/ StrdupFails) /\ AddNone(rest)
(* Empty arguments, also quoted ones, are dropped.                         *)
AddArg(rest) == IF buf = << >> THEN AddNone(rest) ELSE AddAnd(1, rest)

-----------------------------------------------------------------------------
(* The branches of the loop's body, in the order of the code.              *)

c == cmd[cur_pos + 1]

Keep ==
  /\ buf' = Append(buf, c)
  /\ UNCHANGED <<end_char, argv, slots, heap>>

TakeEscaped == escaped /\ escaped' = FALSE /\ Keep

(* Mutant: a backslash escapes between single quotes too.                  *)
Escapes_Always == ~escaped /\ c = Backslash
Escapes == ~escaped /\ c = Backslash /\ end_char # SQuote
Escape ==
  /\ Escapes
  /\ escaped' = TRUE
  /\ UNCHANGED <<end_char, buf, argv, slots, heap>>

OpensQuote == ~escaped /\ ~Escapes /\ c \in {DQuote, SQuote} /\ end_char = Space
OpenQuote ==
  /\ OpensQuote
  /\ end_char' = c
  /\ UNCHANGED <<escaped, buf, argv, slots, heap>>

EndsPiece == ~escaped /\ ~Escapes /\ ~OpensQuote /\ c = end_char
EndPiece ==
  /\ EndsPiece
  /\ IF end_char = Space THEN AddArg(heap) /\ buf' = << >>
     ELSE AddNone(heap) /\ UNCHANGED buf
  /\ end_char' = Space
  /\ UNCHANGED escaped

TakePlain ==
  /\ ~escaped /\ ~Escapes /\ ~OpensQuote /\ ~EndsPiece
  /\ Keep
  /\ UNCHANGED escaped

Advance == cur_pos + 1

Iterate ==
  /\ ~done /\ cur_pos < Len(cmd)
  /\ TakeEscaped \/ Escape \/ OpenQuote \/ EndPiece \/ TakePlain
  /\ cur_pos' = Advance
  /\ UNCHANGED <<cmd, done, place>>

(* After the loop: the last argument; an unmatched quote is ignored.       *)
(* temp_strbuf is freed.                                                   *)
Finish ==
  /\ ~done /\ cur_pos >= Len(cmd)
  /\ AddArg(heap \ {Temp})
  /\ done' = TRUE
  /\ UNCHANGED <<cmd, cur_pos, end_char, escaped, buf, place>>

-----------------------------------------------------------------------------
(* __process_free_argv(), unless argv is NULL: the strings one by one up   *)
(* to the first NULL, which stands after the last argument or in the place *)
(* of one that could not be duplicated; then the array.                    *)

AtString == place \in DOMAIN argv /\ argv[place] # Null

FreeString ==
  /\ done /\ Array \in heap /\ AtString
  /\ heap' = heap \ {String(place)}
  /\ place' = place + 1
  /\ UNCHANGED <<cmd, cur_pos, end_char, escaped, buf, argv, slots, done>>

FreeArray ==
  /\ done /\ Array \in heap /\ ~AtString
  /\ heap' = heap \ {Array}
  /\ UNCHANGED <<cmd, cur_pos, end_char, escaped, buf, argv, slots, done, place>>

Next == Iterate \/ Finish \/ FreeString \/ FreeArray

Spec == Init /\ [][Next]_vars

-----------------------------------------------------------------------------
(* Properties.                                                             *)

TypeOK ==
  /\ cmd \in Commands
  /\ cur_pos \in 0 .. Len(cmd)
  /\ end_char \in {Space, DQuote, SQuote}
  /\ escaped \in BOOLEAN /\ done \in BOOLEAN
  /\ buf \in Seq(Char)
  /\ argv \in Seq(Seq(Char) \cup {Null})
  /\ slots \in Nat
  /\ heap \subseteq BlockSet
  /\ place \in Nat

(* No access leaves its allocation: the line is not read beyond its end,   *)
(* temp_strbuf holds Len(cmd) + 1 bytes and always has room for the NUL,   *)
(* and argv always has room for its NULL.                                  *)
InBounds ==
  /\ Len(buf) <= cur_pos /\ cur_pos <= Len(cmd)
  /\ argv # << >> => Len(argv) < slots

(* Why InBounds holds: the allocation is a multiple of five pointers and   *)
(* one, and the arguments fill its last five.                              *)
Blocks ==
  argv # << >> => \E k \in Nat : slots = 5 * k + 6 /\ 5 * k < Len(argv) /\ Len(argv) <= 5 * k + 5

(* No argument is empty, so argv[0] names a program whenever argv is not   *)
(* NULL, and the scan for the NULL in posix_spawnp() sees all of them.     *)
NoEmptyArgument == \A i \in 1 .. Len(argv) : argv[i] # << >>

(* What the result should be, stated without the loop.  Position i of the  *)
(* command line is in the mode that the positions before it put it in.     *)
Begin == [quote |-> Space, esc |-> FALSE]
ModeAfter(p, ch) ==
  IF p.esc THEN [p EXCEPT !.esc = FALSE]
  ELSE IF ch = Backslash /\ p.quote # SQuote THEN [p EXCEPT !.esc = TRUE]
  ELSE IF p.quote = Space /\ ch \in {DQuote, SQuote} THEN [p EXCEPT !.quote = ch]
  ELSE IF ch = p.quote THEN [p EXCEPT !.quote = Space]
  ELSE p
Mode(s) ==
  LET m[i \in 0 .. Len(s)] == IF i = 0 THEN Begin ELSE ModeAfter(m[i - 1], s[i]) IN m

(* A character is literal when it neither escapes, nor opens or closes     *)
(* quotes, nor separates arguments.                                        *)
Separates(p, ch) == ch = Space /\ p.quote = Space /\ ~p.esc
Literal(p, ch) == ~Separates(p, ch) /\ (p.esc \/ ModeAfter(p, ch) = p)

(* The i-th separator ends the i-th piece, whose literal characters are an *)
(* argument unless there are none.                                         *)
PiecesAfter(q, p, ch) ==
  IF Separates(p, ch) THEN Append(q, << >>)
  ELSE IF Literal(p, ch) THEN [q EXCEPT ![Len(q)] = Append(@, ch)]
  ELSE q
Pieces(s) ==
  LET modes == Mode(s)
      q[i \in 0 .. Len(s)] ==
        IF i = 0 THEN << << >> >> ELSE PiecesAfter(q[i - 1], modes[i - 1], s[i])
  IN q
WithPiece(a, p) == IF p = << >> THEN a ELSE Append(a, p)
NonEmpty(q) ==
  LET a[i \in 0 .. Len(q)] == IF i = 0 THEN << >> ELSE WithPiece(a[i - 1], q[i]) IN a
Arguments(s) == LET q == Pieces(s)[Len(s)] IN NonEmpty(q)[Len(q)]

(* The loop with its two flags and its buffer computes just that, and an   *)
(* argument for which memory is lacking leaves its place empty: none takes *)
(* the place of another.  What is spawned gets the arguments before the    *)
(* first empty place, and not those behind it (lines 27 and 217).          *)
SplitsAsDefined ==
  done => /\ Len(argv) = Len(Arguments(cmd))
          /\ \A i \in DOMAIN argv : argv[i] \in {Arguments(cmd)[i], Null}

(* The arguments up to the i-th are all there.                             *)
SeenUpTo(i) == \A j \in 1 .. i : argv[j] # Null

(* What the release leaves behind is the strings behind the place of an    *)
(* argument that could not be duplicated: these are lost, since the loop   *)
(* takes that place for the end.  Nothing else is left, so without a       *)
(* failed strdup() nothing at all, and what is freed was allocated         *)
(* (lines 27, 34-36 and 80).                                               *)
LostBehindNull ==
  /\ done /\ Array \in heap /\ AtString => String(place) \in heap
  /\ done /\ Array \notin heap =>
       heap = {String(i) : i \in {k \in DOMAIN argv : argv[k] # Null /\ ~SeenUpTo(k)}}

(* Why: the strings are those of the arguments so far, and in the release  *)
(* those from its place on.                                                *)
Strings(from) == {String(i) : i \in {k \in from .. Len(argv) : argv[k] # Null}}
ArrayIf == IF argv = << >> THEN {} ELSE {Array}
HeapIs ==
  /\ ~done => place = First /\ heap = {Temp} \cup ArrayIf \cup Strings(1)
  /\ done /\ Array \in heap =>
       /\ place \in 1 .. Len(argv) + 1 /\ SeenUpTo(place - 1)
       /\ heap = {Array} \cup Strings(place)

(* The way a program passes arguments to popen(): each between single      *)
(* quotes, with every single quote in it written as '\''.                  *)
QuotedChar(ch) == IF ch = SQuote THEN <<SQuote, Backslash, SQuote, SQuote>> ELSE <<ch>>
Quoted(a) ==
  LET q[i \in 0 .. Len(a)] == IF i = 0 THEN <<SQuote>> ELSE q[i - 1] \o QuotedChar(a[i])
  IN q
LineWith(l, i, a) == (IF i = 1 THEN l ELSE Append(l, Space)) \o Append(Quoted(a)[Len(a)], SQuote)
Line(args) ==
  LET l[i \in 0 .. Len(args)] == IF i = 0 THEN << >> ELSE LineWith(l[i - 1], i, args[i])
  IN l
LineOf == [args \in ArgLists |-> Line(args)[Len(args)]]

(* popen() hands the program the arguments that were quoted on its command *)
(* line as for a shell, blanks, quotes and backslashes included, unless    *)
(* memory for one is lacking (lines 39-81).                                *)
RoundTrip ==
  done /\ SeenUpTo(Len(argv)) =>
    \A args \in ArgLists : cmd = LineOf[args] => argv = args
=============================================================================
