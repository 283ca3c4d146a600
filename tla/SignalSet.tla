------------------------------ MODULE SignalSet ------------------------------
(***************************************************************************)
(* The signal sets of wamr-ext-libc/src/signal.c: words in which bit n     *)
(* stands for signal n + 1, here the sets of their bits.  Signals are not  *)
(* delivered, and a mask is always reported empty.                         *)
(***************************************************************************)
EXTENDS Naturals

CONSTANTS
  Sets,    \* the program's sigset_t variables
  Word,    \* the bits of sigset_t, which wasi-libc declares
  UInt,    \* the bits of unsigned int, of which 1U is one
  Signals  \* the numbers programs pass, 0 among them

ASSUME SignalSetAssumption ==
  /\ Word \in Nat \ {0} /\ UInt \in Nat /\ Word <= UInt
  /\ Signals \subseteq Nat

VARIABLES
  word,   \* the bits of each set
  asked,  \* history: the signals the program has put into each set
  gained, \* history: the sets that may have got a bit nobody asked for, and
  lost    \* those that may have lost one: by a shift of UInt or more, which
          \* C does not define, or because nobody has set them up yet

sigVars == <<word, asked, gained, lost>>

Bits == 0 .. Word - 1

SigInit ==
  /\ word \in [Sets -> SUBSET Bits]
  /\ asked = [s \in Sets |-> {}] /\ gained = Sets /\ lost = {}

(* Mutant: the number itself is the bit.                                   *)
BitOf_Number(n) == n
BitOf(n) == n - 1

(* 1U << (signum - 1).  Nothing keeps signum from being beyond UInt: any   *)
(* mask then, among them the one of 32-bit wasm, bit (n - 1) % UInt.       *)
Masks(n) == IF n <= UInt THEN {{BitOf(n)}} ELSE SUBSET (0 .. UInt - 1)

Fresh(s, bits, signals) ==
  /\ word' = [word EXCEPT ![s] = bits]
  /\ asked' = [asked EXCEPT ![s] = signals]
  /\ gained' = gained \ {s} /\ lost' = lost \ {s}

SigEmptySet(s) == Fresh(s, {}, {})
SigFillSet(s) == Fresh(s, Bits, 1 .. Word)

Beyond(n, s) == IF n > UInt THEN {s} ELSE {}

(* The result is converted to sigset_t; a signal below 1 is refused.       *)
SigAddSet(s, n) ==
  /\ n > 0
  /\ \E mask \in Masks(n) :
       word' = [word EXCEPT ![s] = (@ \cup mask) \cap Bits]
  /\ asked' = [asked EXCEPT ![s] = @ \cup {n}]
  /\ gained' = gained \cup Beyond(n, s) /\ UNCHANGED lost

SigDelSet(s, n) ==
  /\ n > 0
  /\ \E mask \in Masks(n) : word' = [word EXCEPT ![s] = @ \ mask]
  /\ asked' = [asked EXCEPT ![s] = @ \ {n}]
  /\ lost' = lost \cup Beyond(n, s) /\ UNCHANGED gained

SigIsMember(s, n) == \E mask \in Masks(n) : word[s] \cap mask # {}

(* pthread_sigmask() and sigprocmask() with an oldset.                     *)
SigMask(old) == Fresh(old, {}, {})

SigNext ==
  \E s \in Sets :
    \/ SigEmptySet(s) \/ SigFillSet(s) \/ SigMask(s)
    \/ \E n \in Signals : SigAddSet(s, n) \/ SigDelSet(s, n)

SigSpec == SigInit /\ [][SigNext]_sigVars

(* For the signals 1 to UInt: what a program has put into a set, as far as *)
(* the word reaches, is in it, unless a deletion with a number beyond UInt *)
(* came in between; what it has not put there, or what the word does not   *)
(* reach, is not, unless an addition with such a number did (lines 33-60   *)
(* of signal.c).  Of those numbers themselves nothing is claimed: no line  *)
(* refuses them, and on wasm signal UInt + 1 acts as signal 1, in all      *)
(* three functions.                                                        *)
MembersAsAsked ==
  \A s \in Sets, n \in 1 .. UInt :
    /\ s \notin lost /\ n \in asked[s] /\ n <= Word => SigIsMember(s, n)
    /\ s \notin gained /\ SigIsMember(s, n) => n \in asked[s] /\ n <= Word
=============================================================================
