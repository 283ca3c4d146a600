--------------------------- MODULE MCSplitCmdline ---------------------------
(* Bounded command lines for SplitCmdline.                                 *)
EXTENDS SplitCmdline, FiniteSets, SequencesExt

CONSTANTS Letter, MaxLen, MaxArg, MaxWords

Letters == {Letter}

(* Every line of at most MaxLen characters, and lines of one-letter words  *)
(* that outgrow the first allocations of argv.                             *)
WordLine(n) == [i \in 1 .. 2 * n |-> IF i % 2 = 1 THEN Letter ELSE Space]
AllLines == BoundedSeq(Char, MaxLen) \cup {WordLine(n) : n \in 0 .. MaxWords}

(* Every list of at most two nonempty arguments of at most MaxArg          *)
(* characters, and their lines.                                            *)
SomeArgs == BoundedSeq(BoundedSeq(Char, MaxArg) \ {<< >>}, 2)
QuotedLines == {LineOf[args] : args \in SomeArgs}
SomeLines == AllLines \cup QuotedLines
=============================================================================
