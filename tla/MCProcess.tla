----------------------------- MODULE MCProcess -----------------------------
(* Small instances of Process for TLC.                                     *)
EXTENDS Process, TLC

BothModes == {"r", "w"}
WriteOnly == {"w"}
AnyFault == {"memory", "argv", "strdup", "spawn", "signal"}
SignalsOnly == {"signal"}
Symmetry == Permutations(Threads) \cup Permutations(Fds) \cup Permutations(Pids)
=============================================================================
