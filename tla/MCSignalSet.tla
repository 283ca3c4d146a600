---------------------------- MODULE MCSignalSet ----------------------------
(* A sigset_t narrower than unsigned int, as in wasi-libc, and signals up  *)
(* to one beyond the widest shift.                                         *)
EXTENDS SignalSet
MCSignals == 0 .. UInt + 1
=============================================================================
