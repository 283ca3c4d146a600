----------------------------- MODULE MCIdentity -----------------------------
(* Names of no, one, and more characters than thread_name can hold.        *)
EXTENDS Identity

CONSTANTS a, b
MCNames == {<< >>, <<a>>, <<b, a, b>>}
MCNode == <<a, b>>
=============================================================================
