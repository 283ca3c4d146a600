--------------------------- MODULE MCSpawnRequest ---------------------------
(* Bounded file actions and argument vectors for SpawnRequest.             *)
EXTENDS SpawnRequest, SequencesExt

CONSTANTS Programs, MaxActions, MaxArgs

ActionsUpTo == BoundedSeq({"dup2", "close", "open"}, MaxActions)
(* No vector, or places for arguments and the NULL that ends it.           *)
ArgsUpTo == {<< >>} \cup {Append(v, Null) : v \in BoundedSeq(Programs \cup {Null}, MaxArgs)}
AnyFault == {"memory", "host"}
=============================================================================
