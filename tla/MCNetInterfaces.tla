--------------------------- MODULE MCNetInterfaces ---------------------------
(* Tables of up to three addresses.  "eth0:1" is an alias of "eth0"; the   *)
(* long name, cut to IF_NAMESIZE, is the name of another interface.        *)
EXTENDS NetInterfaces, FiniteSets, SequencesExt

CONSTANTS eth0, alias, long, wlan, inet, packet

MCNames == {eth0, alias, long, wlan}
MCFamilies == {inet, packet, Unspec}
MCInternet == {inet}
MCIndexOf == [n \in MCNames |-> CASE n = long -> 2 [] n = wlan -> 3
                                  [] OTHER -> 1]
MCCut == [n \in MCNames |-> IF n = long THEN wlan ELSE n]
MCTables == BoundedSeq([name : MCNames, family : {inet, packet}], 3)
=============================================================================
