--------------------------- MODULE MCShieldedScan ---------------------------
(***************************************************************************)
(* A small block tree for ShieldedScan.                                    *)
(*                                                                         *)
(*   g - a1 - a2 - a3 - a4                                                 *)
(*         \- b2 - b3 - b4 - b5                                            *)
(*                   \- c4                                                 *)
(*                                                                         *)
(* Note n1 is mined in a2 and again in b3, at another tree position; n2 is *)
(* mined in a1 and spent in a3, or in b4 on the other fork; n1 is spent in *)
(* a4 and in c4, never on the b fork.                                      *)
(***************************************************************************)
EXTENDS ShieldedScan

MCBlock == {"g", "a1", "a2", "a3", "a4", "b2", "b3", "b4", "b5", "c4"}

MCParent == [b \in MCBlock |->
  CASE b = "g" -> "g"   [] b = "a1" -> "g"  [] b = "a2" -> "a1"
    [] b = "a3" -> "a2" [] b = "a4" -> "a3" [] b = "b2" -> "a1"
    [] b = "b3" -> "b2" [] b = "b4" -> "b3" [] b = "b5" -> "b4"
    [] b = "c4" -> "b3"]

MCChain[b \in MCBlock] == IF b = "g" THEN {"g"} ELSE MCChain[MCParent[b]] \cup {b}
MCHeight == [b \in MCBlock |-> Cardinality(MCChain[b]) - 1]

MCOuts == [b \in MCBlock |->
  CASE b = "a1" -> <<"n2">>
    [] b = "a2" -> <<"n1">>
    [] b = "b2" -> <<"x", "x">>
    [] b = "b3" -> <<"x", "n1">>
    [] b = "b4" -> <<"x">>
    [] OTHER -> <<>>]

MCSize[b \in MCBlock] == IF b = "g" THEN 0 ELSE MCSize[MCParent[b]] + Len(MCOuts[b])

MCNulls == [b \in MCBlock |->
  CASE b = "a3" -> {<<"n2", 0>>}
    [] b = "a4" -> {<<"n1", 1>>}
    [] b = "b4" -> {<<"n2", 0>>}
    [] b = "c4" -> {<<"n1", 4>>}
    [] OTHER -> {}]
=============================================================================
