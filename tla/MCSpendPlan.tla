---------------------------- MODULE MCSpendPlan ----------------------------
(***************************************************************************)
(* A small block tree for SpendPlan.                                       *)
(*                                                                         *)
(*   g - a1 - a2 - a3                                                      *)
(*         \- b2 - b3                                                      *)
(*         \- c2                                                           *)
(*                                                                         *)
(* a2, b2 and c2 hold the same payment: in b2 it was rebuilt (n2 became    *)
(* m2, in the same place), in c2 another output comes before it.           *)
(***************************************************************************)
EXTENDS SpendPlan

MCBlock == {"g", "a1", "a2", "a3", "b2", "b3", "c2"}

MCParent == [b \in MCBlock |->
  CASE b \in {"g", "a1"} -> "g"
    [] b \in {"a2", "b2", "c2"} -> "a1"
    [] b = "a3" -> "a2"
    [] b = "b3" -> "b2"]

MCChain[b \in MCBlock] == IF b = "g" THEN {"g"} ELSE MCChain[MCParent[b]] \cup {b}
MCHeight == [b \in MCBlock |-> Cardinality(MCChain[b]) - 1]

MCOuts == [b \in MCBlock |->
  CASE b = "a1" -> <<"n1", "x">>
    [] b = "a2" -> <<"n2", "n3">>
    [] b = "b2" -> <<"m2", "n3">>
    [] b = "c2" -> <<"y", "n2">>
    [] b = "a3" -> <<"z">>
    [] OTHER -> <<>>]

MCLeaves[b \in MCBlock] == IF b = "g" THEN <<>> ELSE MCLeaves[MCParent[b]] \o MCOuts[b]
MCSize == [b \in MCBlock |-> Len(MCLeaves[b])]

MCNulls == [b \in MCBlock |-> IF b = "b3" THEN {<<"n1", 0>>} ELSE {}]

MCMine == {"n1", "n2", "m2", "n3"}
MCValue == [n \in MCMine |-> CASE n = "n1" -> 3 [] n = "n3" -> 1 [] OTHER -> 2]

ASSUME NoCommitmentTwice
=============================================================================
