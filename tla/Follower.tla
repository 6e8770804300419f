------------------------------ MODULE Follower ------------------------------
(***************************************************************************)
(* What a wallet that follows a chain promises, whatever it is served and  *)
(* whenever it is stopped: it is at one block, or nowhere, and knows what  *)
(* that block's chain says, all of it and nothing else.  It moves along    *)
(* that chain.  To come onto another it has to go back to an ancestor of   *)
(* both, or to say that it lost its way and begin again.                   *)
(***************************************************************************)
CONSTANTS
  Blocks, NoBlock,
  Ancestors,   \* [Blocks -> SUBSET Blocks], a block and what it descends from
  Says,        \* [Blocks -> what the chain that ends there says]
  Nothing      \* what no chain says

VARIABLES
  view,   \* where the wallet is, and what it knows
  kept,   \* what it was when it was last stored
  lost    \* it is beginning again

followerVars == <<view, kept, lost>>

Nowhere == [at |-> NoBlock, says |-> Nothing]
View(b) == [at |-> b, says |-> Says[b]]

Init == view = Nowhere /\ kept = Nowhere /\ lost = FALSE

Advance ==
  /\ ~lost
  /\ \E b \in Blocks : view.at \in Ancestors[b] /\ view' = View(b)
  /\ UNCHANGED <<kept, lost>>

GoBack ==
  /\ ~lost /\ view.at # NoBlock
  /\ \E b \in Ancestors[view.at] : view' = View(b)
  /\ UNCHANGED <<kept, lost>>

LoseWay == ~lost /\ lost' = TRUE /\ UNCHANGED <<view, kept>>

BeginAgain ==
  /\ lost /\ lost' = FALSE
  /\ \E b \in Blocks : view' = View(b)
  /\ UNCHANGED kept

GiveUp == lost /\ lost' = FALSE /\ UNCHANGED <<view, kept>>

Store == ~lost /\ kept' = view /\ UNCHANGED <<view, lost>>

Reload == view' = kept /\ lost' = FALSE /\ UNCHANGED kept

Next == Advance \/ GoBack \/ LoseWay \/ BeginAgain \/ GiveUp \/ Store \/ Reload

Spec == Init /\ [][Next]_followerVars
=============================================================================
