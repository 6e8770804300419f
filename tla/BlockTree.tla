----------------------------- MODULE BlockTree -----------------------------
(***************************************************************************)
(* The chain as a light wallet sees it: every block any replica will ever  *)
(* serve, on every fork, as a constant.  A block stands for its own hash,  *)
(* an output for its note commitment, a nullifier for the note and the     *)
(* tree position it was spent at.                                          *)
(***************************************************************************)
EXTENDS Naturals, Sequences, FiniteSets

CONSTANTS
  Block,        \* all blocks of all forks
  NoBlock,      \* "no hash to follow": Option::None, and a wallet with no scan
  Genesis,      \* the block at height 0
  Parent,       \* [Block -> Block], the prev_hash of a block
  Height,       \* [Block -> Nat]
  Chain,        \* [Block -> SUBSET Block], a block and all its ancestors
  Outs,         \* [Block -> Seq(note)], the Sapling outputs of a block in tree order
  Size,         \* [Block -> Nat], commitment tree size after a block
  Nulls,        \* [Block -> set of nullifiers <<note, position>>]
  Mine          \* the notes this viewing key decrypts

(***************************************************************************)
(* What a chain is: the only facts about blocks anything below relies on.  *)
(***************************************************************************)
ASSUME ChainAssumption ==
  /\ NoBlock \notin Block
  /\ Genesis \in Block
  /\ Parent \in [Block -> Block]
  /\ Height \in [Block -> Nat]
  /\ Chain \in [Block -> SUBSET Block]
  /\ Size \in [Block -> Nat]
  /\ Height[Genesis] = 0
  /\ Chain[Genesis] = {Genesis}
  /\ \A b \in Block \ {Genesis} :
        /\ Height[b] = Height[Parent[b]] + 1
        /\ Chain[b] = Chain[Parent[b]] \cup {b}
  /\ \A b \in Block : \A c \in Chain[b] :
        /\ Chain[c] \subseteq Chain[b]
        /\ Height[c] \leq Height[b]
        /\ \A d \in Chain[b] : Height[c] = Height[d] => c = d
  /\ \A b \in Block : \A h \in 0..Height[b] :
        \E c \in Chain[b] : Height[c] = h

ASSUME TreeAssumption ==
  \A b \in Block :
     /\ DOMAIN Outs[b] = 1..Len(Outs[b])
     /\ Len(Outs[b]) \in Nat
     /\ b # Genesis => Size[b] = Size[Parent[b]] + Len(Outs[b])

\* The block at height h of the chain that ends in b.
At(b, h) == CHOOSE c \in Chain[b] : Height[c] = h

\* Outputs in the tree before the first output of b.
LeavesBefore(b) == Size[Parent[b]]

\* The notes detect_notes finds in b when it is told b's first output has
\* position first.  The nullifier of a note depends on its position.
NotesAt(b, first) ==
  {[note |-> Outs[b][i], height |-> Height[b], position |-> first + (i - 1)] :
      i \in {j \in DOMAIN Outs[b] : Outs[b][j] \in Mine}}

NullsAt(b) == {[height |-> Height[b], nullifier |-> n] : n \in Nulls[b]}

NotesOf(S) == UNION {NotesAt(b, LeavesBefore(b)) : b \in S}
NullsOf(S) == UNION {NullsAt(b) : b \in S}
=============================================================================
