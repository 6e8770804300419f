----------------------------- MODULE SpendPlan -----------------------------
(***************************************************************************)
(* Spending shielded notes (src/crates/verus-flows/src/shielded):          *)
(* `plan_spend` selects notes, witnesses each of them to one anchor from   *)
(* what a light server says, and checks that anchor with a node;           *)
(* `prove_spend` turns the plan into a transaction.  The two servers grow, *)
(* lag and reorganise independently between any two calls.                 *)
(*                                                                         *)
(* The notes come from a ScanResult: WalletIsExact of ShieldedScan says    *)
(* such a result is what one chain contains, so the wallet is the block it *)
(* was scanned to.  A commitment tree is the sequence of its leaves, and   *)
(* its root says neither more nor less.                                    *)
(***************************************************************************)
EXTENDS BlockTree, FiniteSetsExt

CONSTANTS
  None,
  Leaves,          \* [Block -> Seq(note)], the commitment tree after a block
  Value,           \* [note -> Nat], what decrypting a note says it is worth
  Amounts,         \* what a spend may have to cover, outputs and fee
  Pins,            \* anchor heights a caller may ask for, None for the default
  MAX_SPEND_NOTES,
  Expiries,        \* expiries a caller may ask for, 0 for never, None for the default
  EXPIRY_BLOCKS,   \* DEFAULT_EXPIRY_BLOCKS
  EXPIRY_HEIGHT_THRESHOLD, \* the chain takes no expiry of this height or above
  MaxMoves,        \* bound: how often a server's tip changes
  MaxFailures        \* bound: calls that fail for no reason of their own

\* Every note commitment there is.
Cmu == UNION {{Outs[b][i] : i \in DOMAIN Outs[b]} : b \in Block}

ASSUME LeavesAssumption ==
  /\ Outs \in [Block -> Seq(Cmu)] /\ Leaves \in [Block -> Seq(Cmu)]
  /\ Leaves[Genesis] = <<>>
  /\ \A b \in Block \ {Genesis} : Leaves[b] = Leaves[Parent[b]] \o Outs[b]
  /\ \A b \in Block : Size[b] = Len(Leaves[b])

ASSUME SpendAssumption ==
  /\ None \notin Nat /\ Pins \subseteq Nat \cup {None} /\ Expiries \subseteq Nat \cup {None}
  /\ \A n \in Mine : Value[n] \in Nat
  /\ Amounts \subseteq Nat
  /\ MAX_SPEND_NOTES \in Nat \ {0} /\ EXPIRY_BLOCKS \in Nat /\ EXPIRY_HEIGHT_THRESHOLD \in Nat
  /\ MaxMoves \in Nat /\ MaxFailures \in Nat

VARIABLES
  wallet,    \* the block the wallet has scanned to
  light,     \* the light server's tip
  node,      \* the node's tip
  moves, failures,
  pc,        \* where the call is
  ask,       \* its arguments: what to cover, the pinned anchor height, the expiry
  tip,       \* the node's tip as plan_spend read it
  anchorAt,  \* the anchor height
  picked,    \* selected notes not witnessed yet
  cur,       \* the witness being built
  witnessed, \* the WitnessedNotes
  checked,   \* the block whose finalsaplingroot the anchor was compared with
  tx,        \* the transaction
  calm       \* both servers and the wallet were on one chain throughout the call

servers == <<light, node, moves>>
call    == <<pc, ask, tip, anchorAt, picked, cur, witnessed, checked, tx>>
vars    == <<wallet, servers, failures, call, calm>>

-----------------------------------------------------------------------------
(***************************************************************************)
(* The wallet's notes                                                      *)
(***************************************************************************)
OneChain(S) == \E b \in Block : S \subseteq Chain[b]

\* ScanResult::unspent: no nullifier of the note was seen.
unspent ==
  LET covered == Chain[wallet] \ {Genesis} IN
  {n \in NotesOf(covered) : <<n.note, n.position>> \notin {s.nullifier : s \in NullsOf(covered)}}

NotesWorth(S) == MapThenSumSet(LAMBDA n : Value[n.note], S)

\* The order notes are taken in: largest first, ties by position.
Sooner(m, n) ==
  \/ Value[m.note] > Value[n.note]
  \/ Value[m.note] = Value[n.note] /\ m.position < n.position

\* A note is taken while those taken before it do not cover the amount.
select_notes(S, needed) == {n \in S : NotesWorth({m \in S : Sooner(m, n)}) < needed}

Selectable(S, needed) ==
  /\ needed > 0
  /\ NotesWorth(S) \geq needed
  /\ Cardinality(select_notes(S, needed)) \leq MAX_SPEND_NOTES

\* Where in its block the scan found a note: tx_index and output_index.
Slot(n) == n.position - LeavesBefore(At(wallet, n.height)) + 1

-----------------------------------------------------------------------------
(***************************************************************************)
(* The servers                                                             *)
(***************************************************************************)
\* The light server mines, lags, reorganises or is another replica.
LightMoves ==
  /\ moves < MaxMoves
  /\ \E b \in Block \ {light} :
       /\ light' = b
       /\ calm' = (calm /\ light \in Chain[b] /\ OneChain({b, node, wallet}))
  /\ moves' = moves + 1
  /\ UNCHANGED <<wallet, node, failures, call>>

\* A node only ever switches to a chain with more work.
NodeMoves ==
  /\ moves < MaxMoves
  /\ \E b \in Block :
       /\ Height[b] > Height[node] /\ node' = b
       /\ calm' = (calm /\ node \in Chain[b] /\ OneChain({b, light, wallet}))
  /\ moves' = moves + 1
  /\ UNCHANGED <<wallet, light, failures, call>>

-----------------------------------------------------------------------------
(***************************************************************************)
(* plan_spend                                                              *)
(***************************************************************************)
\* The call returns an error; nothing it did outlives it.
Refuse ==
  /\ pc' = "refused"
  /\ UNCHANGED <<ask, tip, anchorAt, picked, cur, witnessed, checked, tx>>

Start ==
  /\ pc = "idle"
  /\ \E needed \in Amounts, pin \in Pins, expiry \in Expiries :
       /\ ask' = [needed |-> needed, pin |-> pin, expiry |-> expiry]
       /\ IF Selectable(unspent, needed)
            THEN /\ pc' = "tip"
                 /\ picked' = select_notes(unspent, needed)
                 /\ calm' = (/\ OneChain({wallet, light, node})
                             /\ \A h \in {n.height : n \in picked'} :
                                   /\ h \leq Height[light] /\ h \leq Height[node]
                                   /\ pin # None => h \leq pin
                             /\ pin # None => pin \leq Height[light] /\ pin \leq Height[node])
            ELSE pc' = "refused" /\ calm' = FALSE /\ UNCHANGED picked
  /\ UNCHANGED <<wallet, servers, failures, tip, anchorAt, cur, witnessed, checked, tx>>

\* The node's block_count.
ReadTip ==
  /\ pc = "tip"
  /\ tip' = Height[node]
  /\ pc' = "light_tip"
  /\ UNCHANGED <<wallet, servers, failures, calm, ask, anchorAt, picked, cur, witnessed, checked, tx>>

\* Mutant: the light server's tip, whether the node has that block or not.
AnchorHeight_LightOnly(lightTip) == IF ask.pin # None THEN ask.pin ELSE lightTip

\* By default the lower of the two tips.
AnchorHeight(lightTip) ==
  IF ask.pin # None THEN ask.pin ELSE IF tip < lightTip THEN tip ELSE lightTip

\* latest_block, and no note may be younger than the anchor.
ReadLightTip ==
  /\ pc = "light_tip"
  /\ IF \E n \in picked : n.height > AnchorHeight(Height[light])
       THEN Refuse
       ELSE /\ anchorAt' = AnchorHeight(Height[light])
            /\ pc' = "frontier"
            /\ UNCHANGED <<ask, tip, picked, cur, witnessed, checked, tx>>
  /\ UNCHANGED <<wallet, servers, failures, calm>>

\* A server cannot answer for a height it does not have.
Has(b, h) == h \leq Height[b]

\* witness_note, for the notes in the order they were selected in: the tree
\* before the note's block.
Frontier ==
  /\ pc = "frontier"
  /\ \E n \in picked :
       /\ \A m \in picked \ {n} : Sooner(n, m)
       /\ IF ~Has(light, n.height - 1) THEN Refuse
          ELSE /\ cur' = [note |-> n, tree |-> Leaves[At(light, n.height - 1)],
                          upto |-> n.height - 1, leaf |-> None]
               /\ pc' = "block"
               /\ UNCHANGED <<ask, tip, anchorAt, picked, witnessed, checked, tx>>
  /\ UNCHANGED <<wallet, servers, failures, calm>>

\* The note's block: its own commitment is found by position.
OwnBlock ==
  /\ pc = "block"
  /\ LET h     == cur.note.height
         cmus  == Outs[At(light, h)]
         index == cur.note.position + 1 - Len(cur.tree)
     IN IF ~Has(light, h) \/ index \notin DOMAIN cmus THEN Refuse
        ELSE /\ cur' = [cur EXCEPT !.tree = @ \o cmus, !.upto = h, !.leaf = cmus[index]]
             /\ pc' = "advance"
             /\ UNCHANGED <<ask, tip, anchorAt, picked, witnessed, checked, tx>>
  /\ UNCHANGED <<wallet, servers, failures, calm>>

Advancing == cur.upto < anchorAt

\* The blocks after it, up to the anchor, one at a time.
Advance ==
  /\ pc = "advance" /\ Advancing
  /\ IF ~Has(light, cur.upto + 1) THEN Refuse
     ELSE /\ cur' = [cur EXCEPT !.tree = @ \o Outs[At(light, cur.upto + 1)],
                                !.upto = @ + 1]
          /\ UNCHANGED <<pc, ask, tip, anchorAt, picked, witnessed, checked, tx>>
  /\ UNCHANGED <<wallet, servers, failures, calm>>

\* full_output: the block again, and in it the output the scan had seen.
FetchOutput ==
  /\ pc = "advance" /\ ~Advancing
  /\ LET n    == cur.note
         cmus == Outs[At(light, n.height)]
     IN IF ~Has(light, n.height) \/ Slot(n) \notin DOMAIN cmus THEN Refuse
        ELSE /\ witnessed' = witnessed \cup
                   {[note |-> n, tree |-> cur.tree, leaf |-> cur.leaf, output |-> cmus[Slot(n)]]}
             /\ picked' = picked \ {n}
             /\ cur' = None
             /\ pc' = "frontier"
             /\ UNCHANGED <<ask, tip, anchorAt, checked, tx>>
  /\ UNCHANGED <<wallet, servers, failures, calm>>

shared_anchor == witnessed # {} /\ \A v, w \in witnessed : v.tree = w.tree

\* Mutant: agreeing with each other is enough.
RootsTo_Anything(b) == shared_anchor

\* The anchor every witness agrees on is b's finalsaplingroot.
RootsTo(b) == shared_anchor /\ \A w \in witnessed : w.tree = Leaves[b]

\* check_anchor, against the node.
CheckAnchor ==
  /\ pc = "frontier" /\ picked = {}
  /\ IF ~Has(node, anchorAt) THEN Refuse
     ELSE IF ~RootsTo(At(node, anchorAt)) THEN Refuse
     ELSE /\ checked' = At(node, anchorAt)
          /\ pc' = "planned"
          /\ UNCHANGED <<ask, tip, anchorAt, picked, cur, witnessed, tx>>
  /\ UNCHANGED <<wallet, servers, failures, calm>>

\* Any request may simply fail.
RequestFails ==
  /\ pc \in {"tip", "light_tip", "frontier", "block", "advance"}
  /\ failures < MaxFailures
  /\ failures' = failures + 1
  /\ calm' = FALSE
  /\ Refuse
  /\ UNCHANGED <<wallet, servers>>

-----------------------------------------------------------------------------
(***************************************************************************)
(* prove_spend                                                             *)
(***************************************************************************)

\* The builder decrypts the outputs, which have to be the wallet's, distinct,
\* worth what the plan says, and at the end of the path they came with.
Provable ==
  /\ \A w \in witnessed : w.output \in Mine /\ w.leaf = w.output
  /\ \A v, w \in witnessed : v.output = w.output => v = w
  /\ MapThenSumSet(LAMBDA w : Value[w.output], witnessed) = NotesWorth({w.note : w \in witnessed})

\* What is asked for is taken as it is; the default counts from the node's tip.
ExpiryFrom == IF ask.expiry # None THEN ask.expiry ELSE tip + EXPIRY_BLOCKS

\* Expiry::check.
ExpiryTaken == ExpiryFrom < EXPIRY_HEIGHT_THRESHOLD

\* An expiry that is refused is not the servers' doing.
Prove ==
  /\ pc = "planned"
  /\ calm' = (calm /\ ExpiryTaken)
  /\ IF ~ExpiryTaken \/ ~Provable THEN Refuse
     ELSE /\ tx' = [anchor     |-> (CHOOSE w \in witnessed : TRUE).tree,
                    spends     |-> {<<w.output, w.note.position>> : w \in witnessed},
                    nullifiers |-> {<<w.note.note, w.note.position>> : w \in witnessed},
                    expiry     |-> ExpiryFrom]
          /\ pc' = "proven"
          /\ UNCHANGED <<ask, tip, anchorAt, picked, cur, witnessed, checked>>
  /\ UNCHANGED <<wallet, servers, failures>>

Init ==
  /\ wallet \in Block /\ light \in Block /\ node \in Block
  /\ moves = 0 /\ failures = 0
  /\ pc = "idle" /\ ask = None /\ tip = 0 /\ anchorAt = 0 /\ picked = {}
  /\ cur = None /\ witnessed = {} /\ checked = NoBlock /\ tx = None
  /\ calm = FALSE

Spend ==
  \/ Start \/ ReadTip \/ ReadLightTip \/ Frontier \/ OwnBlock \/ Advance
  \/ FetchOutput \/ CheckAnchor \/ Prove

Next == LightMoves \/ NodeMoves \/ RequestFails \/ Spend

Spec == Init /\ [][Next]_vars

-----------------------------------------------------------------------------
(***************************************************************************)
(* Properties                                                              *)
(***************************************************************************)
Note == [note : Mine, height : Nat \ {0}, position : Nat]

\* Every variable holds a value the code's types allow.
TypeOK ==
  /\ wallet \in Block /\ light \in Block /\ node \in Block
  /\ moves \in 0..MaxMoves /\ failures \in 0..MaxFailures
  /\ pc \in {"idle", "tip", "light_tip", "frontier", "block", "advance",
             "planned", "proven", "refused"}
  /\ tip \in Nat /\ anchorAt \in Nat
  /\ picked \subseteq Note
  /\ \A w \in witnessed : w.note \in Note /\ w.tree \in Seq(Cmu)
  /\ checked \in Block \cup {NoBlock}
  /\ pc = "proven" => tx.spends \subseteq Mine \X Nat /\ tx.expiry \in Nat
  /\ calm \in BOOLEAN

\* A proof is never wasted: while the node keeps the block the anchor was
\* checked against, the transaction's anchor is one it has, and every spend is
\* the leaf of that tree at the position its nullifier is derived from -
\* whatever mixture of forks the light server answered with.
ProofsAreNotWasted ==
  pc = "proven" /\ checked \in Chain[node] =>
    /\ \E c \in Chain[node] : Leaves[c] = tx.anchor
    /\ \A s \in tx.spends : s[2] + 1 \in DOMAIN tx.anchor /\ tx.anchor[s[2] + 1] = s[1]

\* "Two honest sources are routinely a block apart": servers that are only
\* ahead of or behind each other, on the wallet's own chain, never make a spend
\* fail.
SkewIsHarmless == calm => pc # "refused"

\* A chain on which no commitment is made twice: whoever makes an output draws
\* its commitment anew, and the builder takes one commitment for one note.
NoCommitmentTwice ==
  \A b \in Block : \A c, d \in Chain[b] : \A i \in DOMAIN Outs[c], j \in DOMAIN Outs[d] :
     Outs[c][i] = Outs[d][j] => c = d /\ i = j

\* A spend expires when its caller said, if the chain takes that, or never where
\* that was said.  Where nothing was said it is dead EXPIRY_BLOCKS after it was
\* made, if it does not confirm, and was not born dead, however far behind the
\* anchor lies.
ExpiresInTime ==
  pc = "proven" =>
    /\ tx.expiry < EXPIRY_HEIGHT_THRESHOLD
    /\ ask.expiry # None => tx.expiry = ask.expiry
    /\ ask.expiry = None => tx.expiry \in (tip + EXPIRY_BLOCKS)..(Height[node] + EXPIRY_BLOCKS)

=============================================================================
