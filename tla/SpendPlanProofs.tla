-------------------------- MODULE SpendPlanProofs --------------------------
(***************************************************************************)
(* A proven spend is anchored in the chain the node had when it was        *)
(* planned, spends the leaves it names, and expires in time - for every    *)
(* block tree and whatever the light server answered.                      *)
(***************************************************************************)
EXTENDS SpendPlan, Sums

-----------------------------------------------------------------------------
(***************************************************************************)
(* Blocks and notes                                                        *)
(***************************************************************************)
\* What the assumptions say of types, and nothing else.
LEMMA BlockTypes ==
  /\ Height \in [Block -> Nat]
  /\ Parent \in [Block -> Block]
  /\ Size \in [Block -> Nat]
  /\ \A b \in Block : Chain[b] \subseteq Block
  /\ \A b \in Block \ {Genesis} : Height[b] = Height[Parent[b]] + 1
  /\ NoBlock \notin Block
  BY ChainAssumption

LEMMA AtIsThere ==
  ASSUME NEW b \in Block, NEW h \in Nat, Has(b, h)
  PROVE  At(b, h) \in Block /\ At(b, h) \in Chain[b] /\ Height[At(b, h)] = h
<1>1. \E c \in Chain[b] : Height[c] = h
  <2>1. h \in 0..Height[b]
    BY ChainAssumption DEF Has
  <2> QED BY <2>1, ChainAssumption
<1>2. At(b, h) \in Chain[b] /\ Height[At(b, h)] = h
  BY <1>1 DEF At
<1> QED BY <1>2, ChainAssumption

\* A notes the wallet found is of the type the rest of the call relies on.
LEMMA NotesAreTyped ==
  ASSUME wallet \in Block
  PROVE  unspent \subseteq Note
<1> DEFINE covered == Chain[wallet] \ {Genesis}
<1>1. SUFFICES ASSUME NEW n \in NotesOf(covered) PROVE n \in Note
  BY DEF unspent
<1>2. PICK b \in covered : n \in NotesAt(b, LeavesBefore(b))
  BY <1>1 DEF NotesOf
<1>3. b \in Block \ {Genesis}
  BY <1>2, ChainAssumption
<1>4. Height[b] \in Nat \ {0} /\ LeavesBefore(b) \in Nat
  BY <1>3, BlockTypes DEF LeavesBefore
<1>5. PICK i \in DOMAIN Outs[b] :
        /\ Outs[b][i] \in Mine
        /\ n = [note |-> Outs[b][i], height |-> Height[b], position |-> LeavesBefore(b) + (i - 1)]
  BY <1>2 DEF NotesAt
<1>6. i \in Nat \ {0}
  BY <1>3, <1>5, TreeAssumption
<1>7. LeavesBefore(b) + (i - 1) \in Nat
  BY <1>4, <1>6
<1> QED BY <1>4, <1>5, <1>7 DEF Note

-----------------------------------------------------------------------------
(***************************************************************************)
(* The invariant                                                           *)
(***************************************************************************)
\* n is the leaf of tree at its position.
IsLeaf(leaf, n, tree) ==
  n.position + 1 \in DOMAIN tree /\ tree[n.position + 1] = leaf

AskInv == pc # "idle" => ask \in [needed : Amounts, pin : Pins, expiry : Expiries]

\* The node's height never falls below what was read of it.
TipInv == tip \leq Height[node]

\* The witness under construction.
CurInv ==
  /\ pc \in {"block", "advance"} =>
       /\ cur.note \in Note /\ cur.tree \in Seq(Cmu) /\ cur.upto \in Nat
       /\ cur = [note |-> cur.note, tree |-> cur.tree, upto |-> cur.upto, leaf |-> cur.leaf]
  /\ pc = "advance" => IsLeaf(cur.leaf, cur.note, cur.tree)

\* The finished ones.
WitnessInv ==
  \A w \in witnessed : /\ w.note \in Note /\ w.tree \in Seq(Cmu)
                       /\ IsLeaf(w.leaf, w.note, w.tree)

\* A plan's witnesses root to the block the node was asked about.
PlanInv ==
  pc \in {"planned", "proven"} =>
    /\ checked \in Block /\ witnessed # {}
    /\ \A w \in witnessed : w.tree = Leaves[checked]

\* What is proved are those leaves.
TxInv ==
  pc = "proven" =>
    /\ tx.anchor = Leaves[checked]
    /\ tx.expiry = ExpiryFrom /\ ExpiryTaken
    /\ \A s \in tx.spends : s[2] + 1 \in DOMAIN tx.anchor /\ tx.anchor[s[2] + 1] = s[1]

IInv == TypeOK /\ AskInv /\ TipInv /\ CurInv /\ WitnessInv /\ PlanInv /\ TxInv

LEMMA InitIInv == Init => IInv
<1> SUFFICES ASSUME Init PROVE IInv
  OBVIOUS
<1>1. tip \leq Height[node]
  BY BlockTypes DEF Init
<1>2. TypeOK
  <2>1. MaxMoves \in Nat /\ MaxFailures \in Nat
    BY SpendAssumption
  <2>2. moves \in 0..MaxMoves /\ failures \in 0..MaxFailures
    BY <2>1 DEF Init
  <2> QED BY <2>2 DEF Init, TypeOK
<1> QED BY <1>1, <1>2 DEF Init, IInv, AskInv, TipInv, CurInv, WitnessInv, PlanInv, TxInv

-----------------------------------------------------------------------------
(***************************************************************************)
(* Each action preserves it                                                *)
(***************************************************************************)
\* An error changes nothing but pc.
LEMMA RefuseStep ==
  ASSUME IInv, Refuse, pc # "idle", UNCHANGED <<wallet, servers>>,
         failures' \in 0..MaxFailures, calm' \in BOOLEAN
  PROVE  IInv'
<1>1. TypeOK'
  BY DEF IInv, TypeOK, Refuse, servers
<1>2. AskInv' /\ TipInv'
  BY DEF IInv, AskInv, TipInv, Refuse, servers
<1>3. (CurInv /\ WitnessInv /\ PlanInv /\ TxInv)'
  BY DEF IInv, CurInv, WitnessInv, PlanInv, TxInv, Refuse, IsLeaf
<1> QED BY <1>1, <1>2, <1>3 DEF IInv

LEMMA MovesStep == ASSUME IInv, LightMoves \/ NodeMoves PROVE IInv'
<1>1. TypeOK'
  <2>1. moves' \in 0..MaxMoves
    BY SpendAssumption DEF IInv, TypeOK, LightMoves, NodeMoves
  <2>2. calm' \in BOOLEAN
    BY Zenon DEF IInv, TypeOK, LightMoves, NodeMoves
  <2> QED BY <2>1, <2>2 DEF IInv, TypeOK, LightMoves, NodeMoves, call
<1>2. TipInv'
  <2>1. tip' = tip /\ tip \in Nat /\ tip \leq Height[node]
    BY DEF IInv, TypeOK, TipInv, LightMoves, NodeMoves, call
  <2>2. CASE LightMoves
    BY <2>1, <2>2 DEF LightMoves, TipInv
  <2>3. CASE NodeMoves
    <3>1. node' \in Block /\ Height[node'] > Height[node]
      BY <2>3 DEF NodeMoves
    <3> QED BY <2>1, <3>1, BlockTypes DEF IInv, TypeOK, TipInv
  <2> QED BY <2>2, <2>3
<1>3. (AskInv /\ CurInv /\ WitnessInv /\ PlanInv /\ TxInv)'
  BY DEF IInv, AskInv, CurInv, WitnessInv, PlanInv, TxInv, ExpiryFrom, ExpiryTaken, IsLeaf,
         LightMoves, NodeMoves, call
<1> QED BY <1>1, <1>2, <1>3 DEF IInv

LEMMA StartStep == ASSUME IInv, Start PROVE IInv'
<1>0. \A k \in Nat : select_notes(unspent, k) \subseteq unspent
  BY DEF select_notes
<1>1. PICK needed \in Amounts, pin \in Pins, expiry \in Expiries :
        /\ ask' = [needed |-> needed, pin |-> pin, expiry |-> expiry]
        /\ pc' \in {"tip", "refused"}
        /\ picked' = select_notes(unspent, needed) \/ picked' = picked
        /\ calm' \in BOOLEAN
  BY Zenon DEF Start
<1>2. UNCHANGED <<wallet, servers, failures, tip, anchorAt, cur, witnessed, checked, tx>>
  BY DEF Start
<1>3. picked' \subseteq Note
  BY <1>0, <1>1, NotesAreTyped, SpendAssumption DEF IInv, TypeOK
<1>4. TypeOK'
  BY <1>1, <1>2, <1>3 DEF IInv, TypeOK, servers
<1>5. (AskInv /\ TipInv /\ CurInv /\ WitnessInv /\ PlanInv /\ TxInv)'
  BY <1>1, <1>2 DEF IInv, AskInv, TipInv, CurInv, WitnessInv, PlanInv, TxInv, IsLeaf, servers
<1> QED BY <1>4, <1>5 DEF IInv

LEMMA TipsStep == ASSUME IInv, ReadTip \/ ReadLightTip PROVE IInv'
<1>1. CASE ReadTip
  <2>1. TypeOK' /\ TipInv'
    BY <1>1, BlockTypes DEF IInv, TypeOK, TipInv, ReadTip, servers
  <2> QED BY <1>1, <2>1
          DEF IInv, AskInv, CurInv, WitnessInv, PlanInv, TxInv, IsLeaf, ReadTip, servers
<1>2. CASE ReadLightTip /\ pc' # "refused"
  <2>1. anchorAt' \in Nat
    <3>1. pc = "light_tip" /\ anchorAt' = AnchorHeight(Height[light])
      BY <1>2 DEF ReadLightTip, Refuse
    <3>2. ask.pin \in Pins /\ tip \in Nat /\ Height[light] \in Nat
      BY <3>1, BlockTypes DEF IInv, TypeOK, AskInv
    <3> QED BY <3>1, <3>2, SpendAssumption DEF AnchorHeight
  <2>2. TypeOK'
    BY <1>2, <2>1 DEF IInv, TypeOK, ReadLightTip, Refuse, servers
  <2> QED BY <1>2, <2>2
          DEF IInv, AskInv, TipInv, CurInv, WitnessInv, PlanInv, TxInv, IsLeaf,
              ReadLightTip, Refuse, servers
<1>3. CASE ReadLightTip /\ pc' = "refused"
  <2>1. Refuse /\ pc # "idle" /\ UNCHANGED <<wallet, servers, failures, calm>>
    BY <1>3 DEF ReadLightTip
  <2> QED BY <2>1, RefuseStep DEF Refuse, IInv, TypeOK
<1> QED BY <1>1, <1>2, <1>3

LEMMA FrontierStep == ASSUME IInv, Frontier PROVE IInv'
<1>0. UNCHANGED <<wallet, servers, failures, calm>> /\ pc # "idle"
  BY DEF Frontier
<1>1. CASE Refuse
  BY <1>0, <1>1, RefuseStep DEF Refuse, IInv, TypeOK
<1>2. CASE ~Refuse
  <2>1. PICK n \in picked :
          /\ Has(light, n.height - 1)
          /\ cur' = [note |-> n, tree |-> Leaves[At(light, n.height - 1)],
                     upto |-> n.height - 1, leaf |-> None]
          /\ pc = "frontier" /\ pc' = "block"
          /\ UNCHANGED <<ask, tip, anchorAt, picked, witnessed, checked, tx>>
    BY <1>2 DEF Frontier
  <2>2. n \in Note /\ n.height - 1 \in Nat
    BY <2>1 DEF IInv, TypeOK, Note
  <2>3. Leaves[At(light, n.height - 1)] \in Seq(Cmu)
    BY <2>1, <2>2, AtIsThere, LeavesAssumption DEF IInv, TypeOK
  <2>4. CurInv'
    BY <2>1, <2>2, <2>3 DEF CurInv
  <2>5. TypeOK'
    BY <1>0, <2>1 DEF IInv, TypeOK, servers
  <2> QED BY <1>0, <2>1, <2>4, <2>5
          DEF IInv, AskInv, TipInv, WitnessInv, PlanInv, TxInv, IsLeaf, servers
<1> QED BY <1>1, <1>2

\* Appending keeps the leaves that are there and adds the ones appended.
LEMMA Appended ==
  ASSUME NEW s \in Seq(Cmu), NEW t \in Seq(Cmu)
  PROVE  /\ s \o t \in Seq(Cmu)
         /\ \A i \in DOMAIN s : i \in DOMAIN (s \o t) /\ (s \o t)[i] = s[i]
         /\ \A i \in DOMAIN t : /\ Len(s) + i \in DOMAIN (s \o t)
                                /\ (s \o t)[Len(s) + i] = t[i]
  OBVIOUS

LEMMA OwnBlockStep == ASSUME IInv, OwnBlock PROVE IInv'
<1>0. UNCHANGED <<wallet, servers, failures, calm>> /\ pc # "idle"
  BY DEF OwnBlock
<1>1. CASE Refuse
  BY <1>0, <1>1, RefuseStep DEF Refuse, IInv, TypeOK
<1>2. CASE ~Refuse
  <2> DEFINE h == cur.note.height
             cmus == Outs[At(light, h)]
             index == cur.note.position + 1 - Len(cur.tree)
  <2>1. /\ Has(light, h) /\ index \in DOMAIN cmus
        /\ cur' = [cur EXCEPT !.tree = @ \o cmus, !.upto = h, !.leaf = cmus[index]]
        /\ pc = "block" /\ pc' = "advance"
        /\ UNCHANGED <<ask, tip, anchorAt, picked, witnessed, checked, tx>>
    BY <1>2 DEF OwnBlock
  <2>2. /\ cur.note \in Note /\ cur.tree \in Seq(Cmu)
        /\ cur = [note |-> cur.note, tree |-> cur.tree, upto |-> cur.upto, leaf |-> cur.leaf]
    BY <2>1 DEF IInv, CurInv
  <2>3. h \in Nat /\ cur.note.position \in Nat
    BY <2>2 DEF Note
  <2>4. cmus \in Seq(Cmu)
    BY <2>1, <2>3, AtIsThere, LeavesAssumption DEF IInv, TypeOK
  <2> HIDE DEF h, cmus
  <2>5. cur' = [note |-> cur.note, tree |-> cur.tree \o cmus, upto |-> h, leaf |-> cmus[index]]
    BY <2>1, <2>2
  <2>6. Len(cur.tree) + index = cur.note.position + 1 /\ index \in Nat
    BY <2>1, <2>2, <2>3, <2>4
  <2>7. IsLeaf(cmus[index], cur.note, cur.tree \o cmus)
    BY <2>1, <2>2, <2>4, <2>6, Appended DEF IsLeaf
  <2>10. cur.tree \o cmus \in Seq(Cmu)
    BY <2>2, <2>4, Appended
  <2>8. CurInv'
    BY <2>1, <2>2, <2>3, <2>5, <2>7, <2>10 DEF CurInv
  <2>9. TypeOK'
    BY <1>0, <2>1 DEF IInv, TypeOK, servers
  <2> QED BY <1>0, <2>1, <2>8, <2>9
          DEF IInv, AskInv, TipInv, WitnessInv, PlanInv, TxInv, IsLeaf, servers
<1> QED BY <1>1, <1>2

LEMMA AdvanceStep == ASSUME IInv, Advance PROVE IInv'
<1>0. UNCHANGED <<wallet, servers, failures, calm>> /\ pc # "idle"
  BY DEF Advance
<1>1. CASE Refuse
  BY <1>0, <1>1, RefuseStep DEF Refuse, IInv, TypeOK
<1>2. CASE ~Refuse
  <2> DEFINE cmus == Outs[At(light, cur.upto + 1)]
  <2>1. /\ Has(light, cur.upto + 1)
        /\ cur' = [cur EXCEPT !.tree = @ \o cmus, !.upto = @ + 1]
        /\ pc = "advance"
        /\ UNCHANGED <<pc, ask, tip, anchorAt, picked, witnessed, checked, tx>>
    BY <1>2 DEF Advance
  <2>2. /\ cur.note \in Note /\ cur.tree \in Seq(Cmu) /\ cur.upto \in Nat
        /\ cur = [note |-> cur.note, tree |-> cur.tree, upto |-> cur.upto, leaf |-> cur.leaf]
        /\ IsLeaf(cur.leaf, cur.note, cur.tree)
    BY <2>1 DEF IInv, CurInv
  <2>3. cmus \in Seq(Cmu)
    <3>1. cur.upto + 1 \in Nat /\ light \in Block
      BY <2>2 DEF IInv, TypeOK
    <3> QED BY <2>1, <3>1, AtIsThere, LeavesAssumption
  <2> HIDE DEF cmus
  <2>4. cur' = [note |-> cur.note, tree |-> cur.tree \o cmus, upto |-> cur.upto + 1,
                leaf |-> cur.leaf]
    BY <2>1, <2>2
  <2>5. IsLeaf(cur.leaf, cur.note, cur.tree \o cmus)
    BY <2>2, <2>3, Appended DEF IsLeaf
  <2>8. cur.tree \o cmus \in Seq(Cmu) /\ cur.upto + 1 \in Nat
    BY <2>2, <2>3, Appended
  <2>6. CurInv'
    BY <2>1, <2>2, <2>4, <2>5, <2>8 DEF CurInv
  <2>7. TypeOK'
    BY <1>0, <2>1 DEF IInv, TypeOK, servers
  <2> QED BY <1>0, <2>1, <2>6, <2>7
          DEF IInv, AskInv, TipInv, WitnessInv, PlanInv, TxInv, IsLeaf, servers
<1> QED BY <1>1, <1>2

LEMMA FetchOutputStep == ASSUME IInv, FetchOutput PROVE IInv'
<1>0. UNCHANGED <<wallet, servers, failures, calm>> /\ pc # "idle"
  BY DEF FetchOutput
<1>1. CASE Refuse
  BY <1>0, <1>1, RefuseStep DEF Refuse, IInv, TypeOK
<1>2. CASE ~Refuse
  <2>1. PICK out :
          /\ witnessed' = witnessed \cup
               {[note |-> cur.note, tree |-> cur.tree, leaf |-> cur.leaf, output |-> out]}
          /\ picked' = picked \ {cur.note}
          /\ pc = "advance" /\ pc' = "frontier"
          /\ UNCHANGED <<ask, tip, anchorAt, checked, tx>>
    BY <1>2 DEF FetchOutput
  <2>2. WitnessInv'
    BY <2>1 DEF IInv, CurInv, WitnessInv, IsLeaf
  <2>3. TypeOK'
    BY <1>0, <2>1, <2>2 DEF IInv, TypeOK, servers, WitnessInv
  <2> QED BY <1>0, <2>1, <2>2, <2>3
          DEF IInv, AskInv, TipInv, CurInv, PlanInv, TxInv, servers
<1> QED BY <1>1, <1>2

LEMMA CheckAnchorStep == ASSUME IInv, CheckAnchor PROVE IInv'
<1>0. UNCHANGED <<wallet, servers, failures, calm>> /\ pc # "idle"
  BY DEF CheckAnchor
<1>1. CASE Refuse
  BY <1>0, <1>1, RefuseStep DEF Refuse, IInv, TypeOK
<1>2. CASE ~Refuse
  <2>1. /\ Has(node, anchorAt) /\ RootsTo(At(node, anchorAt))
        /\ checked' = At(node, anchorAt)
        /\ pc = "frontier" /\ pc' = "planned"
        /\ UNCHANGED <<ask, tip, anchorAt, picked, cur, witnessed, tx>>
    BY <1>2 DEF CheckAnchor
  <2>2. checked' \in Block
    BY <2>1, AtIsThere DEF IInv, TypeOK
  <2>3. PlanInv'
    BY <2>1, <2>2 DEF PlanInv, RootsTo, shared_anchor
  <2>4. TypeOK'
    BY <1>0, <2>1, <2>2 DEF IInv, TypeOK, servers
  <2> QED BY <1>0, <2>1, <2>3, <2>4
          DEF IInv, AskInv, TipInv, CurInv, WitnessInv, TxInv, IsLeaf, servers
<1> QED BY <1>1, <1>2

LEMMA ProveStep == ASSUME IInv, Prove PROVE IInv'
<1>0. UNCHANGED <<wallet, servers, failures>> /\ calm' \in BOOLEAN /\ pc # "idle"
  BY DEF Prove, IInv, TypeOK
<1>1. CASE Refuse
  BY <1>0, <1>1, RefuseStep DEF Refuse, IInv, TypeOK
<1>2. CASE ~Refuse
  <2>1. /\ Provable /\ ExpiryTaken /\ pc = "planned" /\ pc' = "proven"
        /\ tx' = [anchor     |-> (CHOOSE w \in witnessed : TRUE).tree,
                  spends     |-> {<<w.output, w.note.position>> : w \in witnessed},
                  nullifiers |-> {<<w.note.note, w.note.position>> : w \in witnessed},
                  expiry     |-> ExpiryFrom]
        /\ UNCHANGED <<ask, tip, anchorAt, picked, cur, witnessed, checked>>
    BY <1>2 DEF Prove
  <2>2. PlanInv'
    BY <2>1 DEF IInv, PlanInv
  <2>3. tx'.anchor = Leaves[checked']
    BY <2>1, <2>2 DEF PlanInv
  <2>4. ASSUME NEW s \in tx'.spends
        PROVE  /\ s \in Mine \X Nat
               /\ s[2] + 1 \in DOMAIN Leaves[checked'] /\ Leaves[checked'][s[2] + 1] = s[1]
    <3>1. PICK w \in witnessed : s = <<w.output, w.note.position>>
      BY <2>1
    <3>2. w.tree = Leaves[checked'] /\ IsLeaf(w.leaf, w.note, w.tree) /\ w.note \in Note
      BY <2>1, <2>2 DEF PlanInv, IInv, WitnessInv
    <3>3. w.output \in Mine /\ w.leaf = w.output
      BY <2>1 DEF Provable
    <3> QED BY <3>1, <3>2, <3>3 DEF IsLeaf, Note
  <2>5. ExpiryFrom \in Nat
    <3>1. ask.expiry \in Nat \cup {None}
      BY <2>1, SpendAssumption DEF IInv, AskInv
    <3> QED BY <3>1, SpendAssumption DEF ExpiryFrom, IInv, TypeOK
  <2>e. tx'.expiry = ExpiryFrom /\ ExpiryFrom' = ExpiryFrom /\ ExpiryTaken'
    BY <2>1 DEF ExpiryFrom, ExpiryTaken
  <2>6. TxInv'
    BY <2>3, <2>4, <2>e DEF TxInv
  <2>7. TypeOK'
    <3>1. tx'.spends \subseteq Mine \X Nat
      BY <2>4
    <3> QED BY <1>0, <2>1, <2>5, <2>e, <3>1 DEF IInv, TypeOK, servers
  <2> QED BY <1>0, <2>1, <2>2, <2>6, <2>7
          DEF IInv, AskInv, TipInv, CurInv, WitnessInv, IsLeaf, servers
<1> QED BY <1>1, <1>2

LEMMA NextIInv == IInv /\ [Next]_vars => IInv'
<1> SUFFICES ASSUME IInv, [Next]_vars PROVE IInv'
  OBVIOUS
<1>1. CASE LightMoves \/ NodeMoves
  BY <1>1, MovesStep
<1>2. CASE RequestFails
  <2>1. failures' \in 0..MaxFailures
    BY <1>2, SpendAssumption DEF RequestFails, IInv, TypeOK
  <2> QED BY <1>2, <2>1, RefuseStep DEF RequestFails, Refuse
<1>3. CASE Start
  BY <1>3, StartStep
<1>4. CASE ReadTip \/ ReadLightTip
  BY <1>4, TipsStep
<1>5. CASE Frontier
  BY <1>5, FrontierStep
<1>6. CASE OwnBlock
  BY <1>6, OwnBlockStep
<1>7. CASE Advance
  BY <1>7, AdvanceStep
<1>8. CASE FetchOutput
  BY <1>8, FetchOutputStep
<1>9. CASE CheckAnchor
  BY <1>9, CheckAnchorStep
<1>10. CASE Prove
  BY <1>10, ProveStep
<1>11. CASE UNCHANGED vars
  BY <1>11 DEF vars, servers, call, IInv, TypeOK, AskInv, TipInv, CurInv, WitnessInv, PlanInv,
               TxInv, ExpiryFrom, ExpiryTaken, IsLeaf
<1> QED BY <1>1, <1>2, <1>3, <1>4, <1>5, <1>6, <1>7, <1>8, <1>9, <1>10, <1>11 DEF Next, Spend

LEMMA Inductive == Spec => []IInv
  BY InitIInv, NextIInv, PTL DEF Spec

-----------------------------------------------------------------------------
(***************************************************************************)
(* Theorems                                                                *)
(***************************************************************************)
\* Every variable of plan_spend and prove_spend holds what its type allows.
THEOREM TypeCorrect == Spec => []TypeOK
<1>1. IInv => TypeOK
  BY DEF IInv
<1> QED BY Inductive, <1>1, PTL

\* check_anchor is enough: whatever the light server answered, a proven spend
\* is anchored in the checked chain and names its leaves.
THEOREM NoProofIsWasted == Spec => []ProofsAreNotWasted
<1>1. IInv => ProofsAreNotWasted
  BY DEF IInv, TxInv, ProofsAreNotWasted
<1> QED BY Inductive, <1>1, PTL

\* A spend expires when its caller said, and where it said nothing neither long
\* after the node's tip nor behind it.
THEOREM SpendsExpireAsAsked == Spec => []ExpiresInTime
<1>1. ASSUME IInv, pc = "proven" PROVE ExpiresInTime
  <2>1. tx.expiry = ExpiryFrom /\ ExpiryTaken /\ tip \in Nat /\ tip \leq Height[node]
    BY <1>1 DEF IInv, TypeOK, TxInv, TipInv
  <2>2. Height[node] \in Nat /\ EXPIRY_BLOCKS \in Nat
    BY <1>1, BlockTypes, SpendAssumption DEF IInv, TypeOK
  <2> QED BY <2>1, <2>2 DEF ExpiresInTime, ExpiryFrom, ExpiryTaken
<1>2. IInv => ExpiresInTime
  BY <1>1 DEF ExpiresInTime
<1> QED BY Inductive, <1>2, PTL

-----------------------------------------------------------------------------
(***************************************************************************)
(* What the notes are worth                                                *)
(***************************************************************************)
\* NotesWorth adds up the values of the notes, in whatever order.
LEMMA WorthIsTotal ==
  ASSUME NEW S, IsFiniteSet(S), \A n \in S : Value[n.note] \in Int
  PROVE  NotesWorth(S) = SumOver([n \in S |-> Value[n.note]], S)
<1> DEFINE v == [n \in S |-> Value[n.note]]
           first(s) == CHOOSE x \in s : TRUE
           it == CHOOSE f : f = [s \in SUBSET S |->
                    IF s = {} THEN 0 ELSE Value[first(s).note] + f[s \ {first(s)}]]
<1>1. NotesWorth(S) = it[S]
  BY DEF NotesWorth, MapThenSumSet, MapThenFoldSet
<1>2. PICK g : IsSum(g, v, S)
  BY SumExists
<1>3. g = [s \in SUBSET S |-> IF s = {} THEN 0 ELSE Value[first(s).note] + g[s \ {first(s)}]]
  <2>1. g \in [SUBSET S -> Int] /\ g[{}] = 0
    BY <1>2 DEF IsSum
  <2>2. ASSUME NEW s \in SUBSET S, s # {}
        PROVE  g[s] = Value[first(s).note] + g[s \ {first(s)}]
    <3>1. first(s) \in s
      BY <2>2
    <3> QED BY <1>2, <3>1 DEF IsSum
  <2> QED BY <2>1, <2>2
<1>4. it = [s \in SUBSET S |-> IF s = {} THEN 0 ELSE Value[first(s).note] + it[s \ {first(s)}]]
  BY <1>3
<1>5. IsFold(it, v, S)
  <2> HIDE DEF it
  <2>1. it[{}] = 0
    BY <1>4
  <2>2. ASSUME NEW s \in SUBSET S, s # {}
        PROVE  \E x \in s : it[s] = v[x] + it[s \ {x}]
    <3>1. first(s) \in s
      BY <2>2
    <3>2. it[s] = Value[first(s).note] + it[s \ {first(s)}]
      BY <1>4, <2>2
    <3> QED BY <3>1, <3>2
  <2> QED BY <2>1, <2>2 DEF IsFold
<1>6. \A s \in SUBSET S : it[s] = g[s]
  <2> HIDE DEF it
  <2> QED BY <1>2, <1>5, SumIsWhatAFoldGives
<1>7. v \in [S -> Int]
  OBVIOUS
<1> QED BY <1>1, <1>2, <1>6, <1>7, SumIsTotal

\* What prove_spend adds up over the outputs it decrypted.
OutputsWorth(W) == MapThenSumSet(LAMBDA w : Value[w.output], W)

LEMMA OutputsWorthIsTotal ==
  ASSUME NEW S, IsFiniteSet(S), \A w \in S : Value[w.output] \in Int
  PROVE  OutputsWorth(S) = SumOver([w \in S |-> Value[w.output]], S)
<1> DEFINE v == [n \in S |-> Value[n.output]]
           first(s) == CHOOSE x \in s : TRUE
           it == CHOOSE f : f = [s \in SUBSET S |->
                    IF s = {} THEN 0 ELSE Value[first(s).output] + f[s \ {first(s)}]]
<1>1. OutputsWorth(S) = it[S]
  BY DEF OutputsWorth, MapThenSumSet, MapThenFoldSet
<1>2. PICK g : IsSum(g, v, S)
  BY SumExists
<1>3. g = [s \in SUBSET S |-> IF s = {} THEN 0 ELSE Value[first(s).output] + g[s \ {first(s)}]]
  <2>1. g \in [SUBSET S -> Int] /\ g[{}] = 0
    BY <1>2 DEF IsSum
  <2>2. ASSUME NEW s \in SUBSET S, s # {}
        PROVE  g[s] = Value[first(s).output] + g[s \ {first(s)}]
    <3>1. first(s) \in s
      BY <2>2
    <3> QED BY <1>2, <3>1 DEF IsSum
  <2> QED BY <2>1, <2>2
<1>4. it = [s \in SUBSET S |-> IF s = {} THEN 0 ELSE Value[first(s).output] + it[s \ {first(s)}]]
  BY <1>3
<1>5. IsFold(it, v, S)
  <2> HIDE DEF it
  <2>1. it[{}] = 0
    BY <1>4
  <2>2. ASSUME NEW s \in SUBSET S, s # {}
        PROVE  \E x \in s : it[s] = v[x] + it[s \ {x}]
    <3>1. first(s) \in s
      BY <2>2
    <3>2. it[s] = Value[first(s).output] + it[s \ {first(s)}]
      BY <1>4, <2>2
    <3> QED BY <3>1, <3>2
  <2> QED BY <2>1, <2>2 DEF IsFold
<1>6. \A s \in SUBSET S : it[s] = g[s]
  <2> HIDE DEF it
  <2> QED BY <1>2, <1>5, SumIsWhatAFoldGives
<1>7. v \in [S -> Int]
  OBVIOUS
<1> QED BY <1>1, <1>2, <1>6, <1>7, SumIsTotal

LEMMA NothingIsWorthNothing == NotesWorth({}) = 0
BY WorthIsTotal, TotalOfNothing, FS_EmptySet

\* A chain, and what a wallet finds on it, is finite.
LEMMA ChainIsFinite == ASSUME NEW b \in Block PROVE IsFiniteSet(Chain[b])
<1> DEFINE f == [c \in Chain[b] |-> Height[c]]
<1>1. Height[b] \in Nat /\ \A c \in Chain[b] : Height[c] \in 0..Height[b]
  BY ChainAssumption
<1>2. \A c, d \in Chain[b] : Height[c] = Height[d] => c = d
  BY ChainAssumption
<1>3. f \in Injection(Chain[b], 0..Height[b])
  BY <1>1, <1>2 DEF Injection, IsInjective
<1>4. IsFiniteSet(0..Height[b])
  BY <1>1, FS_Interval
<1> QED BY <1>3, <1>4, FS_Injection

LEMMA NotesAreFinite == ASSUME wallet \in Block PROVE IsFiniteSet(unspent)
<1> DEFINE covered == Chain[wallet] \ {Genesis}
           N(b) == NotesAt(b, LeavesBefore(b))
           All == {N(b) : b \in covered}
<1>1. IsFiniteSet(covered) /\ covered \subseteq Block
  BY ChainIsFinite, FS_Subset, BlockTypes
<1>2. ASSUME NEW b \in covered PROVE IsFiniteSet(N(b))
  <2> DEFINE I == {j \in DOMAIN Outs[b] : Outs[b][j] \in Mine}
             at == [i \in I |-> [note |-> Outs[b][i], height |-> Height[b],
                                 position |-> LeavesBefore(b) + (i - 1)]]
  <2>1. IsFiniteSet(I)
    <3>1. DOMAIN Outs[b] = 1..Len(Outs[b]) /\ Len(Outs[b]) \in Nat
      BY <1>1, TreeAssumption
    <3> DEFINE k == Len(Outs[b])
    <3>4. k \in Nat /\ 1 \in Int /\ k \in Int
      BY <3>1
    <3> HIDE DEF k
    <3>2. IsFiniteSet(1..k)
      BY <3>4, FS_Interval
    <3> USE DEF k
    <3>3. I \in SUBSET (1..Len(Outs[b]))
      BY <3>1
    <3> QED BY <3>2, <3>3, FS_Subset
  <2>2. at \in Surjection(I, N(b))
    BY DEF NotesAt, Surjection
  <2> QED BY <2>1, <2>2, FS_Surjection
<1>3. IsFiniteSet(All)
  <2> DEFINE at == [b \in covered |-> N(b)]
  <2>1. at \in Surjection(covered, All)
    BY DEF Surjection
  <2> QED BY <1>1, <2>1, FS_Surjection
<1>4. IsFiniteSet(UNION All)
  <2>1. \A T \in All : IsFiniteSet(T)
    BY <1>2
  <2> HIDE DEF All
  <2> QED BY <1>3, <2>1, FS_UNION
<1>5. unspent \in SUBSET (UNION All)
  BY DEF unspent, NotesOf
<1> QED BY <1>4, <1>5, FS_Subset

\* Notes worth more than nothing are never none, and select_notes takes one.
LEMMA SomethingIsSelected ==
  ASSUME NEW S \in SUBSET Note, IsFiniteSet(S), NEW needed \in Nat, Selectable(S, needed)
  PROVE  select_notes(S, needed) # {}
<1> DEFINE earlier(n) == {m \in S : Sooner(m, n)}
           Counts == {Cardinality(earlier(n)) : n \in S}
<1>1. S # {} /\ needed > 0
  BY NothingIsWorthNothing DEF Selectable
<1>2. \A n \in S : IsFiniteSet(earlier(n)) /\ Cardinality(earlier(n)) \in Nat
  <2> TAKE n \in S
  <2>1. earlier(n) \in SUBSET S
    OBVIOUS
  <2> QED BY <2>1, FS_Subset, FS_CardinalityType
<1>3. PICK k \in Counts : \A j \in Counts : k \leq j
  <2>1. Counts \subseteq Nat /\ Counts # {}
    BY <1>1, <1>2
  <2> HIDE DEF Counts
  <2> QED BY <2>1, LeastNatural
<1>4. PICK n \in S : k = Cardinality(earlier(n))
  BY <1>3
<1>5. ASSUME NEW m \in earlier(n) PROVE FALSE
  <2>1. \A x \in S : Value[x.note] \in Nat /\ x.position \in Nat
    BY SpendAssumption DEF Note
  <2>2. earlier(m) \in SUBSET earlier(n) /\ m \notin earlier(m)
    BY <1>5, <2>1 DEF Sooner
  <2>3. earlier(m) # earlier(n)
    BY <1>5, <2>2
  <2>4. Cardinality(earlier(m)) \leq Cardinality(earlier(n))
        /\ Cardinality(earlier(m)) # Cardinality(earlier(n))
    <3> HIDE DEF earlier
    <3> QED BY <1>2, <2>2, <2>3, FS_Subset
  <2>5. k \leq Cardinality(earlier(m)) /\ m \in S
    BY <1>3, <1>5
  <2> QED BY <1>2, <1>4, <2>4, <2>5
<1>6. {m \in S : Sooner(m, n)} = {}
  BY <1>5
<1>7. NotesWorth({m \in S : Sooner(m, n)}) < needed
  BY <1>1, <1>6, NothingIsWorthNothing
<1> QED BY <1>7 DEF select_notes

-----------------------------------------------------------------------------
(***************************************************************************)
(* Servers that are only ahead or behind                                   *)
(***************************************************************************)
\* n lies in block b, as its i-th output.
LiesAt(n, b, i) ==
  /\ i \in DOMAIN Outs[b] /\ Outs[b][i] = n.note /\ n.note \in Mine
  /\ n.height = Height[b] /\ n.position = LeavesBefore(b) + (i - 1)

\* The wallet found n where its chain has it.
Found(n) == n \in Note /\ \E b \in Chain[wallet] \ {Genesis} : \E i \in Nat : LiesAt(n, b, i)

\* The anchor height is known.
Anchored == pc \notin {"idle", "tip", "light_tip", "refused"}

\* No witness is taken before the anchor is known.
FreshInv == pc \in {"idle", "tip", "light_tip"} => witnessed = {}

CalmServers ==
  /\ OneChain({wallet, light, node})
  /\ ask.pin # None => ask.pin \leq Height[light] /\ ask.pin \leq Height[node]
  /\ Anchored => anchorAt \leq Height[light] /\ anchorAt \leq Height[node]

CalmPicked ==
  /\ IsFiniteSet(picked) /\ IsFiniteSet(witnessed)
  /\ picked # {} \/ witnessed # {}
  /\ \A n \in picked :
       /\ Found(n)
       /\ n.height \leq Height[light] /\ n.height \leq Height[node]
       /\ ask.pin # None => n.height \leq ask.pin
       /\ pc = "light_tip" => n.height \leq tip
       /\ Anchored => n.height \leq anchorAt

CalmCur ==
  pc \in {"block", "advance"} =>
    /\ cur.note \in picked /\ cur.upto \leq anchorAt
    /\ cur.tree = Leaves[At(light, cur.upto)]
    /\ pc = "block" => cur.upto = cur.note.height - 1
    /\ pc = "advance" => cur.leaf = cur.note.note

CalmWitnessed ==
  \A w \in witnessed :
    /\ Found(w.note)
    /\ w = [note |-> w.note, tree |-> Leaves[At(light, anchorAt)],
            leaf |-> w.note.note, output |-> w.note.note]

\* What holds for as long as both servers stay on the wallet's chain.
Agreeing ==
  /\ pc \notin {"idle", "refused"}
  /\ CalmServers /\ CalmPicked /\ CalmCur /\ CalmWitnessed

CalmInv == calm => Agreeing

\* A block is on its own chain, and its parent one below it.
LEMMA OwnChain ==
  ASSUME NEW b \in Block
  PROVE  /\ b \in Chain[b]
         /\ b # Genesis => Parent[b] \in Chain[b] /\ Height[Parent[b]] = Height[b] - 1
<1>1. \A c \in Block : c \in Chain[c]
  <2> TAKE c \in Block
  <2>1. CASE c = Genesis
    BY <2>1, ChainAssumption
  <2>2. CASE c # Genesis
    <3>1. c \in Block \ {Genesis}
      BY <2>2
    <3>2. Chain[c] = Chain[Parent[c]] \cup {c}
      BY <3>1, ChainAssumption
    <3> QED BY <3>2
  <2> QED BY <2>1, <2>2
<1>2. CASE b # Genesis
  <2>1. Parent[b] \in Block /\ Chain[b] = Chain[Parent[b]] \cup {b}
    BY <1>2, ChainAssumption
  <2>2. Parent[b] \in Chain[b]
    BY <1>1, <2>1
  <2> QED BY <1>1, <1>2, <2>2, BlockTypes
<1> QED BY <1>1, <1>2

\* What a chain holds at a height, every chain grown from it holds.
LEMMA AtOnChain ==
  ASSUME NEW top \in Block, NEW b \in Chain[top], NEW h \in Nat, h \leq Height[b]
  PROVE  At(b, h) = At(top, h) /\ b \in Block /\ h \leq Height[top]
<1>1. b \in Block /\ Chain[b] \subseteq Chain[top] /\ Height[b] \leq Height[top]
  BY ChainAssumption
<1>2. Height[b] \in Nat /\ Height[top] \in Nat
  BY <1>1, BlockTypes
<1>3. Has(b, h) /\ Has(top, h)
  BY <1>1, <1>2 DEF Has
<1>4. At(b, h) \in Chain[top] /\ Height[At(b, h)] = h
  BY <1>1, <1>3, AtIsThere
<1>5. At(top, h) \in Chain[top] /\ Height[At(top, h)] = h
  BY <1>3, AtIsThere
<1>6. \A c, d \in Chain[top] : Height[c] = Height[d] => c = d
  BY ChainAssumption
<1> QED BY <1>1, <1>2, <1>4, <1>5, <1>6

\* The block of a chain at its own height.
LEMMA AtOwnHeight ==
  ASSUME NEW top \in Block, NEW b \in Chain[top]
  PROVE  At(top, Height[b]) = b
<1>1. b \in Block /\ Height[b] \in Nat /\ Height[b] \leq Height[top]
  BY ChainAssumption
<1>2. At(top, Height[b]) \in Chain[top] /\ Height[At(top, Height[b])] = Height[b]
  BY <1>1, AtIsThere DEF Has
<1> QED BY <1>2, ChainAssumption

\* Two blocks of one chain agree as far as both reach.
LEMMA OneChainAgrees ==
  ASSUME NEW b, NEW c, OneChain({b, c}), NEW h \in Nat, h \leq Height[b], h \leq Height[c]
  PROVE  At(b, h) = At(c, h)
<1>1. PICK top \in Block : b \in Chain[top] /\ c \in Chain[top]
  BY DEF OneChain
<1> QED BY <1>1, AtOnChain

LEMMA PartOfOneChain ==
  ASSUME NEW S, OneChain(S), NEW T \in SUBSET S
  PROVE  OneChain(T)
  BY DEF OneChain

\* The tree grows by the outputs of the next block.
LEMMA NextLeaves ==
  ASSUME NEW b \in Block, NEW h \in Nat, h + 1 \leq Height[b]
  PROVE  /\ Leaves[At(b, h + 1)] = Leaves[At(b, h)] \o Outs[At(b, h + 1)]
         /\ LeavesBefore(At(b, h + 1)) = Len(Leaves[At(b, h)])
         /\ Leaves[At(b, h)] \in Seq(Cmu) /\ Outs[At(b, h + 1)] \in Seq(Cmu)
<1> DEFINE c == At(b, h + 1)
<1>1. Has(b, h + 1) /\ Has(b, h) /\ h + 1 \in Nat /\ h + 1 # 0
  BY BlockTypes DEF Has
<1>2. c \in Block /\ c \in Chain[b] /\ Height[c] = h + 1
  BY <1>1, AtIsThere
<1>3. c # Genesis
  BY <1>1, <1>2, ChainAssumption
<1>4. Parent[c] \in Chain[c] /\ Height[Parent[c]] = h /\ Parent[c] \in Block
  BY <1>2, <1>3, OwnChain, BlockTypes
<1>5. Parent[c] \in Chain[b]
  BY <1>2, <1>4, ChainAssumption
<1>6. At(b, h) = Parent[c]
  BY <1>4, <1>5, AtOwnHeight
<1> HIDE DEF c
<1>7. Leaves[c] = Leaves[Parent[c]] \o Outs[c] /\ Size[Parent[c]] = Len(Leaves[Parent[c]])
  BY <1>2, <1>3, <1>4, LeavesAssumption
<1>8. Leaves[Parent[c]] \in Seq(Cmu) /\ Outs[c] \in Seq(Cmu)
  BY <1>2, <1>4, LeavesAssumption
<1> QED BY <1>6, <1>7, <1>8 DEF LeavesBefore, c

\* Where the wallet found a note, a light server on its chain has it too.
LEMMA FoundThere ==
  ASSUME wallet \in Block, light \in Block, OneChain({wallet, light}),
         NEW n, Found(n), n.height \leq Height[light]
  PROVE  /\ n \in Note /\ n.height - 1 \in Nat /\ n.height \in Nat
         /\ At(wallet, n.height) = At(light, n.height)
         /\ \E i \in Nat : LiesAt(n, At(light, n.height), i)
<1>1. PICK b \in Chain[wallet] \ {Genesis}, i \in Nat : LiesAt(n, b, i)
  BY DEF Found
<1>2. n \in Note /\ n.height \in Nat \ {0}
  BY DEF Found, Note
<1>3. n.height = Height[b] /\ b \in Block
  BY <1>1, BlockTypes DEF LiesAt
<1>4. Height[b] \leq Height[wallet]
  BY <1>1, ChainAssumption
<1>5. At(wallet, n.height) = b
  BY <1>1, <1>3, AtOwnHeight
<1>6. At(wallet, n.height) = At(light, n.height)
  BY <1>2, <1>3, <1>4, OneChainAgrees
<1> QED BY <1>1, <1>2, <1>5, <1>6

\* Every note of the wallet is found where it is said to lie.
LEMMA UnspentIsFound == ASSUME wallet \in Block, NEW n \in unspent PROVE Found(n)
<1> DEFINE covered == Chain[wallet] \ {Genesis}
<1>1. n \in Note
  BY NotesAreTyped
<1>2. PICK b \in covered : n \in NotesAt(b, LeavesBefore(b))
  BY DEF unspent, NotesOf
<1>3. PICK i \in DOMAIN Outs[b] :
        /\ Outs[b][i] \in Mine
        /\ n = [note |-> Outs[b][i], height |-> Height[b], position |-> LeavesBefore(b) + (i - 1)]
  BY <1>2 DEF NotesAt
<1>4. i \in Nat
  <2>1. b \in Block
    BY <1>2, BlockTypes
  <2> QED BY <1>3, <2>1, TreeAssumption
<1>5. LiesAt(n, b, i)
  BY <1>3 DEF LiesAt
<1> QED BY <1>1, <1>2, <1>4, <1>5 DEF Found

-----------------------------------------------------------------------------
(***************************************************************************)
(* While the servers agree with the wallet, no step fails                  *)
(***************************************************************************)
\* The servers only grow, and all that was read below their tips stays.
LEMMA MovesAgree ==
  ASSUME IInv, FreshInv, Agreeing, UNCHANGED <<wallet, call>>,
         light' \in Block, light \in Chain[light'], node' \in Block, node \in Chain[node'],
         OneChain({wallet, light', node'})
  PROVE  Agreeing'
<1>1. /\ Height[light] \leq Height[light'] /\ Height[node] \leq Height[node']
      /\ Height[light] \in Nat /\ Height[light'] \in Nat
      /\ Height[node] \in Nat /\ Height[node'] \in Nat
  BY ChainAssumption DEF IInv, TypeOK
<1>2. \A h \in Nat : h \leq Height[light] => At(light', h) = At(light, h)
  BY AtOnChain
<1>3. UNCHANGED <<wallet, pc, ask, tip, anchorAt, picked, cur, witnessed>>
  BY DEF call
<1>4. anchorAt \in Nat /\ (pc # "idle" => ask.pin \in Nat \cup {None})
  BY SpendAssumption DEF IInv, TypeOK, AskInv
<1>5. CalmServers'
  <2>1. pc # "idle" /\ (ask.pin # None => ask.pin \in Nat)
    BY <1>4 DEF Agreeing
  <2>2. OneChain({wallet', light', node'})
    BY <1>3
  <2>3. ask'.pin # None => ask'.pin \leq Height[light'] /\ ask'.pin \leq Height[node']
    BY <1>1, <1>3, <2>1 DEF Agreeing, CalmServers
  <2>4. Anchored' => anchorAt' \leq Height[light'] /\ anchorAt' \leq Height[node']
    BY <1>1, <1>3, <1>4 DEF Agreeing, CalmServers, Anchored
  <2> QED BY <2>2, <2>3, <2>4 DEF CalmServers
<1>6. CalmPicked'
  <2>1. ASSUME NEW n \in picked
        PROVE  /\ Found(n)'
               /\ n.height \leq Height[light'] /\ n.height \leq Height[node']
    <3>1. /\ Found(n) /\ n.height \in Nat
          /\ n.height \leq Height[light] /\ n.height \leq Height[node]
      BY DEF Agreeing, CalmPicked, Found, Note
    <3>2. Found(n)'
      BY <1>3, <3>1 DEF Found
    <3> QED BY <1>1, <3>1, <3>2
  <2> QED BY <1>3, <2>1 DEF Agreeing, CalmPicked, Anchored
<1>7. CalmCur'
  <2> SUFFICES ASSUME pc \in {"block", "advance"} PROVE CalmCur'
    BY <1>3 DEF CalmCur
  <2>1. cur.upto \in Nat /\ cur.upto \leq anchorAt /\ anchorAt \leq Height[light]
    BY DEF IInv, CurInv, Agreeing, CalmCur, CalmServers, Anchored
  <2>2. At(light', cur.upto) = At(light, cur.upto)
    BY <1>1, <1>2, <1>4, <2>1
  <2> QED BY <1>3, <2>2 DEF Agreeing, CalmCur
<1>8. CalmWitnessed'
  <2> SUFFICES ASSUME NEW w \in witnessed
               PROVE  /\ Found(w.note)'
                      /\ w = [note |-> w.note, tree |-> Leaves[At(light', anchorAt)],
                              leaf |-> w.note.note, output |-> w.note.note]
    BY <1>3 DEF CalmWitnessed
  <2>1. Anchored
    BY DEF FreshInv, Agreeing, Anchored
  <2>2. At(light', anchorAt) = At(light, anchorAt)
    BY <1>2, <1>4, <2>1 DEF Agreeing, CalmServers
  <2>3. Found(w.note)'
    BY <1>3 DEF Agreeing, CalmWitnessed, Found
  <2> QED BY <2>2, <2>3 DEF Agreeing, CalmWitnessed
<1> QED BY <1>3, <1>5, <1>6, <1>7, <1>8 DEF Agreeing

\* What is selected was found where the wallet's chain has it.
LEMMA StartAgrees ==
  ASSUME IInv, FreshInv, Start, calm'
  PROVE  Agreeing'
<1>1. PICK needed \in Amounts, pin \in Pins, expiry \in Expiries :
        /\ ask' = [needed |-> needed, pin |-> pin, expiry |-> expiry]
        /\ IF Selectable(unspent, needed)
            THEN /\ pc' = "tip"
                 /\ picked' = select_notes(unspent, needed)
                 /\ calm' = (/\ OneChain({wallet, light, node})
                             /\ \A h \in {n.height : n \in picked'} :
                                   /\ h \leq Height[light] /\ h \leq Height[node]
                                   /\ pin # None => h \leq pin
                             /\ pin # None => pin \leq Height[light] /\ pin \leq Height[node])
            ELSE pc' = "refused" /\ calm' = FALSE /\ UNCHANGED picked
  BY Zenon DEF Start
<1>2. /\ UNCHANGED <<wallet, servers, failures, tip, anchorAt, cur, witnessed, checked, tx>>
      /\ pc = "idle"
  BY DEF Start
<1>3. Selectable(unspent, needed)
  BY <1>1, Zenon
<1>4. /\ pc' = "tip" /\ picked' = select_notes(unspent, needed)
      /\ OneChain({wallet, light, node})
      /\ \A h \in {n.height : n \in picked'} :
            h \leq Height[light] /\ h \leq Height[node] /\ (pin # None => h \leq pin)
      /\ pin # None => pin \leq Height[light] /\ pin \leq Height[node]
  BY <1>1, <1>3, Zenon
<1>5. /\ wallet \in Block /\ needed \in Nat
      /\ unspent \in SUBSET Note /\ IsFiniteSet(unspent)
  BY NotesAreTyped, NotesAreFinite, SpendAssumption DEF IInv, TypeOK
<1>6. picked' # {}
  BY <1>3, <1>4, <1>5, SomethingIsSelected
<1>7. picked' \in SUBSET unspent
  BY <1>4 DEF select_notes
<1>8. IsFiniteSet(picked')
  BY <1>5, <1>7, FS_Subset
<1>9. witnessed' = {} /\ IsFiniteSet(witnessed')
  BY <1>2, FS_EmptySet DEF FreshInv
<1>10. ASSUME NEW n \in picked'
       PROVE  /\ Found(n)' /\ n.height \leq Height[light] /\ n.height \leq Height[node]
              /\ pin # None => n.height \leq pin
  <2>1. Found(n)
    BY <1>5, <1>7, UnspentIsFound
  <2>2. Found(n)'
    BY <1>2, <2>1 DEF Found
  <2> QED BY <1>4, <2>2
<1>11. CalmServers'
  BY <1>1, <1>2, <1>4 DEF CalmServers, servers, Anchored
<1>12. CalmPicked'
  BY <1>1, <1>2, <1>4, <1>6, <1>8, <1>9, <1>10 DEF CalmPicked, servers, Anchored
<1> QED BY <1>4, <1>9, <1>11, <1>12 DEF Agreeing, CalmCur, CalmWitnessed

\* Steps that leave the servers, the arguments and the anchor alone keep what
\* is said of them.
LEMMA ServersStayAgreed ==
  ASSUME CalmServers, UNCHANGED <<wallet, servers, ask, anchorAt>>, Anchored' => Anchored
  PROVE  CalmServers'
  BY DEF CalmServers, servers

LEMMA ReadTipAgrees == ASSUME IInv, FreshInv, Agreeing, ReadTip PROVE Agreeing'
<1>1. /\ pc = "tip" /\ pc' = "light_tip" /\ tip' = Height[node]
      /\ UNCHANGED <<wallet, servers, failures, ask, anchorAt, picked, cur, witnessed>>
  BY DEF ReadTip
<1>2. CalmServers'
  BY <1>1, ServersStayAgreed DEF Agreeing, Anchored
<1>3. CalmPicked'
  <2>1. \A n \in picked : Found(n)'
    BY <1>1 DEF Agreeing, CalmPicked, Found
  <2> QED BY <1>1, <2>1 DEF Agreeing, CalmPicked, Anchored, servers
<1>4. CalmCur' /\ CalmWitnessed'
  BY <1>1 DEF FreshInv, CalmCur, CalmWitnessed
<1> QED BY <1>1, <1>2, <1>3, <1>4 DEF Agreeing

LEMMA ReadLightTipAgrees ==
  ASSUME IInv, FreshInv, Agreeing, ReadLightTip PROVE Agreeing'
<1> DEFINE height == AnchorHeight(Height[light])
<1>1. pc = "light_tip" /\ UNCHANGED <<wallet, servers, failures, calm>>
  BY DEF ReadLightTip
<1>2. /\ tip \in Nat /\ tip \leq Height[node] /\ Height[light] \in Nat /\ Height[node] \in Nat
      /\ ask.pin \in Nat \cup {None}
  BY <1>1, BlockTypes, SpendAssumption DEF IInv, TypeOK, TipInv, AskInv
<1>3. ask.pin # None => ask.pin \leq Height[light] /\ ask.pin \leq Height[node]
  BY DEF Agreeing, CalmServers
<1>4. height \leq Height[light] /\ height \leq Height[node]
  BY <1>2, <1>3 DEF AnchorHeight
<1>5. ASSUME NEW n \in picked
      PROVE  /\ Found(n) /\ n.height \leq Height[light] /\ n.height \leq Height[node]
             /\ ask.pin # None => n.height \leq ask.pin
             /\ n.height \leq tip /\ n.height \in Nat
  BY <1>1 DEF Agreeing, CalmPicked, Found, Note
<1>6. \A n \in picked : n.height \leq height /\ ~(n.height > height)
  BY <1>2, <1>5 DEF AnchorHeight
<1> HIDE DEF height
<1>7. /\ anchorAt' = height /\ pc' = "frontier"
      /\ UNCHANGED <<ask, tip, picked, cur, witnessed, checked, tx>>
  BY <1>6 DEF ReadLightTip, height
<1>8. CalmServers'
  BY <1>1, <1>4, <1>7 DEF Agreeing, CalmServers, servers
<1>9. CalmPicked'
  <2>1. \A n \in picked : Found(n)'
    BY <1>1, <1>5 DEF Found
  <2> QED BY <1>1, <1>5, <1>6, <1>7, <2>1 DEF Agreeing, CalmPicked, servers
<1>10. CalmCur' /\ CalmWitnessed'
  BY <1>1, <1>7 DEF FreshInv, CalmCur, CalmWitnessed
<1> QED BY <1>7, <1>8, <1>9, <1>10 DEF Agreeing

\* A server on the wallet's chain that has reached the anchor has the tree
\* before every note to be spent.
LEMMA FrontierAgrees == ASSUME IInv, FreshInv, Agreeing, Frontier PROVE Agreeing'
<1>1. PICK n \in picked :
         IF ~Has(light, n.height - 1) THEN Refuse
          ELSE /\ cur' = [note |-> n, tree |-> Leaves[At(light, n.height - 1)],
                          upto |-> n.height - 1, leaf |-> None]
               /\ pc' = "block"
               /\ UNCHANGED <<ask, tip, anchorAt, picked, witnessed, checked, tx>>
  BY DEF Frontier
<1>2. pc = "frontier" /\ UNCHANGED <<wallet, servers, failures, calm>>
  BY DEF Frontier
<1>3. /\ Found(n) /\ n.height \leq Height[light] /\ n.height \leq anchorAt
      /\ n.height \in Nat \ {0} /\ Height[light] \in Nat /\ anchorAt \in Nat
  BY <1>2, BlockTypes DEF Agreeing, CalmPicked, Found, Note, Anchored, IInv, TypeOK
<1>4. Has(light, n.height - 1)
  BY <1>3 DEF Has
<1>5. /\ cur' = [note |-> n, tree |-> Leaves[At(light, n.height - 1)],
                 upto |-> n.height - 1, leaf |-> None]
      /\ pc' = "block"
      /\ UNCHANGED <<ask, tip, anchorAt, picked, witnessed, checked, tx>>
  BY <1>1, <1>4
<1>6. CalmServers'
  BY <1>2, <1>5, ServersStayAgreed DEF Agreeing, Anchored
<1>7. CalmPicked' /\ CalmWitnessed'
  <2>1. (\A m \in picked : Found(m)') /\ (\A w \in witnessed : Found(w.note)')
    BY <1>2 DEF Agreeing, CalmPicked, CalmWitnessed, Found
  <2> QED BY <1>2, <1>5, <2>1 DEF Agreeing, CalmPicked, CalmWitnessed, Anchored, servers
<1>8. CalmCur'
  <2>1. n.height - 1 \leq anchorAt
    BY <1>3
  <2> QED BY <1>2, <1>5, <2>1 DEF CalmCur, servers
<1> QED BY <1>5, <1>6, <1>7, <1>8 DEF Agreeing

\* ... and the note in its block, where the scan had found it.
LEMMA OwnBlockAgrees == ASSUME IInv, FreshInv, Agreeing, OwnBlock PROVE Agreeing'
<1> DEFINE n     == cur.note
           h     == n.height
           cmus  == Outs[At(light, h)]
           index == n.position + 1 - Len(cur.tree)
<1>1. pc = "block" /\ UNCHANGED <<wallet, servers, failures, calm>>
  BY DEF OwnBlock
<1>2. /\ n \in picked /\ cur.tree = Leaves[At(light, cur.upto)] /\ cur.upto = h - 1
      /\ cur = [note |-> cur.note, tree |-> cur.tree, upto |-> cur.upto, leaf |-> cur.leaf]
  BY <1>1 DEF Agreeing, CalmCur, IInv, CurInv
<1>3. /\ Found(n) /\ h \leq Height[light] /\ h \leq anchorAt
      /\ wallet \in Block /\ light \in Block /\ Height[light] \in Nat
  BY <1>1, <1>2, BlockTypes DEF Agreeing, CalmPicked, Anchored, IInv, TypeOK
<1>4. OneChain({wallet, light})
  BY PartOfOneChain DEF Agreeing, CalmServers
<1>5. /\ n \in Note /\ h - 1 \in Nat /\ h \in Nat
      /\ \E i \in Nat : LiesAt(n, At(light, h), i)
  BY <1>3, <1>4, FoundThere
<1>6. PICK i \in Nat : i \in DOMAIN cmus /\ cmus[i] = n.note
                       /\ n.position = LeavesBefore(At(light, h)) + (i - 1)
  BY <1>5 DEF LiesAt
<1>7. /\ Leaves[At(light, h)] = Leaves[At(light, h - 1)] \o cmus
      /\ LeavesBefore(At(light, h)) = Len(Leaves[At(light, h - 1)])
      /\ Leaves[At(light, h - 1)] \in Seq(Cmu)
  <2>1. (h - 1) + 1 = h
    BY <1>5
  <2> QED BY <1>3, <1>5, <2>1, NextLeaves
<1>8. index = i
  <2>1. Len(Leaves[At(light, h - 1)]) \in Nat
    BY <1>7
  <2> QED BY <1>2, <1>6, <1>7, <2>1
<1>9. /\ cur' = [cur EXCEPT !.tree = @ \o cmus, !.upto = h, !.leaf = cmus[index]]
      /\ pc' = "advance"
      /\ UNCHANGED <<ask, tip, anchorAt, picked, witnessed, checked, tx>>
  <2>1. Has(light, h) /\ index \in DOMAIN cmus
    BY <1>3, <1>6, <1>8 DEF Has
  <2> QED BY <2>1 DEF OwnBlock
<1>10. cur' = [note |-> n, tree |-> Leaves[At(light, h)], upto |-> h, leaf |-> n.note]
  BY <1>2, <1>6, <1>7, <1>8, <1>9
<1>11. CalmServers'
  BY <1>1, <1>9, ServersStayAgreed DEF Agreeing, Anchored
<1>12. CalmPicked' /\ CalmWitnessed'
  <2>1. (\A m \in picked : Found(m)') /\ (\A w \in witnessed : Found(w.note)')
    BY <1>1 DEF Agreeing, CalmPicked, CalmWitnessed, Found
  <2> QED BY <1>1, <1>9, <2>1 DEF Agreeing, CalmPicked, CalmWitnessed, Anchored, servers
<1>13. CalmCur'
  <2> HIDE DEF n, h, cmus, index
  <2>1. light' = light
    BY <1>1 DEF servers
  <2>2. cur'.note = n /\ cur'.upto = h /\ cur'.leaf = n.note /\ cur'.tree = Leaves[At(light', h)]
    BY <1>10, <2>1
  <2> QED BY <1>2, <1>3, <1>9, <2>2 DEF CalmCur
<1> QED BY <1>9, <1>11, <1>12, <1>13 DEF Agreeing

\* ... and every block from there to the anchor.
LEMMA AdvanceAgrees == ASSUME IInv, FreshInv, Agreeing, Advance PROVE Agreeing'
<1> DEFINE u == cur.upto
           cmus == Outs[At(light, u + 1)]
<1>1. pc = "advance" /\ u < anchorAt /\ UNCHANGED <<wallet, servers, failures, calm>>
  BY DEF Advance, Advancing
<1>2. /\ cur.note \in picked /\ cur.tree = Leaves[At(light, u)] /\ u \in Nat
      /\ cur = [note |-> cur.note, tree |-> cur.tree, upto |-> u, leaf |-> cur.leaf]
      /\ cur.leaf = cur.note.note
  BY <1>1 DEF Agreeing, CalmCur, IInv, CurInv
<1>3. /\ anchorAt \in Nat /\ anchorAt \leq Height[light] /\ Height[light] \in Nat
      /\ light \in Block
  BY <1>1, BlockTypes DEF Agreeing, CalmServers, Anchored, IInv, TypeOK
<1>4. u + 1 \leq anchorAt /\ u + 1 \leq Height[light]
  BY <1>1, <1>2, <1>3
<1>5. Leaves[At(light, u + 1)] = Leaves[At(light, u)] \o cmus
  BY <1>2, <1>3, <1>4, NextLeaves
<1>6. /\ cur' = [cur EXCEPT !.tree = @ \o cmus, !.upto = @ + 1]
      /\ UNCHANGED <<pc, ask, tip, anchorAt, picked, witnessed, checked, tx>>
  <2>1. Has(light, u + 1)
    BY <1>4 DEF Has
  <2> QED BY <2>1 DEF Advance
<1>7. cur' = [note |-> cur.note, tree |-> Leaves[At(light, u + 1)], upto |-> u + 1,
              leaf |-> cur.note.note]
  BY <1>2, <1>5, <1>6
<1>8. CalmServers'
  BY <1>1, <1>6, ServersStayAgreed DEF Agreeing, Anchored
<1>9. CalmPicked' /\ CalmWitnessed'
  <2>1. (\A m \in picked : Found(m)') /\ (\A w \in witnessed : Found(w.note)')
    BY <1>1 DEF Agreeing, CalmPicked, CalmWitnessed, Found
  <2> QED BY <1>1, <1>6, <2>1 DEF Agreeing, CalmPicked, CalmWitnessed, Anchored, servers
<1>10. CalmCur'
  <2> HIDE DEF u, cmus
  <2>1. light' = light
    BY <1>1 DEF servers
  <2>2. /\ cur'.note = cur.note /\ cur'.upto = u + 1 /\ cur'.leaf = cur.note.note
        /\ cur'.tree = Leaves[At(light', u + 1)]
    BY <1>7, <2>1
  <2> QED BY <1>1, <1>2, <1>4, <1>6, <2>2 DEF CalmCur
<1> QED BY <1>1, <1>6, <1>8, <1>9, <1>10 DEF Agreeing

\* ... and the output the scan had seen, which is the leaf.
LEMMA FetchOutputAgrees == ASSUME IInv, FreshInv, Agreeing, FetchOutput PROVE Agreeing'
<1> DEFINE n == cur.note
           b == At(light, n.height)
           cmus == Outs[b]
           fresh == [note |-> n, tree |-> cur.tree, leaf |-> cur.leaf, output |-> cmus[Slot(n)]]
<1>1. pc = "advance" /\ ~(cur.upto < anchorAt) /\ UNCHANGED <<wallet, servers, failures, calm>>
  BY DEF FetchOutput, Advancing
<1>2. /\ n \in picked /\ cur.tree = Leaves[At(light, cur.upto)] /\ cur.upto \in Nat
      /\ cur.upto \leq anchorAt /\ anchorAt \in Nat /\ cur.leaf = n.note
  BY <1>1 DEF Agreeing, CalmCur, IInv, CurInv, TypeOK
<1>3. cur.tree = Leaves[At(light, anchorAt)]
  <2>1. cur.upto = anchorAt
    BY <1>1, <1>2
  <2> QED BY <1>2, <2>1
<1>4. /\ Found(n) /\ n.height \leq Height[light]
      /\ wallet \in Block /\ light \in Block /\ Height[light] \in Nat
  BY <1>1, <1>2, BlockTypes DEF Agreeing, CalmPicked, IInv, TypeOK
<1>5. OneChain({wallet, light})
  BY PartOfOneChain DEF Agreeing, CalmServers
<1>6. /\ At(wallet, n.height) = b /\ n.height \in Nat /\ n.height - 1 \in Nat
      /\ \E i \in Nat : LiesAt(n, b, i)
  BY <1>4, <1>5, FoundThere
<1>7. PICK i \in Nat : i \in DOMAIN cmus /\ cmus[i] = n.note /\ n.position = LeavesBefore(b) + (i - 1)
  BY <1>6 DEF LiesAt
<1>8. LeavesBefore(b) \in Nat
  <2>1. LeavesBefore(b) = Len(Leaves[At(light, n.height - 1)])
        /\ Leaves[At(light, n.height - 1)] \in Seq(Cmu)
    <3>1. (n.height - 1) + 1 = n.height
      BY <1>6
    <3> QED BY <1>4, <1>6, <3>1, NextLeaves
  <2> QED BY <2>1
<1>9. Slot(n) = i
  <2> HIDE DEF b, n
  <2> QED BY <1>6, <1>7, <1>8 DEF Slot
<1>10. Has(light, n.height) /\ Slot(n) \in DOMAIN cmus
  BY <1>4, <1>7, <1>9 DEF Has
<1>11. /\ witnessed' = witnessed \cup {fresh} /\ picked' = picked \ {n}
       /\ cur' = None /\ pc' = "frontier" /\ UNCHANGED <<ask, tip, anchorAt, checked, tx>>
  BY <1>10 DEF FetchOutput
<1>12. fresh = [note |-> n, tree |-> Leaves[At(light, anchorAt)], leaf |-> n.note,
                output |-> n.note]
  BY <1>2, <1>3, <1>7, <1>9
<1> HIDE DEF fresh, n
<1>13. CalmServers'
  BY <1>1, <1>11, ServersStayAgreed DEF Agreeing, Anchored
<1>14. CalmPicked'
  <2>1. IsFiniteSet(picked') /\ IsFiniteSet(witnessed')
    BY <1>11, FS_AddElement, FS_RemoveElement DEF Agreeing, CalmPicked
  <2>2. \A m \in picked' : Found(m)'
    BY <1>1, <1>11 DEF Agreeing, CalmPicked, Found
  <2>3. witnessed' # {}
    BY <1>11
  <2> QED BY <1>1, <1>11, <2>1, <2>2, <2>3 DEF Agreeing, CalmPicked, Anchored, servers
<1>15. CalmWitnessed'
  <2>1. ASSUME NEW w \in witnessed'
        PROVE  /\ Found(w.note)'
               /\ w = [note |-> w.note, tree |-> Leaves[At(light', anchorAt')],
                       leaf |-> w.note.note, output |-> w.note.note]
    <3>1. light' = light /\ anchorAt' = anchorAt /\ wallet' = wallet
      BY <1>1, <1>11 DEF servers
    <3>2. CASE w \in witnessed
      BY <3>1, <3>2 DEF Agreeing, CalmWitnessed, Found
    <3>3. CASE w = fresh
      <4>1. w.note = n
        BY <1>12, <3>3
      <4>2. Found(w.note)'
        BY <1>4, <3>1, <4>1 DEF Found
      <4> QED BY <1>12, <3>1, <3>3, <4>1, <4>2
    <3> QED BY <1>11, <3>2, <3>3
  <2> QED BY <2>1 DEF CalmWitnessed
<1> QED BY <1>11, <1>13, <1>14, <1>15 DEF Agreeing, CalmCur

\* The node has the anchor's block, and the witnesses root to it.
LEMMA CheckAnchorAgrees == ASSUME IInv, FreshInv, Agreeing, CheckAnchor PROVE Agreeing'
<1>1. /\ pc = "frontier" /\ picked = {} /\ UNCHANGED <<wallet, servers, failures, calm>>
  BY DEF CheckAnchor
<1>2. /\ anchorAt \in Nat /\ anchorAt \leq Height[light] /\ anchorAt \leq Height[node]
      /\ witnessed # {}
  BY <1>1 DEF Agreeing, CalmServers, CalmPicked, Anchored, IInv, TypeOK
<1>3. At(light, anchorAt) = At(node, anchorAt)
  <2>1. OneChain({light, node})
    BY PartOfOneChain DEF Agreeing, CalmServers
  <2> QED BY <1>2, <2>1, OneChainAgrees
<1>4. \A w \in witnessed : w.tree = Leaves[At(node, anchorAt)]
  BY <1>3 DEF Agreeing, CalmWitnessed
<1>5. Has(node, anchorAt) /\ RootsTo(At(node, anchorAt))
  BY <1>2, <1>4 DEF Has, RootsTo, shared_anchor
<1>6. pc' = "planned" /\ UNCHANGED <<ask, tip, anchorAt, picked, cur, witnessed, tx>>
  BY <1>5 DEF CheckAnchor
<1>7. CalmServers'
  BY <1>1, <1>6, ServersStayAgreed DEF Agreeing, Anchored
<1>8. CalmPicked' /\ CalmWitnessed'
  <2>1. \A w \in witnessed : Found(w.note)'
    BY <1>1 DEF Agreeing, CalmWitnessed, Found
  <2> QED BY <1>1, <1>6, <2>1 DEF Agreeing, CalmPicked, CalmWitnessed, servers
<1> QED BY <1>6, <1>7, <1>8 DEF Agreeing, CalmCur

\* No two notes of a wallet have one commitment.
LEMMA FoundOnce ==
  ASSUME NoCommitmentTwice, wallet \in Block,
         NEW m, Found(m), NEW n, Found(n), m.note = n.note
  PROVE  m = n
<1>1. PICK b \in Chain[wallet] \ {Genesis}, i \in Nat : LiesAt(m, b, i)
  BY DEF Found
<1>2. PICK c \in Chain[wallet] \ {Genesis}, j \in Nat : LiesAt(n, c, j)
  BY DEF Found
<1>3. b = c /\ i = j
  BY <1>1, <1>2 DEF LiesAt, NoCommitmentTwice
<1>4. m.height = n.height /\ m.position = n.position
  BY <1>1, <1>2, <1>3 DEF LiesAt
<1> QED BY <1>4 DEF Found, Note

\* So what the builder decrypts is what was planned, note by note.
LEMMA AgreeingIsProvable ==
  ASSUME NoCommitmentTwice, wallet \in Block, IsFiniteSet(witnessed), CalmWitnessed
  PROVE  Provable
<1> DEFINE notes == {w.note : w \in witnessed}
           name  == [w \in witnessed |-> w.note]
           outs  == [w \in witnessed |-> Value[w.output]]
           worth == [n \in notes |-> Value[n.note]]
<1>1. ASSUME NEW w \in witnessed
      PROVE  /\ Found(w.note) /\ w.note \in Note /\ w.note.note \in Mine
             /\ w.output = w.note.note /\ w.leaf = w.note.note
             /\ Value[w.output] \in Int
  <2>1. /\ Found(w.note)
        /\ w = [note |-> w.note, tree |-> Leaves[At(light, anchorAt)],
                leaf |-> w.note.note, output |-> w.note.note]
    BY DEF CalmWitnessed
  <2>2. w.note \in Note /\ w.note.note \in Mine
    BY <2>1 DEF Found, Note
  <2>3. w.output = w.note.note /\ w.leaf = w.note.note
    BY <2>1
  <2>4. Value[w.output] \in Nat
    BY <2>2, <2>3, SpendAssumption
  <2> QED BY <2>1, <2>2, <2>3, <2>4
<1>2. ASSUME NEW v \in witnessed, NEW w \in witnessed, v.note = w.note
      PROVE  v = w
  <2>1. /\ v = [note |-> v.note, tree |-> Leaves[At(light, anchorAt)],
                leaf |-> v.note.note, output |-> v.note.note]
        /\ w = [note |-> w.note, tree |-> Leaves[At(light, anchorAt)],
                leaf |-> w.note.note, output |-> w.note.note]
    BY DEF CalmWitnessed
  <2> QED BY <1>2, <2>1
<1>3. ASSUME NEW v \in witnessed, NEW w \in witnessed, v.output = w.output
      PROVE  v = w
  <2>1. v.note = w.note
    BY <1>1, <1>3, FoundOnce
  <2> QED BY <1>2, <2>1
<1>4. name \in Bijection(witnessed, notes)
  <2>1. name \in [witnessed -> notes]
    OBVIOUS
  <2>2. \A v, w \in witnessed : name[v] = name[w] => v = w
    BY <1>2
  <2>3. \A n \in notes : \E w \in witnessed : name[w] = n
    OBVIOUS
  <2> QED BY <2>1, <2>2, <2>3 DEF Bijection, Injection, IsInjective, Surjection
<1>5. IsFiniteSet(notes)
  <2>1. name \in Surjection(witnessed, notes)
    BY <1>4 DEF Bijection
  <2> HIDE DEF name, notes
  <2> QED BY <2>1, FS_Surjection
<1>6. outs \in [witnessed -> Int] /\ worth \in [notes -> Int]
  <2>1. \A w \in witnessed : Value[w.output] \in Int /\ Value[w.note.note] \in Int
    BY <1>1
  <2> QED BY <2>1
<1>7. \A w \in witnessed : outs[w] = worth[name[w]]
  BY <1>1
<1>8. SumOver(outs, witnessed) = SumOver(worth, notes)
  <2> HIDE DEF outs, worth, name, notes
  <2> QED BY <1>4, <1>5, <1>6, <1>7, TotalOfImage
<1>9. OutputsWorth(witnessed) = SumOver(outs, witnessed)
  BY <1>1, OutputsWorthIsTotal
<1>10. NotesWorth(notes) = SumOver(worth, notes)
  <2>1. \A n \in notes : Value[n.note] \in Int
    BY <1>1
  <2> HIDE DEF notes
  <2> QED BY <1>5, <2>1, WorthIsTotal
<1>11. OutputsWorth(witnessed) = NotesWorth(notes)
  BY <1>8, <1>9, <1>10
<1>12. \A w \in witnessed : w.output \in Mine /\ w.leaf = w.output
  BY <1>1
<1>13. \A v, w \in witnessed : v.output = w.output => v = w
  BY <1>3
<1> QED BY <1>11, <1>12, <1>13 DEF Provable, OutputsWorth

LEMMA ProveAgrees ==
  ASSUME NoCommitmentTwice, IInv, FreshInv, Agreeing, Prove, calm' PROVE Agreeing'
<1>1. pc = "planned" /\ UNCHANGED <<wallet, servers, failures>> /\ ExpiryTaken
  BY DEF Prove
<1>2. Provable
  BY AgreeingIsProvable DEF Agreeing, CalmPicked, IInv, TypeOK
<1>3. pc' = "proven" /\ UNCHANGED <<ask, tip, anchorAt, picked, cur, witnessed, checked>>
  BY <1>1, <1>2 DEF Prove
<1>4. CalmServers'
  BY <1>1, <1>3, ServersStayAgreed DEF Agreeing, Anchored
<1>5. CalmPicked' /\ CalmWitnessed'
  <2>1. (\A m \in picked : Found(m)') /\ (\A w \in witnessed : Found(w.note)')
    BY <1>1 DEF Agreeing, CalmPicked, CalmWitnessed, Found
  <2> QED BY <1>1, <1>3, <2>1 DEF Agreeing, CalmPicked, CalmWitnessed, Anchored, servers
<1> QED BY <1>3, <1>4, <1>5 DEF Agreeing, CalmCur

LEMMA FreshStep == ASSUME IInv, FreshInv, [Next]_vars PROVE FreshInv'
  BY DEF FreshInv, Next, Spend, LightMoves, NodeMoves, RequestFails, Refuse, Start, ReadTip,
         ReadLightTip, Frontier, OwnBlock, Advance, FetchOutput, CheckAnchor, Prove, vars,
         call, servers

\* Only the servers' moves, a start and a fault touch calm, and a proof may end it.
LEMMA SpendKeepsCalm ==
  ASSUME ReadTip \/ ReadLightTip \/ Frontier \/ OwnBlock \/ Advance \/ FetchOutput
         \/ CheckAnchor \/ Prove
  PROVE  calm' = calm \/ calm' = (calm /\ ExpiryTaken)
  BY Zenon DEF ReadTip, ReadLightTip, Frontier, OwnBlock, Advance, FetchOutput, CheckAnchor,
               Prove

LEMMA CalmStep ==
  ASSUME NoCommitmentTwice, IInv, FreshInv, CalmInv, [Next]_vars
  PROVE  CalmInv'
<1> SUFFICES ASSUME calm' PROVE Agreeing'
  BY DEF CalmInv
<1>1. CASE LightMoves
  <2>1. PICK b \in Block \ {light} :
          light' = b /\ calm' = (calm /\ light \in Chain[b] /\ OneChain({b, node, wallet}))
    BY <1>1, Zenon DEF LightMoves
  <2>2. calm /\ light \in Chain[b] /\ OneChain({b, node, wallet})
    BY <2>1, Zenon
  <2>3. Agreeing
    BY <2>2, Zenon DEF CalmInv
  <2>4. UNCHANGED <<wallet, call>> /\ node' = node /\ node \in Block
    BY <1>1 DEF LightMoves, IInv, TypeOK
  <2>5. node \in Chain[node'] /\ light' \in Block /\ light \in Chain[light'] /\ node' \in Block
    BY <2>1, <2>2, <2>4, OwnChain
  <2>6. OneChain({wallet, light', node'})
    <3>1. {wallet, light', node'} = {b, node, wallet}
      BY <2>1, <2>4
    <3> QED BY <2>2, <3>1
  <2> QED BY <2>3, <2>4, <2>5, <2>6, MovesAgree
<1>2. CASE NodeMoves
  <2>1. PICK b \in Block :
          node' = b /\ calm' = (calm /\ node \in Chain[b] /\ OneChain({b, light, wallet}))
    BY <1>2, Zenon DEF NodeMoves
  <2>2. calm /\ node \in Chain[b] /\ OneChain({b, light, wallet})
    BY <2>1, Zenon
  <2>3. Agreeing
    BY <2>2, Zenon DEF CalmInv
  <2>4. UNCHANGED <<wallet, call>> /\ light' = light /\ light \in Block
    BY <1>2 DEF NodeMoves, IInv, TypeOK
  <2>5. light \in Chain[light'] /\ light' \in Block /\ node \in Chain[node'] /\ node' \in Block
    BY <2>1, <2>2, <2>4, OwnChain
  <2>6. OneChain({wallet, light', node'})
    <3>1. {wallet, light', node'} = {b, light, wallet}
      BY <2>1, <2>4
    <3> QED BY <2>2, <3>1
  <2> QED BY <2>3, <2>4, <2>5, <2>6, MovesAgree
<1>3. CASE RequestFails
  BY <1>3, Zenon DEF RequestFails
<1>4. CASE Start
  BY <1>4, StartAgrees
<1>5. CASE ReadTip \/ ReadLightTip \/ Frontier \/ OwnBlock \/ Advance \/ FetchOutput
           \/ CheckAnchor \/ Prove
  <2>1. Agreeing
    BY <1>5, SpendKeepsCalm, Zenon DEF CalmInv
  <2> QED BY <1>5, <2>1, ReadTipAgrees, ReadLightTipAgrees, FrontierAgrees, OwnBlockAgrees,
             AdvanceAgrees, FetchOutputAgrees, CheckAnchorAgrees, ProveAgrees
<1>6. CASE UNCHANGED vars
  <2>1. calm /\ UNCHANGED <<wallet, call>> /\ light' = light /\ node' = node
    BY <1>6, Zenon DEF vars, servers
  <2>2. Agreeing
    BY <2>1, Zenon DEF CalmInv
  <2>3. light \in Block /\ node \in Block /\ OneChain({wallet, light', node'})
    BY <2>1, <2>2 DEF IInv, TypeOK, Agreeing, CalmServers
  <2> QED BY <2>1, <2>2, <2>3, OwnChain, MovesAgree
<1> QED BY <1>1, <1>2, <1>3, <1>4, <1>5, <1>6 DEF Next, Spend

\* On chains that commit to nothing twice, servers that merely lag behind or
\* run ahead of each other never make plan_spend or prove_spend fail.
THEOREM SkewNeverRefuses ==
  ASSUME NoCommitmentTwice PROVE Spec => []SkewIsHarmless
<1>1. Init => FreshInv /\ CalmInv
  <2>1. Init => FreshInv
    BY DEF Init, FreshInv
  <2>2. Init => CalmInv
    BY Zenon DEF Init, CalmInv
  <2> QED BY <2>1, <2>2
<1>2. IInv /\ FreshInv /\ CalmInv /\ [Next]_vars => (FreshInv /\ CalmInv)'
  BY FreshStep, CalmStep
<1>3. CalmInv => SkewIsHarmless
  BY Zenon DEF CalmInv, Agreeing, SkewIsHarmless
<1> QED BY <1>1, <1>2, <1>3, Inductive, PTL DEF Spec
=============================================================================
