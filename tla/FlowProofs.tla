----------------------------- MODULE FlowProofs -----------------------------
(***************************************************************************)
(* What holds of the flows.  Of a registration, for every expiry window,   *)
(* chain length and number of attempts, reorgs, losses and restarts: its   *)
(* salt is held, a reported reorg is real, and doomed bytes are not handed *)
(* out.  Of driving an operation, for every operation, node and driver: it *)
(* writes nothing, a handle yields one plan, and answers are never revised.*)
(* Of what a wallet reads of its money, for every chain, addresses asked   *)
(* about and faults: its books are right, absence is only what was said,   *)
(* and what is offered a builder can be spent.  Of a shielded spend, for   *)
(* any notes, request, memo and count of outputs: it pays as asked.        *)
(***************************************************************************)
EXTENDS Registration, Drive, Accounts, ShieldedMoney, Sums, SequenceTheorems, TLAPS

(***************************************************************************)
(* Blocks are numbered as they are made, so a number names one height of   *)
(* the chain it is on, and no later block gets it again.                   *)
(***************************************************************************)
Numbered ==
  /\ Tip > 0
  /\ \A h \in 1..Tip : chain[h] \leq made
  /\ \A h, k \in 1..Tip : chain[h] = chain[k] => h = k
  /\ \A t \in Tx : mined[t] \leq Tip

\* The anchored block, where it is on the chain, is at the anchored height.
AnchorHolds(p) ==
  p # Nothing /\ p.anchor # Nothing =>
    /\ p.anchor[2] \leq made
    /\ \A h \in 1..Tip : chain[h] = p.anchor[2] => h = p.anchor[1]

\* What is held, in memory and on disk, is the attempt that is running.
AttemptIsHeld ==
  /\ pc # "idle" => mem # Nothing
  /\ mem # Nothing => mem.attempt = attempt
  /\ disk # Nothing => mem # Nothing /\ disk.attempt = attempt
  /\ mem = Nothing => attempt = 0 \/ verdict = "expired"

\* Between the height read and the broadcast the commitment was relayable at
\* the height that was read.
Relayable ==
  /\ pc = "anchor" => height > 0 /\ height + SOON < expiry[mem.attempt]
  /\ pc = "send" => mem.anchor # Nothing /\ mem.anchor[1] + SOON < expiry[mem.attempt]

\* Nothing that says "reorged" is anchored anew.
Told == pc \in {"anchor", "send"} => verdict # "reorged"

IInv ==
  /\ TypeOK /\ Numbered /\ AnchorHolds(mem) /\ AnchorHolds(disk)
  /\ AttemptIsHeld /\ Relayable /\ Told /\ NoFalseReorg

-----------------------------------------------------------------------------
(***************************************************************************)
(* The chain                                                               *)
(***************************************************************************)

\* A new block has a number of its own, and moves none that are there.
LEMMA MineChain ==
  ASSUME TypeOK, Numbered, Mine
  PROVE  /\ chain' \in Seq(Nat) /\ Len(chain') = Tip + 1
         /\ \A h \in 1..Tip : chain'[h] = chain[h]
         /\ chain'[Tip + 1] = made + 1 /\ made' = made + 1
         /\ pool' \subseteq Tx
         /\ mined' \in [Tx -> Nat]
         /\ \A t \in Tx : mined'[t] \leq Tip + 1
<1>1. chain' = Append(chain, made + 1) /\ made' = made + 1 /\ chain \in Seq(Nat) /\ made \in Nat
  BY DEF Mine, TypeOK
<1>2. PICK S \in SUBSET {t \in pool : Minable(t, Tip + 1)} :
        /\ mined' = [t \in Tx |-> IF t \in S THEN Tip + 1 ELSE mined[t]]
        /\ pool' = {t \in pool \ S : t[1] = "commitment" => expiry[t[2]] > Tip + 1}
  BY DEF Mine
<1>3. pool' \subseteq Tx
  BY <1>2 DEF TypeOK
<1>4. Tip \in Nat
  BY <1>1 DEF Tip
<1>5. mined' \in [Tx -> Nat] /\ \A t \in Tx : mined'[t] \leq Tip + 1
  BY <1>2, <1>4 DEF TypeOK, Numbered
<1> QED BY <1>1, <1>3, <1>5 DEF Tip

\* Disconnecting leaves a shorter chain of the same blocks.
LEMMA DisconnectChain ==
  ASSUME TypeOK, Numbered, Disconnect
  PROVE  /\ chain' \in Seq(Nat) /\ Len(chain') > 0 /\ Len(chain') \leq Tip
         /\ \A h \in 1..Len(chain') : chain'[h] = chain[h]
         /\ pool' \subseteq Tx
         /\ mined' \in [Tx -> Nat]
         /\ \A t \in Tx : mined'[t] \leq Len(chain')
<1> DEFINE Above(k) == {t \in Tx : mined[t] > k}
<1>1. PICK keep \in 1..(Tip - 1) :
        /\ chain' = SubSeq(chain, 1, keep)
        /\ mined' = [t \in Tx |-> IF t \in Above(keep) THEN 0 ELSE mined[t]]
        /\ \E S \in SUBSET Above(keep) :
             pool' = pool \cup {t \in S : \/ t[1] = "commitment"
                                          \/ mined'[Commit(t[2])] > 0}
  BY DEF Disconnect
<1>2. chain \in Seq(Nat) /\ Tip \in Nat /\ Tip = Len(chain)
  BY DEF TypeOK, Tip
<1>3. chain' \in Seq(Nat) /\ Len(chain') = keep /\ \A h \in 1..keep : chain'[h] = chain[h]
  BY <1>1, <1>2
<1>4. pool' \subseteq Tx
  BY <1>1 DEF TypeOK
<1>5. mined' \in [Tx -> Nat] /\ \A t \in Tx : mined'[t] \leq keep
  BY <1>1, <1>2 DEF TypeOK
<1>6. keep > 0 /\ keep \leq Tip
  BY <1>1, <1>2
<1> HIDE DEF Above
<1> QED BY <1>3, <1>4, <1>5, <1>6

-----------------------------------------------------------------------------
(***************************************************************************)
(* The steps of the node                                                   *)
(***************************************************************************)
LEMMA MineStep ==
  ASSUME IInv, Mine
  PROVE  IInv'
<1> USE DEF IInv
<1>1. UNCHANGED <<budget, pending, pc, locals, verdict>>
  BY DEF Mine
<1>2. TypeOK'
  BY <1>1, MineChain, SMTT(30) DEF TypeOK, PendingType, budget, pending, locals
<1>3. Tip' = Tip + 1 /\ Tip \in Nat /\ made \in Nat /\ \A h \in 1..Tip : chain[h] \in Nat
  BY MineChain DEF Tip, TypeOK
<1>4. Numbered'
  <2>1. \A h \in 1..Tip : chain'[h] = chain[h] /\ chain'[h] \leq made /\ chain'[h] \in Nat
    BY <1>3, MineChain DEF Numbered
  <2>2. chain'[Tip + 1] = made + 1 /\ made' = made + 1
    BY MineChain
  <2>3. \A h \in 1..Tip' : h \in 1..Tip \/ h = Tip + 1
    BY <1>3
  <2>4. \A h \in 1..Tip' : chain'[h] \leq made'
    BY <2>1, <2>2, <2>3, <1>3
  <2>5. \A h, k \in 1..Tip' : chain'[h] = chain'[k] => h = k
    <3> SUFFICES ASSUME NEW h \in 1..Tip', NEW k \in 1..Tip', chain'[h] = chain'[k]
                 PROVE  h = k
      OBVIOUS
    <3>1. CASE h \in 1..Tip /\ k \in 1..Tip
      BY <3>1, <2>1 DEF Numbered
    <3>2. CASE h = Tip + 1 \/ k = Tip + 1
      BY <3>2, <2>1, <2>2, <2>3, <1>3
    <3> QED BY <3>1, <3>2, <2>3
  <2>6. Tip' > 0 /\ \A t \in Tx : mined'[t] \leq Tip'
    BY <1>3, MineChain
  <2> QED BY <2>4, <2>5, <2>6 DEF Numbered
<1>5. ASSUME NEW p \in PendingType, AnchorHolds(p), p # Nothing, p.anchor # Nothing
      PROVE  /\ p.anchor[2] \leq made'
             /\ \A h \in 1..Tip' : chain'[h] = p.anchor[2] => h = p.anchor[1]
  <2>1. p.anchor[2] \in Nat
    BY <1>5 DEF PendingType
  <2> QED BY <1>3, <1>5, <2>1, MineChain DEF AnchorHolds
<1>6. AnchorHolds(mem)' /\ AnchorHolds(disk)'
  BY <1>1, <1>5 DEF AnchorHolds, TypeOK, pending
<1>7. AttemptIsHeld' /\ Relayable' /\ Told'
  BY <1>1 DEF AttemptIsHeld, Relayable, Told, pending, locals
<1>8. NoFalseReorg'
  <2> SUFFICES ASSUME verdict = "reorged", mem # Nothing, mem.anchor # Nothing,
                      NEW h \in 1..(Tip + 1)
               PROVE  chain'[h] # mem.anchor[2]
    BY <1>1, <1>3, MineChain DEF NoFalseReorg, pending, Tip
  <2>1. mem.anchor[2] \in Nat /\ mem.anchor[2] \leq made
    BY DEF AnchorHolds, TypeOK, PendingType
  <2>2. DOMAIN chain = 1..Tip
    BY DEF TypeOK, Tip
  <2> QED BY <2>1, <2>2, <1>3, MineChain, SMTT(30) DEF NoFalseReorg
<1> QED BY <1>2, <1>4, <1>6, <1>7, <1>8

LEMMA DisconnectStep ==
  ASSUME IInv, Disconnect
  PROVE  IInv'
<1> USE DEF IInv
<1>1. /\ UNCHANGED <<made, losses, restarts, pending, pc, locals, verdict>>
      /\ reorgs' = reorgs + 1
  BY DEF Disconnect
<1>2. TypeOK'
  BY <1>1, DisconnectChain, SMTT(30) DEF TypeOK, PendingType, pending, locals
<1>3. Tip' = Len(chain') /\ Tip \in Nat /\ Len(chain') \in Nat
  BY DisconnectChain DEF Tip, TypeOK
<1>4. Numbered'
  BY <1>1, <1>3, DisconnectChain DEF Numbered
<1>5. AnchorHolds(mem)' /\ AnchorHolds(disk)'
  BY <1>1, <1>3, DisconnectChain DEF AnchorHolds, pending
<1>6. AttemptIsHeld' /\ Relayable' /\ Told'
  BY <1>1 DEF AttemptIsHeld, Relayable, Told, pending, locals
<1>7. DOMAIN chain = 1..Tip /\ DOMAIN chain' = 1..Tip'
  BY <1>3, DisconnectChain DEF TypeOK, Tip
<1>8. NoFalseReorg'
  BY <1>1, <1>3, <1>7, DisconnectChain DEF NoFalseReorg, pending
<1> QED BY <1>2, <1>4, <1>5, <1>6, <1>8

\* A step that leaves the chain alone leaves what is known of it.
LEMMA SameChain ==
  ASSUME Numbered, UNCHANGED <<chain, made, mined>>
  PROVE  /\ Numbered'
         /\ AnchorHolds(mem) /\ mem' = mem => AnchorHolds(mem)'
         /\ AnchorHolds(disk) /\ disk' = disk => AnchorHolds(disk)'
         /\ NoFalseReorg /\ mem' = mem /\ verdict' \in {verdict, "waiting"} => NoFalseReorg'
         /\ verdict' # "reorged" => NoFalseReorg'
BY DEF Numbered, AnchorHolds, NoFalseReorg, Tip

LEMMA EvictStep ==
  ASSUME IInv, Evict
  PROVE  IInv'
<1> USE DEF IInv
<1>1. /\ UNCHANGED <<chain, made, mined, reorgs, restarts, pending, pc, locals, verdict>>
      /\ losses' = losses + 1 /\ pool' \subseteq pool
  BY DEF Evict
<1>2. TypeOK'
  BY <1>1 DEF TypeOK, pending, locals
<1>3. AttemptIsHeld' /\ Relayable' /\ Told'
  BY <1>1 DEF AttemptIsHeld, Relayable, Told, pending, locals
<1> QED BY <1>1, <1>2, <1>3, SameChain DEF pending

-----------------------------------------------------------------------------
(***************************************************************************)
(* The steps of the caller                                                 *)
(***************************************************************************)

\* Steps that end or continue a call and leave chain and Pending alone.
LEMMA CallStep ==
  ASSUME IInv, mem # Nothing,
         UNCHANGED <<chain, made, mined, reorgs, restarts, attempt, expiry, mem, disk>>,
         pool' \subseteq Tx, losses' \in Nat,
         height' \in Nat, conf' \in Nat \cup {Nothing},
         pc' \in {"idle", "poll", "compare", "locate"},
         verdict' \in {"sent", "refused", "uncertain", "waiting", "gone", "reorged",
                       "expired", "ready", "registered", verdict},
         verdict' = "reorged" => NoFalseReorg'
  PROVE  IInv'
<1> USE DEF IInv
<1>1. TypeOK'
  BY DEF TypeOK
<1>2. AttemptIsHeld' /\ Relayable' /\ Told'
  BY DEF AttemptIsHeld, Relayable, Told
<1>3. NoFalseReorg'
  BY SameChain
<1> QED BY <1>1, <1>2, <1>3, SameChain

\* Saying anything but "reorged" is such a step.
LEMMA SayStep ==
  ASSUME IInv, mem # Nothing, NEW v, Say(v),
         v \in {"sent", "refused", "uncertain", "waiting", "gone", "expired", "ready",
                "registered", verdict},
         UNCHANGED <<chain, made, mined, reorgs, restarts, attempt, expiry, mem, disk>>,
         pool' \subseteq Tx, losses' \in Nat
  PROVE  IInv'
<1>1. pc' = "idle" /\ verdict' = v /\ height' = 0 /\ conf' = Nothing
  BY DEF Say
<1>2. verdict' = "reorged" => NoFalseReorg'
  BY <1>1, SameChain DEF IInv
<1> QED BY <1>1, <1>2, CallStep

LEMMA PrepareStep ==
  ASSUME IInv, Prepare
  PROVE  IInv'
<1> USE DEF IInv
<1>1. /\ mem' = [attempt |-> attempt + 1, anchor |-> Nothing] /\ attempt' = attempt + 1
      /\ expiry' = [expiry EXCEPT ![attempt + 1] = Tip + EXPIRY_BLOCKS]
      /\ attempt < Attempts /\ mem = Nothing
      /\ pc' = "idle" /\ verdict' = "prepared" /\ height' = 0 /\ conf' = Nothing
      /\ UNCHANGED <<chain, made, pool, mined, reorgs, losses, restarts, disk>>
  BY DEF Prepare, Anchor, Say, node, budget
<1>2. attempt + 1 \in 1..Attempts /\ Tip + EXPIRY_BLOCKS \in Nat
  BY <1>1, RegistrationAssumption, SMTT(30) DEF TypeOK, Tip
<1>3. mem' \in PendingType /\ attempt' \in 0..Attempts /\ expiry' \in [1..Attempts -> Nat]
  <2>1. mem' \in PendingType
    BY <1>1, <1>2 DEF PendingType
  <2>2. attempt' \in 0..Attempts
    BY <1>1, <1>2, RegistrationAssumption
  <2>3. expiry' \in [1..Attempts -> Nat]
    BY <1>1, <1>2 DEF TypeOK
  <2> QED BY <2>1, <2>2, <2>3
<1>4. TypeOK'
  BY <1>1, <1>3 DEF TypeOK, PendingType
<1>5. disk = Nothing
  BY <1>1 DEF AttemptIsHeld
<1>6. AnchorHolds(mem)' /\ AnchorHolds(disk)'
  BY <1>1, <1>5 DEF AnchorHolds
<1>7. mem' # Nothing
  BY <1>1, <1>2, RegistrationAssumption
<1>8. AttemptIsHeld'
  BY <1>1, <1>5, <1>7 DEF AttemptIsHeld
<1>9. Relayable' /\ Told'
  BY <1>1 DEF Relayable, Told
<1> QED BY <1>1, <1>4, <1>6, <1>8, <1>9, SameChain

LEMMA SaveStep ==
  ASSUME IInv, Save
  PROVE  IInv'
<1> USE DEF IInv
<1>1. /\ disk' = mem /\ mem # Nothing
      /\ UNCHANGED <<node, budget, attempt, expiry, mem, pc, locals, verdict>>
  BY DEF Save
<1>2. TypeOK'
  BY <1>1 DEF TypeOK, PendingType, node, budget, locals
<1>3. AttemptIsHeld' /\ Relayable' /\ Told'
  BY <1>1 DEF AttemptIsHeld, Relayable, Told, locals
<1>4. AnchorHolds(disk)'
  BY <1>1 DEF AnchorHolds, node, Tip
<1> QED BY <1>1, <1>2, <1>3, <1>4, SameChain DEF node

LEMMA StartOverStep ==
  ASSUME IInv, StartOver
  PROVE  IInv'
<1> USE DEF IInv
<1>1. /\ disk' = Nothing /\ mem' = Nothing /\ verdict = "expired" /\ pc = "idle"
      /\ UNCHANGED <<node, budget, attempt, expiry, pc, locals, verdict>>
  BY DEF StartOver
<1>2. TypeOK'
  BY <1>1 DEF TypeOK, PendingType, node, budget, locals
<1>3. AttemptIsHeld' /\ Relayable' /\ Told'
  BY <1>1 DEF AttemptIsHeld, Relayable, Told
<1>4. AnchorHolds(mem)' /\ AnchorHolds(disk)'
  BY <1>1 DEF AnchorHolds
<1> QED BY <1>1, <1>2, <1>3, <1>4, SameChain DEF node

LEMMA RestartStep ==
  ASSUME IInv, Restart
  PROVE  IInv'
<1> USE DEF IInv
<1>1. /\ mem' = disk /\ disk # Nothing /\ restarts' = restarts + 1
      /\ pc' = "idle" /\ verdict' = "reloaded" /\ height' = 0 /\ conf' = Nothing
      /\ UNCHANGED <<chain, made, pool, mined, reorgs, losses, attempt, expiry, disk>>
  BY DEF Restart, Say, node
<1>2. TypeOK'
  BY <1>1 DEF TypeOK, PendingType
<1>3. AttemptIsHeld' /\ Relayable' /\ Told'
  BY <1>1 DEF AttemptIsHeld, Relayable, Told
<1>4. AnchorHolds(mem)' /\ AnchorHolds(disk)'
  BY <1>1 DEF AnchorHolds, Tip
<1> QED BY <1>1, <1>2, <1>3, <1>4, SameChain

LEMMA AnchorHeightStep ==
  ASSUME IInv, AnchorHeight
  PROVE  IInv'
<1> USE DEF IInv
<1>1. /\ pc = "idle" /\ mem # Nothing
      /\ verdict \in {"prepared", "uncertain", "gone", "refused"}
      /\ UNCHANGED <<node, budget, pending>>
  BY DEF AnchorHeight, Persisted
<1>2. UNCHANGED <<chain, made, pool, mined, reorgs, losses, restarts, attempt, expiry, mem, disk>>
  BY <1>1 DEF node, budget, pending
<1>3. CASE is_expired(mem.attempt, Tip)
  <2>1. Say("expired")
    BY <1>3 DEF AnchorHeight
  <2> QED BY <1>1, <1>2, <2>1, SayStep DEF TypeOK
<1>4. CASE ~is_expired(mem.attempt, Tip)
  <2>1. pc' = "anchor" /\ height' = Tip /\ UNCHANGED <<conf, verdict>>
    BY <1>4 DEF AnchorHeight
  <2>2. Tip \in Nat /\ mem.attempt \in 1..Attempts /\ expiry[mem.attempt] \in Nat
    BY <1>1 DEF TypeOK, PendingType, Tip
  <2>3. Tip + SOON < expiry[mem.attempt] /\ Tip > 0
    BY <1>4, <2>2, RegistrationAssumption DEF is_expired, Numbered
  <2>4. TypeOK'
    BY <1>2, <2>1, <2>2 DEF TypeOK
  <2>5. AttemptIsHeld' /\ Relayable' /\ Told'
    BY <1>1, <1>2, <2>1, <2>3 DEF AttemptIsHeld, Relayable, Told
  <2> QED BY <1>1, <1>2, <2>1, <2>4, <2>5, SameChain
<1> QED BY <1>3, <1>4

LEMMA AnchorHashStep ==
  ASSUME IInv, AnchorHash
  PROVE  IInv'
<1> USE DEF IInv
<1>1. /\ pc = "anchor" /\ mem # Nothing
      /\ UNCHANGED <<chain, made, pool, mined, reorgs, losses, restarts, attempt, expiry, disk>>
  BY DEF AnchorHash, AttemptIsHeld, node, budget
<1>2. CASE Tip < height
  <2>1. Say(verdict) /\ UNCHANGED mem
    BY <1>2 DEF AnchorHash
  <2> QED BY <1>1, <2>1, SayStep DEF TypeOK
<1>3. CASE ~(Tip < height)
  <2>1. /\ mem' = [mem EXCEPT !.anchor = <<height, chain[height]>>]
        /\ pc' = "send" /\ UNCHANGED <<height, conf, verdict>>
    BY <1>3 DEF AnchorHash, locals
  <2>2. mem \in [attempt : 1..Attempts, anchor : {Nothing} \cup (Nat \X Nat)]
    BY <1>1 DEF TypeOK, PendingType
  <2>3. height \in 1..Tip /\ chain[height] \in Nat
    BY <1>1, <1>3 DEF TypeOK, Relayable, Tip
  <2>4. /\ mem' \in PendingType /\ mem'.attempt = mem.attempt
        /\ mem'.anchor = <<height, chain[height]>>
    BY <2>1, <2>2, <2>3 DEF PendingType
  <2>5. TypeOK'
    BY <1>1, <2>1, <2>4 DEF TypeOK
  <2>6. AnchorHolds(mem)'
    BY <1>1, <2>3, <2>4 DEF AnchorHolds, Numbered, Tip
  <2>7. pc = "anchor" => height + SOON < expiry[mem.attempt]
    BY DEF Relayable
  <2>8. mem' # Nothing /\ mem'.anchor # Nothing /\ mem'.anchor[1] = height
    <3>1. mem' \in [attempt : Nat, anchor : {Nothing} \cup (Nat \X Nat)]
      BY <2>1, <2>2, <2>3
    <3>2. <<height, chain[height]>> \in Nat \X Nat
      BY <2>3
    <3> QED BY <2>4, <3>1, <3>2, RegistrationAssumption
  <2>9. AttemptIsHeld'
    BY <1>1, <2>1, <2>4, <2>8 DEF AttemptIsHeld
  <2>10. Relayable' /\ Told' /\ verdict' # "reorged"
    BY <1>1, <2>1, <2>4, <2>7, <2>8 DEF Relayable, Told
  <2> QED BY <1>1, <2>5, <2>6, <2>9, <2>10, SameChain
<1> QED BY <1>2, <1>3

\* What sending may answer.
LEMMA Sent ==
  ASSUME NEW t \in Tx, SendTold(t), pool \subseteq Tx, losses \in Nat
  PROVE  /\ pool' \subseteq Tx /\ losses' \in Nat
         /\ \E v \in {"sent", "refused", "uncertain"} : Say(v)
<1>1. Accept(t) => pool' \subseteq Tx
  BY DEF Accept
<1>2. CASE Relays(t) /\ Accept(t) /\ Say("sent") /\ UNCHANGED losses
  BY <1>1, <1>2
<1>3. CASE ~Relays(t) /\ Say("refused") /\ UNCHANGED <<pool, losses>>
  BY <1>3
<1>4. CASE /\ losses < MaxLosses /\ losses' = losses + 1
           /\ Say("uncertain")
           /\ IF Relays(t) THEN Accept(t) \/ UNCHANGED pool ELSE UNCHANGED pool
  BY <1>1, <1>4
<1> QED BY <1>2, <1>3, <1>4 DEF SendTold

LEMMA SendCommitmentStep ==
  ASSUME IInv, SendCommitment
  PROVE  IInv'
<1> USE DEF IInv
<1>1. /\ mem # Nothing /\ SendTold(Commit(mem.attempt))
      /\ UNCHANGED <<chain, made, mined, reorgs, restarts, attempt, expiry, mem, disk>>
  BY DEF SendCommitment, AttemptIsHeld, pending
<1>2. Commit(mem.attempt) \in Tx
  BY <1>1 DEF TypeOK, PendingType, Tx
<1>3. /\ pool' \subseteq Tx /\ losses' \in Nat
      /\ \E v \in {"sent", "refused", "uncertain"} : Say(v)
  BY <1>1, <1>2, Sent DEF TypeOK
<1> QED BY <1>1, <1>3, SayStep

LEMMA PollConfirmationsStep ==
  ASSUME IInv, PollConfirmations
  PROVE  IInv'
<1> USE DEF IInv
<1> DEFINE t == Commit(mem.attempt)
<1>1. /\ mem # Nothing /\ pc' = "poll" /\ UNCHANGED <<node, budget, pending, height, verdict>>
      /\ conf' = IF mined[t] > 0 THEN Tip - mined[t] + 1 ELSE IF t \in pool THEN 0 ELSE Nothing
  BY DEF PollConfirmations
<1>2. t \in Tx
  BY <1>1 DEF TypeOK, PendingType, Tx
<1>3. mined[t] \in Nat /\ mined[t] \leq Tip /\ Tip \in Nat
  BY <1>2 DEF TypeOK, Numbered, Tip
<1> HIDE DEF t
<1>4. conf' \in Nat \cup {Nothing}
  BY <1>1, <1>3
<1>5. UNCHANGED <<chain, made, pool, mined, reorgs, losses, restarts, attempt, expiry, mem, disk>>
  BY <1>1 DEF node, budget, pending
<1>6. verdict' = "reorged" => NoFalseReorg'
  BY <1>1, <1>5, SameChain
<1> QED BY <1>1, <1>4, <1>5, <1>6, CallStep DEF TypeOK

\* What a poll does once nothing was found to have moved.
LEMMA SettleStep ==
  ASSUME IInv, mem # Nothing, Settle, UNCHANGED <<node, budget, pending>>
  PROVE  IInv'
<1> USE DEF IInv
<1>1. UNCHANGED <<chain, made, pool, mined, reorgs, losses, restarts, attempt, expiry, mem, disk>>
  BY DEF node, budget, pending
<1>2. CASE Say("waiting")
  BY <1>1, <1>2, SayStep DEF TypeOK
<1>3. CASE pc' = "locate" /\ UNCHANGED <<height, conf, verdict>>
  <2>1. verdict' = "reorged" => NoFalseReorg'
    BY <1>1, <1>3, SameChain
  <2> QED BY <1>1, <1>3, <2>1, CallStep DEF TypeOK
<1> QED BY <1>2, <1>3 DEF Settle, locals

\* A poll says "reorged" only of a block that is not on the chain.
LEMMA ReorgStep ==
  ASSUME IInv, mem # Nothing, Say("reorged"), UNCHANGED <<node, budget, pending>>,
         mem.anchor # Nothing =>
           \/ Tip < mem.anchor[1]
           \/ mem.anchor[1] \leq Tip /\ chain[mem.anchor[1]] # mem.anchor[2]
  PROVE  IInv'
<1> USE DEF IInv
<1>1. UNCHANGED <<chain, made, pool, mined, reorgs, losses, restarts, attempt, expiry, mem, disk>>
  BY DEF node, budget, pending
<1>2. pc' = "idle" /\ verdict' = "reorged" /\ height' = 0 /\ conf' = Nothing
  BY DEF Say
<1>3. DOMAIN chain = 1..Tip /\ Tip \in Nat
  BY DEF TypeOK, Tip
<1>4. mem.anchor # Nothing => \A h \in 1..Tip : chain[h] # mem.anchor[2]
  <2>1. mem.anchor # Nothing => mem.anchor[1] \in Nat
    BY DEF TypeOK, PendingType
  <2> QED BY <1>3, <2>1 DEF AnchorHolds
<1>5. NoFalseReorg'
  BY <1>1, <1>3, <1>4 DEF NoFalseReorg
<1> QED BY <1>1, <1>2, <1>5, CallStep DEF TypeOK

LEMMA PollTipStep ==
  ASSUME IInv, PollTip
  PROVE  IInv'
<1> USE DEF IInv
<1>1. pc = "poll" /\ mem # Nothing /\ UNCHANGED <<node, budget, pending>>
  BY DEF PollTip, AttemptIsHeld
<1>2. UNCHANGED <<chain, made, pool, mined, reorgs, losses, restarts, attempt, expiry, mem, disk>>
  BY <1>1 DEF node, budget, pending
<1>3. CASE Settle
  BY <1>1, <1>3, SettleStep
<1>4. CASE Say("expired") \/ Say("gone")
  BY <1>1, <1>2, <1>4, SayStep DEF TypeOK
<1>5. CASE mem.anchor # Nothing /\ Tip < mem.anchor[1] /\ Say("reorged")
  BY <1>1, <1>5, ReorgStep
<1>6. CASE pc' = "compare" /\ height' = Tip /\ UNCHANGED <<conf, verdict>>
  <2>1. verdict' = "reorged" => NoFalseReorg'
    BY <1>2, <1>6, SameChain
  <2>2. Tip \in Nat
    BY DEF TypeOK, Tip
  <2> QED BY <1>1, <1>2, <1>6, <2>1, <2>2, CallStep DEF TypeOK
<1> QED BY <1>3, <1>4, <1>5, <1>6 DEF PollTip

LEMMA PollHashStep ==
  ASSUME IInv, PollHash
  PROVE  IInv'
<1> USE DEF IInv
<1>1. pc = "compare" /\ mem # Nothing /\ UNCHANGED <<node, budget, pending>>
  BY DEF PollHash, AttemptIsHeld
<1>2. UNCHANGED <<chain, made, pool, mined, reorgs, losses, restarts, attempt, expiry, mem, disk>>
  BY <1>1 DEF node, budget, pending
<1>3. CASE Say(verdict)
  BY <1>1, <1>2, <1>3, SayStep DEF TypeOK
<1>4. CASE Settle
  BY <1>1, <1>4, SettleStep
<1>5. CASE ~(Tip < mem.anchor[1]) /\ chain[mem.anchor[1]] # mem.anchor[2] /\ Say("reorged")
  <2>1. mem.anchor # Nothing => mem.anchor[1] \leq Tip
    BY <1>1, <1>5 DEF TypeOK, Tip, PendingType
  <2> QED BY <1>1, <1>5, <2>1, ReorgStep
<1> QED BY <1>3, <1>4, <1>5 DEF PollHash

LEMMA LocateStep ==
  ASSUME IInv, Locate
  PROVE  IInv'
<1>1. /\ Say("ready") \/ Say("waiting")
      /\ UNCHANGED <<chain, made, pool, mined, reorgs, losses, restarts, attempt, expiry, mem, disk>>
  BY DEF IInv, Locate, AttemptIsHeld, node, budget, pending
<1>2. mem # Nothing
  BY DEF IInv, Locate, AttemptIsHeld
<1> QED BY <1>1, <1>2, SayStep DEF IInv, TypeOK

LEMMA CompleteStep ==
  ASSUME IInv, Complete
  PROVE  IInv'
<1> USE DEF IInv
<1> DEFINE t == Register(mem.attempt)
<1>1. /\ mem # Nothing
      /\ UNCHANGED <<chain, made, mined, reorgs, restarts, attempt, expiry, mem, disk>>
  BY DEF Complete, pending
<1>2. t \in Tx
  BY <1>1 DEF TypeOK, PendingType, Tx
<1>3. Accept(t) => pool' \subseteq Tx
  BY <1>2 DEF Accept, TypeOK
<1>4. \/ Accept(t) /\ Say("registered") /\ UNCHANGED losses
      \/ Say("waiting") /\ UNCHANGED <<pool, losses>>
      \/ losses' = losses + 1 /\ Say("waiting") /\ (Accept(t) \/ UNCHANGED pool)
  BY DEF Complete
<1> HIDE DEF t
<1>5. pool' \subseteq Tx /\ losses' \in Nat
  BY <1>3, <1>4 DEF TypeOK
<1> QED BY <1>1, <1>4, <1>5, SayStep

LEMMA ReadFailsStep ==
  ASSUME IInv, ReadFails
  PROVE  IInv'
<1>1. /\ mem # Nothing /\ Say(verdict) /\ losses' = losses + 1
      /\ UNCHANGED <<chain, made, pool, mined, reorgs, restarts, attempt, expiry, mem, disk>>
  BY DEF IInv, ReadFails, AttemptIsHeld, node, pending
<1> QED BY <1>1, SayStep DEF IInv, TypeOK

-----------------------------------------------------------------------------
(***************************************************************************)
(* The invariant, and what follows from it                                 *)
(***************************************************************************)
LEMMA InitIInv == Init => IInv
<1> SUFFICES ASSUME Init PROVE IInv
  OBVIOUS
<1>1. chain = <<1>> /\ Tip = 1 /\ made = 1 /\ \A t \in Tx : mined[t] = 0
  BY DEF Init, Tip
<1>2. TypeOK
  BY <1>1, RegistrationAssumption DEF Init, TypeOK, PendingType
<1>3. Numbered
  BY <1>1 DEF Numbered
<1> QED BY <1>2, <1>3 DEF Init, IInv, AnchorHolds, AttemptIsHeld, Relayable, Told, NoFalseReorg

LEMMA StutterStep ==
  ASSUME IInv, UNCHANGED vars
  PROVE  IInv'
<1> USE DEF IInv, vars, node, budget, pending, locals
<1>1. TypeOK' /\ AttemptIsHeld' /\ Relayable' /\ Told'
  BY DEF TypeOK, PendingType, AttemptIsHeld, Relayable, Told
<1> QED BY <1>1, SameChain

LEMMA Inductive == IInv /\ [Next]_vars => IInv'
<1> SUFFICES ASSUME IInv, [Next]_vars PROVE IInv'
  OBVIOUS
<1>1. CASE Mine \/ Disconnect \/ Evict
  BY <1>1, MineStep, DisconnectStep, EvictStep
<1>2. CASE Prepare \/ Save \/ StartOver \/ Restart
  BY <1>2, PrepareStep, SaveStep, StartOverStep, RestartStep
<1>3. CASE AnchorHeight \/ AnchorHash \/ SendCommitment
  BY <1>3, AnchorHeightStep, AnchorHashStep, SendCommitmentStep
<1>4. CASE PollConfirmations \/ PollTip \/ PollHash \/ Locate
  BY <1>4, PollConfirmationsStep, PollTipStep, PollHashStep, LocateStep
<1>5. CASE Complete \/ ReadFails
  BY <1>5, CompleteStep, ReadFailsStep
<1>6. CASE UNCHANGED vars
  BY <1>6, StutterStep
<1> QED BY <1>1, <1>2, <1>3, <1>4, <1>5, <1>6 DEF Next, Caller

\* Every variable of every reachable state has its type, whatever the node
\* and the caller do.
THEOREM TypeCorrect == Spec => []TypeOK
<1>1. IInv => TypeOK
  BY DEF IInv
<1> QED BY InitIInv, Inductive, <1>1, PTL DEF Spec

\* A poll that says a commitment was reorganised away is right: the pair of
\* height and hash that `anchor` recorded by two separate reads never
\* mistakes a growing chain for a replaced one.
THEOREM ReorgsAreReal == Spec => []NoFalseReorg
<1>1. IInv => NoFalseReorg
  BY DEF IInv
<1> QED BY InitIInv, Inductive, <1>1, PTL DEF Spec

\* No call destroys the salt of a commitment that may be on the network.
THEOREM SaltIsKept == Spec => []SaltIsNeverLost
<1>1. IInv => SaltIsNeverLost
  BY DEF IInv, SaltIsNeverLost, AttemptIsHeld, TypeOK
<1> QED BY InitIInv, Inductive, <1>1, PTL DEF Spec

\* `anchor` hands out no commitment a node would already refuse as expiring.
THEOREM NothingDoomedIsSent == Spec => NeverSendsDoomedBytes
<1> DEFINE Doomed == pc = "send" /\ pc' = "idle" /\ verdict' = "refused" => Tip > mem.anchor[1]
<1>1. ASSUME IInv, [Next]_vars PROVE Doomed
  <2> SUFFICES ASSUME pc = "send", pc' = "idle", verdict' = "refused"
               PROVE  Tip > mem.anchor[1]
    OBVIOUS
  <2> USE <1>1 DEF IInv
  <2>1. ~Relays(Commit(mem.attempt))
    <3>1. SendCommitment \/ Restart
      BY DEF Next, Caller, vars, Mine, Disconnect, Evict, Prepare, Save, StartOver,
             AnchorHeight, AnchorHash, PollConfirmations, PollTip, PollHash, Locate,
             Complete, ReadFails
    <3>2. ~Restart
      BY DEF Restart, Say
    <3>3. SendTold(Commit(mem.attempt))
      BY <3>1, <3>2 DEF SendCommitment
    <3> QED BY <3>3 DEF SendTold, Say
  <2>2. Tip + SOON \geq expiry[mem.attempt]
    <3>1. Commit(mem.attempt)[1] = "commitment" /\ Commit(mem.attempt)[2] = mem.attempt
      BY DEF Commit
    <3>2. Tip \in Nat /\ expiry[mem.attempt] \in Nat
      BY DEF TypeOK, Tip, AttemptIsHeld, PendingType
    <3> QED BY <2>1, <3>1, <3>2, RegistrationAssumption DEF Relays
  <2>3. mem.anchor[1] + SOON < expiry[mem.attempt] /\ mem.anchor[1] \in Nat
    BY DEF Relayable, TypeOK, AttemptIsHeld, PendingType
  <2>4. Tip \in Nat /\ SOON \in Nat /\ expiry[mem.attempt] \in Nat
    BY RegistrationAssumption, SMTT(30) DEF TypeOK, Tip, AttemptIsHeld, PendingType
  <2> QED BY <2>2, <2>3, <2>4
<1> QED BY InitIInv, Inductive, <1>1, PTL DEF Spec, NeverSendsDoomedBytes

-----------------------------------------------------------------------------
(***************************************************************************)
(* What the misses have to do with the driver's work: only reads are       *)
(* recorded, only what was recorded is fetched, and only what is unknown   *)
(* is on its way.  A handle that produced a plan is marked.                *)
(***************************************************************************)
ReadsOnly ==
  /\ sent = 0
  /\ wanted \cap Writes = {}

PlanIsMarked ==
  /\ plans \in Nat
  /\ plans > 0 => finished = TRUE
  /\ plans \leq 1

AskedOnce ==
  /\ wanted \cap Known = {}
  /\ \A r \in replies : r.question \notin Known /\ r.question \notin wanted
  /\ \A r, s \in replies : r.question = s.question => r = s

DriveInv == ReadsOnly /\ PlanIsMarked /\ AskedOnce

\* The invariant holds at the start and is kept by every step.
LEMMA DriveInductive ==
  /\ DriveInit => DriveInv
  /\ DriveInv /\ [DriveNext]_driveVars => DriveInv'
<1>1. DriveInit => DriveInv
  BY DEF DriveInit, DriveInv, ReadsOnly, PlanIsMarked, AskedOnce, Known
<1>2. ASSUME DriveInv, [DriveNext]_driveVars PROVE DriveInv'
  <2> USE <1>2 DEF DriveInv
  <2>1. CASE AdvanceAsks
    <3>1. Misses \cap Writes = {} /\ Misses \cap Known = {}
      BY DEF Misses
    <3>2. wanted' = Misses /\ replies = {} /\ UNCHANGED <<sent, answers, finished, replies, plans>>
      BY <2>1 DEF AdvanceAsks, Round, MayAdvance, world
    <3> QED BY <3>1, <3>2 DEF ReadsOnly, PlanIsMarked, AskedOnce, Known
  <2>2. CASE AdvanceReady
    <3>1. plans = 0
      BY <2>2 DEF AdvanceReady, Round, PlanIsMarked
    <3>2. finished' = TRUE /\ plans' = 1 /\ UNCHANGED <<sent, answers, wanted, replies>>
      BY <2>2, <3>1 DEF AdvanceReady, world, driver
    <3> QED BY <3>2 DEF ReadsOnly, PlanIsMarked, AskedOnce, Known
  <2>3. CASE AdvanceFails
    <3>1. UNCHANGED <<sent, answers, finished, wanted, replies, plans>>
      BY <2>3 DEF AdvanceFails, world, driver
    <3> QED BY <3>1 DEF ReadsOnly, PlanIsMarked, AskedOnce, Known
  <2>4. CASE AdvanceSpent \/ AdvanceCapped
    <3>1. UNCHANGED <<sent, answers, finished, wanted, replies, plans>>
      BY <2>4 DEF AdvanceSpent, AdvanceCapped, world, handle, driver
    <3> QED BY <3>1 DEF ReadsOnly, PlanIsMarked, AskedOnce, Known
  <2>5. CASE NodeMoves
    <3>1. UNCHANGED <<sent, answers, finished, wanted, replies, plans>>
      BY <2>5 DEF NodeMoves, handle, driver
    <3> QED BY <3>1 DEF ReadsOnly, PlanIsMarked, AskedOnce, Known
  <2>6. CASE Fetch
    <3>1. PICK q \in wanted :
            /\ wanted' = wanted \ {q}
            /\ replies' = replies \cup {[question |-> q, reply |-> ReplyTo(q, moment)]}
            /\ sent' = IF q \in Writes THEN sent + 1 ELSE sent
      BY <2>6 DEF Fetch
    <3>2. UNCHANGED <<answers, finished, plans>>
      BY <2>6 DEF Fetch, handle
    <3>3. q \notin Writes
      BY <3>1 DEF ReadsOnly
    <3>4. ReadsOnly' /\ PlanIsMarked'
      BY <3>1, <3>2, <3>3 DEF ReadsOnly, PlanIsMarked
    <3>5. AskedOnce'
      BY <3>1, <3>2 DEF AskedOnce, Known
    <3> QED BY <3>4, <3>5
  <2>7. CASE Record
    <3>1. PICK r \in replies : answers' = Extended(r.question, r.reply) /\ replies' = replies \ {r}
      BY <2>7 DEF Record
    <3>2. UNCHANGED <<sent, wanted, finished, plans>>
      BY <2>7 DEF Record, world
    <3>3. Known' = Known \cup {r.question}
      BY <3>1 DEF Extended, Known
    <3>4. AskedOnce'
      BY <3>1, <3>2, <3>3 DEF AskedOnce
    <3> QED BY <3>2, <3>4 DEF ReadsOnly, PlanIsMarked
  <2>8. CASE Lose
    <3>1. replies' \subseteq replies /\ UNCHANGED <<sent, answers, finished, wanted, plans>>
      BY <2>8 DEF Lose, handle
    <3> QED BY <3>1 DEF ReadsOnly, PlanIsMarked, AskedOnce, Known
  <2>9. CASE UNCHANGED driveVars
    BY <2>9 DEF driveVars, world, handle, driver, ReadsOnly, PlanIsMarked, AskedOnce, Known
  <2> QED BY <1>2, <2>1, <2>2, <2>3, <2>4, <2>5, <2>6, <2>7, <2>8, <2>9 DEF DriveNext, Advance
<1> QED BY <1>1, <1>2

(***************************************************************************)
(* Whatever an operation asks for, driving it sends no write to the node:  *)
(* Cassette::post refuses one before it is recorded as something to fetch. *)
(***************************************************************************)
THEOREM NeverWrites == DriveSpec => []DrivingNeverWrites
<1>1. DriveInv => DrivingNeverWrites
  BY DEF DriveInv, ReadsOnly, DrivingNeverWrites
<1> QED BY DriveInductive, <1>1, PTL DEF DriveSpec

(***************************************************************************)
(* An Answers handle never produces a second plan, because advance marks   *)
(* it finished in the round that is ready.                                 *)
(***************************************************************************)
THEOREM OnePlan == DriveSpec => []OnePlanPerHandle
<1>1. DriveInv => OnePlanPerHandle
  BY DEF DriveInv, PlanIsMarked, OnePlanPerHandle
<1> QED BY DriveInductive, <1>1, PTL DEF DriveSpec

(***************************************************************************)
(* No round, failed or not, unlearns or revises an answer, so every round  *)
(* plans against what the rounds before it read.                           *)
(***************************************************************************)
THEOREM NothingUnlearned == DriveSpec => AnswersOnlyGrow
<1>1. ASSUME DriveInv, [DriveNext]_driveVars
      PROVE  [\A q \in Known : q \in DOMAIN answers' /\ answers'[q] = answers[q]]_driveVars
  <2>1. CASE Record
    <3>1. PICK r \in replies : answers' = Extended(r.question, r.reply)
      BY <2>1 DEF Record
    <3>2. r.question \notin Known
      BY <1>1 DEF DriveInv, AskedOnce
    <3> QED BY <3>1, <3>2 DEF Extended, Known
  <2>2. CASE UNCHANGED answers
    BY <2>2 DEF Known
  <2>3. Record \/ UNCHANGED answers
    BY <1>1 DEF DriveNext, Advance, AdvanceSpent, AdvanceCapped, AdvanceAsks, AdvanceReady,
       AdvanceFails, NodeMoves, Fetch, Lose, handle, driveVars
  <2> QED BY <2>1, <2>2, <2>3
<1> QED BY DriveInductive, <1>1, PTL DEF DriveSpec, AnswersOnlyGrow

-----------------------------------------------------------------------------
(***************************************************************************)
(* What a wallet knows of its money: lists of rows                         *)
(***************************************************************************)
FirstOf(s) == CHOOSE x \in s : TRUE

IsListing(f, S) ==
  /\ f \in [SUBSET S -> Seq(S)]
  /\ f[{}] = <<>>
  /\ \A s \in SUBSET S : s # {} => f[s] = Append(f[s \ {FirstOf(s)}], FirstOf(s))

LEMMA ListingsAgree ==
  ASSUME NEW D, NEW E, NEW f, NEW g, IsListing(f, D), IsListing(g, E),
         NEW u, u \subseteq D, u \subseteq E, IsFiniteSet(u)
  PROVE  f[u] = g[u]
<1> DEFINE C == {s \in SUBSET u : f[s] # g[s]}
<1>1. SUFFICES ASSUME C # {} PROVE FALSE
  OBVIOUS
<1>2. C \subseteq SUBSET u
  OBVIOUS
<1>3. PICK s \in C : IsFiniteSet(s) /\ \A t \in C : \A x \in s : t # s \ {x}
  <2> HIDE DEF C
  <2> QED BY <1>1, <1>2, SmallestSubset, SMTT(60)
<1>4. s # {}
  BY DEF IsListing
<1>5. FirstOf(s) \in s
  BY <1>4 DEF FirstOf
<1>6. f[s \ {FirstOf(s)}] = g[s \ {FirstOf(s)}]
  <2>1. s \ {FirstOf(s)} \in SUBSET u
    OBVIOUS
  <2>2. s \ {FirstOf(s)} \notin C
    BY <1>3, <1>5
  <2> QED BY <2>1, <2>2
<1>7. s \in SUBSET D /\ s \in SUBSET E
  OBVIOUS
<1> QED BY <1>4, <1>6, <1>7 DEF IsListing

LEMMA ListingExists ==
  ASSUME NEW S, IsFiniteSet(S)
  PROVE  \E f : IsListing(f, S)
<1> DEFINE C == {s \in SUBSET S : ~ \E f : IsListing(f, s)}
<1>1. SUFFICES ASSUME C # {} PROVE FALSE
  OBVIOUS
<1>2. PICK s \in C : IsFiniteSet(s) /\ \A t \in C : \A x \in s : t # s \ {x}
  <2>1. C \subseteq SUBSET S
    OBVIOUS
  <2> HIDE DEF C
  <2> QED BY <1>1, <2>1, SmallestSubset, SMTT(60)
<1>3. CASE s = {}
  <2> DEFINE f == [t \in SUBSET {} |-> <<>>]
  <2>1. IsListing(f, {})
    BY DEF IsListing
  <2> QED BY <1>3, <2>1
<1>4. CASE s # {}
  <2> DEFINE g(x) == CHOOSE f : IsListing(f, s \ {x})
             last == FirstOf(s)
             other(t) == CHOOSE x \in s : x \notin t
             h == [t \in SUBSET s |-> IF t = s THEN Append(g(last)[s \ {last}], last) ELSE g(other(t))[t]]
  <2>1. ASSUME NEW x \in s PROVE IsListing(g(x), s \ {x})
    <3>1. s \ {x} \in SUBSET S
      OBVIOUS
    <3>2. s \ {x} \notin C
      BY <1>2
    <3>3. \E f : IsListing(f, s \ {x})
      BY <3>1, <3>2
    <3> QED BY <3>3
  <2>2. last \in s
    BY <1>4 DEF FirstOf
  <2>3. ASSUME NEW t \in SUBSET s, t # s PROVE other(t) \in s /\ other(t) \notin t
    <3>1. \E x \in s : x \notin t
      BY <2>3
    <3> QED BY <3>1
  <2>4. ASSUME NEW t \in SUBSET s, NEW x \in s, x \notin t PROVE h[t] = g(x)[t]
    <3>1. t # s /\ other(t) \in s /\ other(t) \notin t
      BY <2>3, <2>4
    <3>2. IsFiniteSet(t)
      BY <1>2, FS_Subset
    <3>3. IsListing(g(x), s \ {x}) /\ IsListing(g(other(t)), s \ {other(t)})
      BY <2>1, <3>1
    <3>4. t \subseteq s \ {x} /\ t \subseteq s \ {other(t)}
      BY <2>4, <3>1
    <3>5. h[t] = g(other(t))[t]
      BY <3>1
    <3> HIDE DEF g, other, h
    <3> QED BY <3>2, <3>3, <3>4, <3>5, ListingsAgree
  <2>5. h \in [SUBSET s -> Seq(s)]
    <3>1. ASSUME NEW t \in SUBSET s, NEW x \in s, x \notin t PROVE g(x)[t] \in Seq(s)
      <4>1. g(x) \in [SUBSET (s \ {x}) -> Seq(s \ {x})]
        BY <2>1 DEF IsListing
      <4>2. t \in SUBSET (s \ {x})
        BY <3>1
      <4>3. Seq(s \ {x}) \subseteq Seq(s)
        OBVIOUS
      <4> HIDE DEF g
      <4> QED BY <4>1, <4>2, <4>3
    <3>2. Append(g(last)[s \ {last}], last) \in Seq(s)
      <4>1. g(last)[s \ {last}] \in Seq(s)
        <5> HIDE DEF g, last
        <5> QED BY <2>2, <3>1
      <4> HIDE DEF g, last
      <4> QED BY <2>2, <4>1, AppendProperties
    <3> HIDE DEF g, last, other
    <3> QED BY <2>3, <3>1, <3>2
  <2>6. h[{}] = <<>>
    <3>1. h[{}] = g(last)[{}]
      <4> HIDE DEF g, last, h
      <4> QED BY <2>2, <2>4
    <3> HIDE DEF g, last, h
    <3> QED BY <2>1, <2>2, <3>1 DEF IsListing
  <2>7. ASSUME NEW t \in SUBSET s, t # {}
        PROVE  h[t] = Append(h[t \ {FirstOf(t)}], FirstOf(t))
    <3>1. FirstOf(t) \in t
      BY <2>7 DEF FirstOf
    <3>2. CASE t = s
      <4>1. h[t] = Append(g(last)[s \ {last}], last)
        BY <3>2
      <4>2. h[s \ {last}] = g(last)[s \ {last}]
        <5> HIDE DEF g, last, h
        <5> QED BY <2>2, <2>4
      <4> HIDE DEF g, h
      <4> QED BY <3>2, <4>1, <4>2
    <3>3. CASE t # s
      <4>1. other(t) \in s /\ other(t) \notin t
        BY <2>3, <3>3
      <4>2. h[t] = g(other(t))[t] /\ h[t \ {FirstOf(t)}] = g(other(t))[t \ {FirstOf(t)}]
        <5>1. other(t) \notin t \ {FirstOf(t)}
          BY <4>1
        <5> HIDE DEF g, other, h
        <5> QED BY <2>4, <4>1, <5>1
      <4>3. t \in SUBSET (s \ {other(t)})
        BY <4>1
      <4> HIDE DEF g, other, h
      <4> QED BY <2>1, <2>7, <4>1, <4>2, <4>3 DEF IsListing
    <3> QED BY <3>2, <3>3
  <2>8. IsListing(h, s)
    <3> HIDE DEF h
    <3> QED BY <2>5, <2>6, <2>7 DEF IsListing
  <2> QED BY <1>2, <2>8
<1> QED BY <1>3, <1>4

\* A set is listed whole, and each member once.
Enumerates(rows, S) ==
  /\ rows \in Seq(S)
  /\ \A x \in S : \E i \in 1..Len(rows) : rows[i] = x
  /\ \A i, j \in 1..Len(rows) : rows[i] = rows[j] => i = j

LEMMA ListedEnumerates ==
  ASSUME NEW S, IsFiniteSet(S)
  PROVE  Enumerates(Listed(S), S)
<1> DEFINE it == CHOOSE f : f = [s \in SUBSET S |->
                    IF s = {} THEN <<>> ELSE Append(f[s \ {FirstOf(s)}], FirstOf(s))]
<1>1. Listed(S) = it[S]
  BY DEF Listed, FoldSet, MapThenFoldSet, FirstOf
<1>2. PICK g : IsListing(g, S)
  BY ListingExists
<1>3. g = [s \in SUBSET S |-> IF s = {} THEN <<>> ELSE Append(g[s \ {FirstOf(s)}], FirstOf(s))]
  BY <1>2 DEF IsListing
<1>4. it = [s \in SUBSET S |-> IF s = {} THEN <<>> ELSE Append(it[s \ {FirstOf(s)}], FirstOf(s))]
  BY <1>3
<1> HIDE DEF it
<1> DEFINE C == {s \in SUBSET S : ~Enumerates(it[s], s)}
<1>5. SUFFICES ASSUME C # {} PROVE FALSE
  BY <1>1
<1>6. PICK s \in C : \A t \in C : \A x \in s : t # s \ {x}
  <2>1. C \subseteq SUBSET S
    OBVIOUS
  <2> HIDE DEF C
  <2> QED BY <1>5, <2>1, SmallestSubset, SMTT(60)
<1>7. CASE s = {}
  <2>1. it[s] = <<>>
    BY <1>4, <1>7
  <2>2. Enumerates(<<>>, {})
    BY DEF Enumerates
  <2> QED BY <1>7, <2>1, <2>2
<1>8. CASE s # {}
  <2> DEFINE x == FirstOf(s)
             rest == s \ {x}
             u == it[rest]
  <2>1. x \in s
    BY <1>8 DEF FirstOf
  <2>2. Enumerates(u, rest)
    <3>1. rest \in SUBSET S /\ rest \notin C
      BY <1>6, <2>1
    <3> QED BY <3>1
  <2>3. it[s] = Append(u, x)
    BY <1>4, <1>8
  <2>4. /\ Append(u, x) \in Seq(s) /\ Len(Append(u, x)) = Len(u) + 1 /\ Len(u) \in Nat
        /\ \A i \in 1..Len(u) : Append(u, x)[i] = u[i] /\ u[i] \in rest
        /\ Append(u, x)[Len(u) + 1] = x
    <3>1. u \in Seq(s) /\ u \in Seq(rest)
      BY <2>2 DEF Enumerates
    <3> HIDE DEF u, x
    <3> QED BY <2>1, <3>1, AppendProperties, LenProperties, ElementOfSeq
  <2>5. Enumerates(Append(u, x), s)
    <3> DEFINE v == Append(u, x)
               n == Len(u)
    <3>1. ASSUME NEW y \in s PROVE \E i \in 1..Len(v) : v[i] = y
      <4>1. CASE y = x
        BY <2>4, <4>1
      <4>2. CASE y # x
        <5>1. PICK i \in 1..n : u[i] = y
          BY <2>2, <4>2 DEF Enumerates
        <5> HIDE DEF u, x
        <5> QED BY <2>4, <5>1
      <4> QED BY <4>1, <4>2
    <3>2. ASSUME NEW i \in 1..Len(v), NEW j \in 1..Len(v), v[i] = v[j] PROVE i = j
      <4>1. \A k \in 1..Len(v) : k \in 1..n \/ k = n + 1
        <5> HIDE DEF u, x
        <5> QED BY <2>4
      <4>2. \A k \in 1..n : v[k] # x
        BY <2>4
      <4>3. CASE i \in 1..n /\ j \in 1..n
        BY <2>2, <2>4, <3>2, <4>3 DEF Enumerates
      <4> HIDE DEF u, x
      <4> QED BY <2>4, <3>2, <4>1, <4>2, <4>3
    <3> HIDE DEF u, x
    <3> QED BY <2>4, <3>1, <3>2 DEF Enumerates
  <2> QED BY <2>3, <2>5
<1> QED BY <1>7, <1>8

-----------------------------------------------------------------------------
(***************************************************************************)
(* The chain of a wallet                                                   *)
(***************************************************************************)
AnyOutput == UNION {ToSet(outputs) : outputs \in Outputs}

IsOutput(o) ==
  /\ o.satoshis \in Nat /\ o.names \in [Tokens \cup {Native} -> Nat]
  /\ o.kind \notin Carriers \cup {"opaque"} => \A t \in Tokens : o.names[t] = 0

BlockSet == [outputs : Outputs \cup {<<>>}, spends : SUBSET (Nat \X Nat), registers : BOOLEAN]

\* An output is spent in a later block than its own, and in one only.
ChainInv ==
  /\ asking \in Asked
  /\ blocks \in Seq(BlockSet)
  /\ \A b \in 1..Len(blocks) : blocks[b].spends \subseteq OutpointsTo(b - 1)
  /\ \A b, c \in 1..Len(blocks) : b # c => blocks[b].spends \cap blocks[c].spends = {}

LEMMA ImageIsFinite ==
  ASSUME NEW S, IsFiniteSet(S), NEW f, DOMAIN f = S
  PROVE  IsFiniteSet({f[x] : x \in S})
<1> DEFINE T == {f[x] : x \in S}
           g == [x \in S |-> f[x]]
<1>1. g \in Surjection(S, T)
  BY DEF Surjection
<1> HIDE DEF g, T
<1>2. IsFiniteSet(T)
  BY <1>1, FS_Surjection
<1> QED BY <1>2 DEF T

LEMMA OutputsAre ==
  ASSUME NEW outputs \in Outputs \cup {<<>>}
  PROVE  /\ Len(outputs) \in Nat /\ DOMAIN outputs = 1..Len(outputs)
         /\ \A o \in DOMAIN outputs : IsOutput(outputs[o])
<1>1. CASE outputs = <<>>
  BY <1>1
<1>2. CASE outputs \in Outputs
  <2>1. outputs \in Seq(ToSet(outputs))
    BY <1>2, AccountsAssumption
  <2>2. Len(outputs) \in Nat /\ DOMAIN outputs = 1..Len(outputs)
    BY <2>1, LenProperties
  <2>3. ASSUME NEW o \in DOMAIN outputs PROVE IsOutput(outputs[o])
    <3>1. outputs[o] \in ToSet(outputs)
      BY DEF ToSet
    <3> QED BY <1>2, <3>1, AccountsAssumption DEF IsOutput
  <2> QED BY <2>2, <2>3
<1> QED BY <1>1, <1>2

LEMMA BlocksAre ==
  ASSUME ChainInv
  PROVE  /\ Len(blocks) \in Nat
         /\ \A b \in 1..Len(blocks) :
              /\ blocks[b] \in BlockSet
              /\ Len(blocks[b].outputs) \in Nat
              /\ DOMAIN blocks[b].outputs = 1..Len(blocks[b].outputs)
              /\ \A o \in DOMAIN blocks[b].outputs : IsOutput(blocks[b].outputs[o])
<1>1. Len(blocks) \in Nat /\ \A b \in 1..Len(blocks) : blocks[b] \in BlockSet
  BY LenProperties, ElementOfSeq DEF ChainInv
<1>2. ASSUME NEW b \in 1..Len(blocks) PROVE blocks[b].outputs \in Outputs \cup {<<>>}
  BY <1>1 DEF BlockSet
<1> QED BY <1>1, <1>2, OutputsAre

LEMMA PointsAre ==
  ASSUME ChainInv, NEW h \in 0..Len(blocks)
  PROVE  /\ IsFiniteSet(OutpointsTo(h))
         /\ \A p \in OutpointsTo(h) :
              /\ p = <<p[1], p[2]>> /\ p[1] \in 1..h /\ p[2] \in DOMAIN blocks[p[1]].outputs
              /\ IsOutput(OutputAt(p))
         /\ \A b \in 1..h : \A o \in DOMAIN blocks[b].outputs : <<b, o>> \in OutpointsTo(h)
<1> DEFINE of == [b \in 1..h |-> {<<b, o>> : o \in DOMAIN blocks[b].outputs}]
<1>0. Len(blocks) \in Nat /\ h \in Nat /\ \A b \in 1..h : b \in 1..Len(blocks)
  BY BlocksAre
<1>1. ASSUME NEW b \in 1..h PROVE IsFiniteSet(of[b])
  <2> DEFINE D == DOMAIN blocks[b].outputs
             f == [o \in D |-> <<b, o>>]
  <2>1. IsFiniteSet(D)
    <3> DEFINE n == Len(blocks[b].outputs)
    <3>1. D = 1..n /\ n \in Nat
      BY <1>0, BlocksAre
    <3> HIDE DEF D, n
    <3>2. IsFiniteSet(1..n)
      BY <3>1, FS_Interval
    <3> QED BY <3>1, <3>2
  <2>2. of[b] = {f[o] : o \in D}
    OBVIOUS
  <2>3. DOMAIN f = D
    OBVIOUS
  <2> HIDE DEF f, D, of
  <2> QED BY <2>1, <2>2, <2>3, ImageIsFinite
<1>2. IsFiniteSet({of[b] : b \in 1..h})
  <2>1. IsFiniteSet(1..h)
    BY <1>0, FS_Interval
  <2>2. DOMAIN of = 1..h
    OBVIOUS
  <2> HIDE DEF of
  <2> QED BY <2>1, <2>2, ImageIsFinite
<1>3. OutpointsTo(h) = UNION {of[b] : b \in 1..h}
  BY DEF OutpointsTo
<1>4. IsFiniteSet(OutpointsTo(h))
  <2> HIDE DEF of
  <2> QED BY <1>1, <1>2, <1>3, FS_UNION
<1>5. ASSUME NEW p \in OutpointsTo(h)
      PROVE  /\ p = <<p[1], p[2]>> /\ p[1] \in 1..h /\ p[2] \in DOMAIN blocks[p[1]].outputs
             /\ IsOutput(OutputAt(p))
  <2>1. PICK b \in 1..h : p \in {<<b, o>> : o \in DOMAIN blocks[b].outputs}
    BY DEF OutpointsTo
  <2>2. p = <<p[1], p[2]>> /\ p[1] = b /\ p[2] \in DOMAIN blocks[b].outputs
    BY <2>1
  <2> QED BY <1>0, <2>2, BlocksAre DEF OutputAt
<1>6. \A b \in 1..h : \A o \in DOMAIN blocks[b].outputs : <<b, o>> \in OutpointsTo(h)
  BY DEF OutpointsTo
<1> QED BY <1>4, <1>5, <1>6

\* A spent output is one of an earlier block, and is spent once.
LEMMA SpendsAre ==
  ASSUME ChainInv, NEW h \in 0..Len(blocks), NEW b \in 1..h
  PROVE  /\ blocks[b].spends \subseteq OutpointsTo(h)
         /\ \A p \in blocks[b].spends : p[1] < b /\ \A c \in 1..h : p \in blocks[c].spends => c = b
<1>0. Len(blocks) \in Nat /\ h \in Nat /\ \A c \in 1..h : c \in 1..Len(blocks)
  BY BlocksAre
<1>1. blocks[b].spends \subseteq OutpointsTo(b - 1) /\ b - 1 \in 0..Len(blocks)
  BY <1>0 DEF ChainInv
<1>2. ASSUME NEW p \in blocks[b].spends PROVE p \in OutpointsTo(h) /\ p[1] < b
  <2>1. p \in OutpointsTo(b - 1)
    BY <1>1
  <2>2. p = <<p[1], p[2]>> /\ p[1] \in 1..(b - 1) /\ p[2] \in DOMAIN blocks[p[1]].outputs
    BY <1>1, <2>1, PointsAre
  <2>3. p[1] \in 1..h /\ p[1] < b
    BY <1>0, <2>2
  <2> QED BY <2>2, <2>3, PointsAre
<1>3. ASSUME NEW p \in blocks[b].spends, NEW c \in 1..h, p \in blocks[c].spends PROVE c = b
  BY <1>0, <1>3 DEF ChainInv
<1> QED BY <1>2, <1>3

-----------------------------------------------------------------------------
(***************************************************************************)
(* The rows of the index                                                   *)
(***************************************************************************)
HappenedAt(p, sp, b) == IF sp THEN p \in blocks[b].spends ELSE b = p[1]

IsRow(r, h, sp) ==
  \E p \in OutpointsTo(h), b \in 1..h : \E a \in OutputAt(p).owners \cap asking :
    r = Row(p, b, a, sp) /\ HappenedAt(p, sp, b)

LEMMA RowsAre ==
  ASSUME ChainInv, NEW h \in 0..Len(blocks), NEW sp \in BOOLEAN
  PROVE  /\ IsFiniteSet(IndexRows(h, asking, sp))
         /\ \A r : r \in IndexRows(h, asking, sp) <=> IsRow(r, h, sp)
<1> DEFINE P == {p \in OutpointsTo(h) : sp => SpentAt(p, h)}
           in(p) == IF sp THEN CHOOSE b \in 1..h : p \in blocks[b].spends ELSE p[1]
           of == [p \in P |-> {Row(p, in(p), a, sp) : a \in OutputAt(p).owners \cap asking}]
<1>0. Len(blocks) \in Nat /\ h \in Nat
  BY BlocksAre
<1>1. IsFiniteSet(P)
  BY PointsAre, FS_Subset
<1>2. IndexRows(h, asking, sp) = UNION {of[p] : p \in P}
  <2>1. IndexRows(h, asking, sp) = UNION {{Row(p, in(p), a, sp) : a \in OutputAt(p).owners \cap asking} : p \in P}
    BY DEF IndexRows
  <2>2. \A p \in P : of[p] = {Row(p, in(p), a, sp) : a \in OutputAt(p).owners \cap asking}
    OBVIOUS
  <2> HIDE DEF of, in, P
  <2>3. {of[p] : p \in P} = {{Row(p, in(p), a, sp) : a \in OutputAt(p).owners \cap asking} : p \in P}
    BY <2>2
  <2> QED BY <2>1, <2>3
<1>3. ASSUME NEW p \in P PROVE in(p) \in 1..h /\ HappenedAt(p, sp, in(p))
  <2>1. CASE sp
    <3>1. \E b \in 1..h : p \in blocks[b].spends
      BY <2>1 DEF SpentAt
    <3> QED BY <2>1, <3>1 DEF HappenedAt
  <2>2. CASE ~sp
    BY <2>2, PointsAre DEF HappenedAt
  <2> QED BY <2>1, <2>2
<1>4. ASSUME NEW p \in P, NEW b \in 1..h, HappenedAt(p, sp, b) PROVE b = in(p)
  <2>1. CASE sp
    BY <1>3, <1>4, <2>1, SpendsAre DEF HappenedAt
  <2>2. CASE ~sp
    BY <1>4, <2>2 DEF HappenedAt
  <2> QED BY <2>1, <2>2
<1>5. IsFiniteSet(IndexRows(h, asking, sp))
  <2>1. ASSUME NEW p \in P PROVE IsFiniteSet(of[p])
    <3> DEFINE A == OutputAt(p).owners \cap asking
               f == [a \in A |-> Row(p, in(p), a, sp)]
    <3>1. IsFiniteSet(A)
      <4>1. IsFiniteSet(asking)
        BY AccountsAssumption DEF ChainInv
      <4> QED BY <4>1, FS_Subset
    <3>2. of[p] = {f[a] : a \in A} /\ DOMAIN f = A
      BY DEF Row
    <3> HIDE DEF f, A, of
    <3> QED BY <3>1, <3>2, ImageIsFinite
  <2>2. DOMAIN of = P
    OBVIOUS
  <2>3. IsFiniteSet({of[p] : p \in P})
    <3> HIDE DEF of, P
    <3> QED BY <1>1, <2>2, ImageIsFinite
  <2> HIDE DEF of, P
  <2> QED BY <1>2, <2>1, <2>3, FS_UNION
<1>6. ASSUME NEW r \in IndexRows(h, asking, sp) PROVE IsRow(r, h, sp)
  <2>1. PICK p \in P : r \in of[p]
    BY <1>2
  <2>2. PICK a \in OutputAt(p).owners \cap asking : r = Row(p, in(p), a, sp)
    BY <2>1
  <2>3. p \in OutpointsTo(h)
    OBVIOUS
  <2> HIDE DEF P, in
  <2> QED BY <1>3, <2>2, <2>3 DEF IsRow
<1>7. ASSUME NEW r, IsRow(r, h, sp) PROVE r \in IndexRows(h, asking, sp)
  <2>1. PICK p \in OutpointsTo(h), b \in 1..h :
          /\ HappenedAt(p, sp, b)
          /\ \E a \in OutputAt(p).owners \cap asking : r = Row(p, b, a, sp)
    BY <1>7 DEF IsRow
  <2>2. PICK a \in OutputAt(p).owners \cap asking : r = Row(p, b, a, sp)
    BY <2>1
  <2>3. p \in P
    BY <2>1 DEF HappenedAt, SpentAt
  <2>4. b = in(p)
    BY <1>4, <2>1, <2>3
  <2>5. r \in of[p]
    <3> HIDE DEF P, in
    <3> QED BY <2>2, <2>3, <2>4
  <2> QED BY <1>2, <2>3, <2>5
<1> QED BY <1>5, <1>6, <1>7

\* The whole of what a history is read from.
LEMMA DeltasAre ==
  ASSUME ChainInv, NEW h \in 0..Len(blocks)
  PROVE  /\ Len(DeltaRows(h)) \in Nat /\ DOMAIN DeltaRows(h) = 1..Len(DeltaRows(h))
         /\ \A i \in DOMAIN DeltaRows(h) : \E sp \in BOOLEAN : IsRow(DeltaRows(h)[i], h, sp)
         /\ \A sp \in BOOLEAN : \A r : IsRow(r, h, sp) => \E i \in DOMAIN DeltaRows(h) : DeltaRows(h)[i] = r
         /\ \A i, j \in DOMAIN DeltaRows(h) : DeltaRows(h)[i] = DeltaRows(h)[j] => i = j
<1> DEFINE S == IndexRows(h, asking, FALSE) \cup IndexRows(h, asking, TRUE)
           rows == DeltaRows(h)
<1>1. IsFiniteSet(S)
  BY RowsAre, FS_Union
<1>2. Enumerates(rows, S)
  BY <1>1, ListedEnumerates DEF DeltaRows
<1>3. Len(rows) \in Nat /\ DOMAIN rows = 1..Len(rows) /\ \A i \in 1..Len(rows) : rows[i] \in S
  <2>1. rows \in Seq(S)
    BY <1>2 DEF Enumerates
  <2> HIDE DEF rows, S
  <2> QED BY <2>1, LenProperties, ElementOfSeq
<1>4. \A r : r \in S <=> \E sp \in BOOLEAN : IsRow(r, h, sp)
  BY RowsAre
<1> HIDE DEF S, rows
<1>5. /\ Len(rows) \in Nat /\ DOMAIN rows = 1..Len(rows)
      /\ \A i \in DOMAIN rows : \E sp \in BOOLEAN : IsRow(rows[i], h, sp)
      /\ \A sp \in BOOLEAN : \A r : IsRow(r, h, sp) => \E i \in DOMAIN rows : rows[i] = r
      /\ \A i, j \in DOMAIN rows : rows[i] = rows[j] => i = j
  BY <1>2, <1>3, <1>4 DEF Enumerates
<1> QED BY <1>5 DEF rows

LEMMA UtxosAre ==
  ASSUME ChainInv, NEW h \in 0..Len(blocks)
  PROVE  /\ Len(UtxoRows(h)) \in Nat /\ DOMAIN UtxoRows(h) = 1..Len(UtxoRows(h))
         /\ \A i \in DOMAIN UtxoRows(h) :
              IsRow(UtxoRows(h)[i], h, FALSE) /\ ~SpentAt(UtxoRows(h)[i].outpoint, h)
         /\ \A r : IsRow(r, h, FALSE) /\ ~SpentAt(r.outpoint, h) =>
              \E i \in DOMAIN UtxoRows(h) : UtxoRows(h)[i] = r
         /\ \A i, j \in DOMAIN UtxoRows(h) : UtxoRows(h)[i] = UtxoRows(h)[j] => i = j
<1> DEFINE S == {r \in IndexRows(h, asking, FALSE) : ~SpentAt(r.outpoint, h)}
           rows == UtxoRows(h)
<1>1. IsFiniteSet(S)
  BY RowsAre, FS_Subset
<1>2. Enumerates(rows, S)
  BY <1>1, ListedEnumerates DEF UtxoRows
<1>3. Len(rows) \in Nat /\ DOMAIN rows = 1..Len(rows) /\ \A i \in 1..Len(rows) : rows[i] \in S
  <2>1. rows \in Seq(S)
    BY <1>2 DEF Enumerates
  <2> HIDE DEF rows, S
  <2> QED BY <2>1, LenProperties, ElementOfSeq
<1>4. \A r : r \in S <=> IsRow(r, h, FALSE) /\ ~SpentAt(r.outpoint, h)
  BY RowsAre
<1> HIDE DEF S, rows
<1>5. /\ Len(rows) \in Nat /\ DOMAIN rows = 1..Len(rows)
      /\ \A i \in DOMAIN rows : IsRow(rows[i], h, FALSE) /\ ~SpentAt(rows[i].outpoint, h)
      /\ \A r : IsRow(r, h, FALSE) /\ ~SpentAt(r.outpoint, h) => \E i \in DOMAIN rows : rows[i] = r
      /\ \A i, j \in DOMAIN rows : rows[i] = rows[j] => i = j
  BY <1>2, <1>3, <1>4 DEF Enumerates
<1> QED BY <1>5 DEF rows

-----------------------------------------------------------------------------
(***************************************************************************)
(* A history                                                               *)
(***************************************************************************)
Moved(b, sp) == IF sp THEN Owned(blocks[b].spends) ELSE Created(b)

Side(rows, b, sp) == {i \in Counted(rows) : rows[i].transaction = b /\ rows[i].spending = sp}

\* What a row of the index says of the output it is about.
LEMMA RowSays ==
  ASSUME ChainInv, NEW h \in 0..Len(blocks), NEW sp \in BOOLEAN, NEW r, IsRow(r, h, sp)
  PROVE  /\ r.outpoint \in OutpointsTo(h) /\ r.transaction \in 1..h /\ r.spending = sp
         /\ r.outpoint \in Moved(r.transaction, sp)
         /\ r.address \in asking /\ r.missing = {} /\ r.illegible = {}
         /\ r.movement = <<r.address, r.transaction, sp, r.outpoint>>
         /\ r = Row(r.outpoint, r.transaction, r.address, sp)
         /\ r.satoshis = (IF sp THEN -1 ELSE 1) * OutputAt(r.outpoint).satoshis
         /\ \A c \in Tokens \cup {Native} : r.currency_values[c] =
              (IF sp THEN -1 ELSE 1) *
              (IF c = Native THEN OutputAt(r.outpoint).satoshis ELSE OutputAt(r.outpoint).names[c])
<1>1. PICK p \in OutpointsTo(h), b \in 1..h :
        /\ HappenedAt(p, sp, b)
        /\ \E a \in OutputAt(p).owners \cap asking : r = Row(p, b, a, sp)
  BY DEF IsRow
<1>2. PICK a \in OutputAt(p).owners \cap asking : r = Row(p, b, a, sp)
  BY <1>1
<1>3. p \in Moved(b, sp)
  <2>1. CASE sp
    BY <1>1, <2>1 DEF Moved, Owned, HappenedAt
  <2>2. CASE ~sp
    <3>1. p = <<b, p[2]>> /\ p[2] \in DOMAIN blocks[b].outputs
      BY <1>1, <2>2, PointsAre DEF HappenedAt
    <3> QED BY <2>2, <3>1 DEF Moved, Owned, Created
  <2> QED BY <2>1, <2>2
<1>4. /\ r.outpoint = p /\ r.transaction = b /\ r.address = a /\ r.spending = sp
      /\ r.missing = {} /\ r.illegible = {} /\ r.movement = <<a, b, sp, p>>
      /\ r.satoshis = (IF sp THEN -1 ELSE 1) * OutputAt(p).satoshis
  BY <1>2 DEF Row
<1>5. \A c \in Tokens \cup {Native} : r.currency_values[c] =
        (IF sp THEN -1 ELSE 1) * (IF c = Native THEN OutputAt(p).satoshis ELSE OutputAt(p).names[c])
  BY <1>2 DEF Row
<1>6. a \in asking
  BY <1>2
<1> QED BY <1>2, <1>3, <1>4, <1>5, <1>6

LEMMA MovedIs ==
  ASSUME ChainInv, NEW h \in 0..Len(blocks), NEW b \in 1..h, NEW sp \in BOOLEAN
  PROVE  /\ IsFiniteSet(Moved(b, sp)) /\ Moved(b, sp) \subseteq OutpointsTo(h)
         /\ \A p \in Moved(b, sp) : OutputAt(p).owners \cap asking # {} /\ HappenedAt(p, sp, b)
<1>1. Moved(b, sp) \subseteq OutpointsTo(h)
  BY PointsAre, SpendsAre DEF Moved, Owned, Created
<1>2. \A p \in Moved(b, sp) : OutputAt(p).owners \cap asking # {} /\ HappenedAt(p, sp, b)
  BY DEF Moved, Owned, Created, HappenedAt
<1> QED BY <1>1, <1>2, PointsAre, FS_Subset

\* Each output of a side counts once, whatever the addresses it is listed under.
LEMMA EachCountsOnce ==
  ASSUME ChainInv, NEW h \in 0..Len(blocks), NEW b \in 1..h, NEW sp \in BOOLEAN
  PROVE  LET rows == DeltaRows(h)
             I    == Side(rows, b, sp)
         IN [i \in I |-> rows[i].outpoint] \in Bijection(I, Moved(b, sp))
<1> DEFINE rows == DeltaRows(h)
           I == Side(rows, b, sp)
           f == [i \in I |-> rows[i].outpoint]
           M == Moved(b, sp)
<1>1. /\ Len(rows) \in Nat /\ DOMAIN rows = 1..Len(rows)
      /\ \A i \in DOMAIN rows : \E s \in BOOLEAN : IsRow(rows[i], h, s)
      /\ \A r : IsRow(r, h, sp) => \E i \in DOMAIN rows : rows[i] = r
  BY DeltasAre
<1>2. ASSUME NEW i \in I PROVE i \in DOMAIN rows /\ rows[i].transaction = b /\ rows[i].spending = sp /\ f[i] \in M
  <2>1. i \in DOMAIN rows /\ rows[i].transaction = b /\ rows[i].spending = sp
    BY DEF Side, Counted
  <2>2. PICK s \in BOOLEAN : IsRow(rows[i], h, s)
    BY <1>1, <2>1
  <2> HIDE DEF rows
  <2> QED BY <2>1, <2>2, RowSays
<1>3. ASSUME NEW i \in I, NEW j \in I, f[i] = f[j] PROVE i = j
  <2>1. ASSUME NEW k \in I, NEW l \in I, k < l, f[k] = f[l] PROVE FALSE
    <3>1. k \in 1..l - 1
      BY <1>1, <1>2, <2>1
    <3>2. rows[k].transaction = rows[l].transaction /\ rows[k].spending = rows[l].spending
      BY <1>2
    <3>3. rows[k].outpoint = rows[l].outpoint
      BY <2>1
    <3>4. l \in Counted(rows)
      BY DEF Side
    <3> HIDE DEF rows
    <3> QED BY <3>1, <3>2, <3>3, <3>4 DEF Counted
  <2>2. i \in Nat /\ j \in Nat
    BY <1>1, <1>2
  <2>3. CASE i < j
    BY <1>3, <2>1, <2>3
  <2>4. CASE j < i
    BY <1>3, <2>1, <2>4
  <2> HIDE DEF I, f, rows
  <2> QED BY <2>2, <2>3, <2>4
<1>4. ASSUME NEW p \in M PROVE \E i \in I : f[i] = p
  <2>1. p \in OutpointsTo(h) /\ HappenedAt(p, sp, b)
    BY MovedIs
  <2>2. PICK a \in OutputAt(p).owners \cap asking : TRUE
    BY MovedIs
  <2>3. IsRow(Row(p, b, a, sp), h, sp)
    BY <2>1, <2>2 DEF IsRow
  <2>4. PICK k \in DOMAIN rows : rows[k] = Row(p, b, a, sp)
    BY <1>1, <2>3
  <2> DEFINE K == {i \in DOMAIN rows : rows[i].transaction = b /\ rows[i].spending = sp /\ rows[i].outpoint = p}
  <2>5. k \in K
    <3>1. /\ Row(p, b, a, sp).transaction = b /\ Row(p, b, a, sp).spending = sp
          /\ Row(p, b, a, sp).outpoint = p
      BY DEF Row
    <3> HIDE DEF rows
    <3> QED BY <2>4, <3>1
  <2>6. K \subseteq Nat
    BY <1>1
  <2>7. PICK i \in K : \A j \in K : i \leq j
    <3> HIDE DEF K
    <3> QED BY <2>5, <2>6, LeastNatural
  <2>8. i \in Counted(rows)
    <3>1. ASSUME NEW j \in 1..i - 1, rows[j].transaction = rows[i].transaction,
                 rows[j].spending = rows[i].spending, rows[j].outpoint = rows[i].outpoint
          PROVE  FALSE
      <4>1. j \in DOMAIN rows /\ j < i
        BY <1>1, <2>6
      <4>2. j \in K
        BY <3>1, <4>1
      <4> HIDE DEF rows, K
      <4> QED BY <1>1, <2>6, <2>7, <4>1, <4>2
    <3> HIDE DEF rows
    <3> QED BY <3>1 DEF Counted
  <2> QED BY <2>8 DEF Side
<1>5. f \in [I -> M]
  BY <1>2
<1>6. f \in Bijection(I, M)
  <2> HIDE DEF f, I, M
  <2> QED BY <1>3, <1>4, <1>5 DEF Bijection, Injection, Surjection, IsInjective
<1> QED BY <1>6

ValueAt(p, c) == IF c = Native THEN OutputAt(p).satoshis ELSE OutputAt(p).names[c]

LEMMA WorthIsTotal ==
  ASSUME ChainInv, NEW h \in 0..Len(blocks), NEW S, S \subseteq OutpointsTo(h),
         NEW c \in Tokens \cup {Native}
  PROVE  /\ IsFiniteSet(S) /\ [p \in S |-> ValueAt(p, c)] \in [S -> Nat]
         /\ Worth(S, c) = SumOver([p \in S |-> ValueAt(p, c)], S) /\ Worth(S, c) \in Nat
<1> DEFINE v == [p \in S |-> ValueAt(p, c)]
<1>1. IsFiniteSet(S)
  BY PointsAre, FS_Subset
<1>2. v \in [S -> Nat]
  BY PointsAre, AccountsAssumption DEF ValueAt, IsOutput
<1>3. Worth(S, c) = SumFunction(v)
  BY DEF Worth, ValueAt
<1>4. v \in [S -> Int]
  BY <1>2
<1>5. SumFunction(v) = SumOver(v, S) /\ SumOver(v, S) \in Nat
  <2> HIDE DEF v
  <2> QED BY <1>1, <1>2, <1>4, SumFunctionIsTotal, TotalOfNaturals
<1> QED BY <1>1, <1>2, <1>3, <1>5

LEMMA SideIsWorth ==
  ASSUME ChainInv, NEW h \in 0..Len(blocks), NEW b \in 1..h, NEW sp \in BOOLEAN,
         NEW c \in Tokens \cup {Native}
  PROVE  LET rows == DeltaRows(h)
             I    == Side(rows, b, sp)
             v    == [i \in I |-> rows[i].currency_values[c]]
         IN /\ IsFiniteSet(I) /\ v \in [I -> Int]
            /\ \A i \in I : rows[i].satoshis = rows[i].currency_values[Native]
            /\ SumOver(v, I) = (IF sp THEN -1 ELSE 1) * Worth(Moved(b, sp), c)
<1> DEFINE rows == DeltaRows(h)
           I == Side(rows, b, sp)
           v == [i \in I |-> rows[i].currency_values[c]]
           M == Moved(b, sp)
           worth == [p \in M |-> ValueAt(p, c)]
           debt == [p \in M |-> -worth[p]]
           f == [i \in I |-> rows[i].outpoint]
<1>1. Len(rows) \in Nat /\ I \subseteq 1..Len(rows)
  BY DeltasAre DEF Side, Counted
<1>2. IsFiniteSet(I)
  <2> DEFINE n == Len(rows)
  <2>1. n \in Nat /\ I \in SUBSET (1..n)
    BY <1>1
  <2> HIDE DEF I, n
  <2>2. IsFiniteSet(1..n)
    BY <2>1, FS_Interval
  <2> QED BY <2>1, <2>2, FS_Subset
<1>3. f \in Bijection(I, M)
  BY EachCountsOnce
<1>4. IsFiniteSet(M) /\ worth \in [M -> Nat]
      /\ Worth(M, c) = SumOver(worth, M) /\ Worth(M, c) \in Nat
  <2>1. M \subseteq OutpointsTo(h)
    BY MovedIs
  <2> QED BY <2>1, WorthIsTotal
<1>5. ASSUME NEW i \in I
      PROVE  /\ rows[i].outpoint \in M
             /\ \A d \in Tokens \cup {Native} :
                  rows[i].currency_values[d] = (IF sp THEN -1 ELSE 1) * ValueAt(rows[i].outpoint, d)
             /\ rows[i].satoshis = (IF sp THEN -1 ELSE 1) * ValueAt(rows[i].outpoint, Native)
  <2>1. i \in DOMAIN rows /\ rows[i].transaction = b /\ rows[i].spending = sp
    BY DEF Side, Counted
  <2>2. PICK s \in BOOLEAN : IsRow(rows[i], h, s)
    BY <2>1, DeltasAre
  <2> HIDE DEF rows
  <2>3. s = sp
    BY <2>1, <2>2, RowSays
  <2> QED BY <2>1, <2>2, <2>3, RowSays DEF ValueAt
<1>6. \A i \in I : rows[i].satoshis = rows[i].currency_values[Native]
  BY <1>5
<1>7. \A i \in I : f[i] \in M /\ v[i] = (IF sp THEN -1 ELSE 1) * worth[f[i]]
  BY <1>5
<1>8. debt \in [M -> Int] /\ worth \in [M -> Int]
  <2> HIDE DEF worth, M
  <2> QED BY <1>4
<1>9. v \in [I -> Int] /\ SumOver(v, I) = (IF sp THEN -1 ELSE 1) * Worth(M, c)
  <2>0. DOMAIN v = I /\ v = [i \in I |-> v[i]]
    OBVIOUS
  <2>1. CASE sp
    <3>1. \A i \in I : v[i] = debt[f[i]] /\ v[i] \in Int
      <4> HIDE DEF worth, v, f, I, M
      <4> QED BY <1>4, <1>7, <2>1
    <3>2. v \in [I -> Int]
      <4> HIDE DEF v, I
      <4> QED BY <2>0, <3>1
    <3>3. SumOver(v, I) = SumOver(debt, M)
      <4>1. \A i \in I : v[i] = debt[f[i]]
        BY <3>1
      <4>2. IsFiniteSet(M) /\ debt \in [M -> Int]
        BY <1>4, <1>8
      <4> HIDE DEF debt, worth, v, f, I, M
      <4> QED BY <1>2, <1>3, <3>2, <4>1, <4>2, TotalOfImage
    <3>4. SumOver(debt, M) = -SumOver(worth, M)
      <4> HIDE DEF worth, M
      <4> QED BY <1>4, <1>8, TotalOfNegated
    <3> HIDE DEF debt, worth, v, I, M
    <3> QED BY <1>4, <2>1, <3>2, <3>3, <3>4
  <2>2. CASE ~sp
    <3>1. \A i \in I : v[i] = worth[f[i]] /\ v[i] \in Int
      <4> HIDE DEF worth, v, f, I, M
      <4> QED BY <1>4, <1>7, <2>2
    <3>2. v \in [I -> Int]
      <4> HIDE DEF v, I
      <4> QED BY <2>0, <3>1
    <3>3. SumOver(v, I) = SumOver(worth, M)
      <4>1. \A i \in I : v[i] = worth[f[i]]
        BY <3>1
      <4>2. IsFiniteSet(M) /\ worth \in [M -> Int]
        BY <1>4, <1>8
      <4> HIDE DEF debt, worth, v, f, I, M
      <4> QED BY <1>2, <1>3, <3>2, <4>1, <4>2, TotalOfImage
    <3> HIDE DEF debt, worth, v, I, M
    <3> QED BY <1>4, <2>2, <3>2, <3>3
  <2> QED BY <2>1, <2>2
<1> QED BY <1>2, <1>6, <1>9

\* The rows of a transaction that count add up to what its block did.
LEMMA NetIsEffect ==
  ASSUME ChainInv, NEW h \in 0..Len(blocks), NEW b \in 1..h, NEW c \in Tokens \cup {Native}
  PROVE  LET rows == DeltaRows(h)
             of == {i \in Counted(rows) : rows[i].transaction = b}
         IN /\ SumFunction([i \in of |-> rows[i].currency_values[c]]) = Effect(b, c)
            /\ SumFunction([i \in of |-> rows[i].satoshis]) =
                 SumFunction([i \in of |-> rows[i].currency_values[Native]])
<1> DEFINE rows == DeltaRows(h)
           of == {i \in Counted(rows) : rows[i].transaction = b}
           In == Side(rows, b, FALSE)
           Out == Side(rows, b, TRUE)
           v == [i \in of |-> rows[i].currency_values[c]]
           vin == [i \in In |-> rows[i].currency_values[c]]
           vout == [i \in Out |-> rows[i].currency_values[c]]
<1>1. ASSUME NEW i \in of PROVE rows[i].spending \in BOOLEAN
  <2>1. i \in DOMAIN rows
    BY DEF Counted
  <2>2. PICK s \in BOOLEAN : IsRow(rows[i], h, s)
    BY <2>1, DeltasAre
  <2> HIDE DEF rows
  <2> QED BY <2>2, RowSays
<1>2. In \subseteq of /\ Out = of \ In /\ of = In \cup Out
  <2>1. In \subseteq of /\ of = In \cup Out
    BY <1>1 DEF Side
  <2>2. In \cap Out = {}
    BY DEF Side
  <2> HIDE DEF In, Out, of
  <2> QED BY <2>1, <2>2
<1>3. /\ IsFiniteSet(In) /\ vin \in [In -> Int]
      /\ SumOver(vin, In) = Worth(Created(b), c)
      /\ \A i \in In : rows[i].satoshis = rows[i].currency_values[Native]
  <2>1. /\ IsFiniteSet(In) /\ vin \in [In -> Int]
        /\ SumOver(vin, In) = 1 * Worth(Moved(b, FALSE), c)
        /\ \A i \in In : rows[i].satoshis = rows[i].currency_values[Native]
    BY SideIsWorth
  <2>2. Moved(b, FALSE) = Created(b) /\ Worth(Moved(b, FALSE), c) \in Nat
    BY MovedIs, WorthIsTotal DEF Moved
  <2> HIDE DEF vin, In, rows
  <2>3. \A n \in Nat : 1 * n = n
    OBVIOUS
  <2>4. SumOver(vin, In) = Worth(Created(b), c)
    BY <2>1, <2>2, <2>3, Zenon
  <2> QED BY <2>1, <2>4
<1>4. /\ IsFiniteSet(Out) /\ vout \in [Out -> Int]
      /\ SumOver(vout, Out) = -Worth(Owned(blocks[b].spends), c)
      /\ \A i \in Out : rows[i].satoshis = rows[i].currency_values[Native]
  <2>1. /\ IsFiniteSet(Out) /\ vout \in [Out -> Int]
        /\ SumOver(vout, Out) = (-1) * Worth(Moved(b, TRUE), c)
        /\ \A i \in Out : rows[i].satoshis = rows[i].currency_values[Native]
    BY SideIsWorth
  <2>2. Moved(b, TRUE) = Owned(blocks[b].spends) /\ Worth(Moved(b, TRUE), c) \in Nat
    BY MovedIs, WorthIsTotal DEF Moved
  <2> HIDE DEF vout, Out, rows
  <2>3. \A n \in Nat : (-1) * n = -n
    OBVIOUS
  <2>4. SumOver(vout, Out) = -Worth(Owned(blocks[b].spends), c)
    BY <2>1, <2>2, <2>3, Zenon
  <2> QED BY <2>1, <2>4
<1>5. IsFiniteSet(of)
  <2>1. IsFiniteSet(In) /\ IsFiniteSet(Out)
    BY <1>3, <1>4
  <2> HIDE DEF In, Out, of
  <2>2. IsFiniteSet(In \cup Out)
    BY <2>1, FS_Union
  <2> QED BY <1>2, <2>2
<1>6. v \in [of -> Int]
  <2>1. \A i \in of : v[i] \in Int
    <3>1. ASSUME NEW i \in In PROVE rows[i].currency_values[c] \in Int
      <4>1. vin[i] \in Int /\ vin[i] = rows[i].currency_values[c]
        <5>1. vin[i] = rows[i].currency_values[c]
          OBVIOUS
        <5> HIDE DEF vin, In
        <5> QED BY <1>3, <5>1
      <4> QED BY <4>1
    <3>2. ASSUME NEW i \in Out PROVE rows[i].currency_values[c] \in Int
      <4>1. vout[i] \in Int /\ vout[i] = rows[i].currency_values[c]
        <5>1. vout[i] = rows[i].currency_values[c]
          OBVIOUS
        <5> HIDE DEF vout, Out
        <5> QED BY <1>4, <5>1
      <4> QED BY <4>1
    <3> HIDE DEF In, Out
    <3> QED BY <1>2, <3>1, <3>2
  <2> QED BY <2>1
<1>7. SumOver(v, of) = SumOver(vin, In) + SumOver(vout, Out)
  <2>1. vin = [i \in In |-> v[i]]
    <3>1. \A i \in In : v[i] = rows[i].currency_values[c]
      BY <1>2
    <3> QED BY <3>1
  <2>2. vout = [i \in of \ In |-> v[i]]
    <3>1. \A i \in of \ In : v[i] = rows[i].currency_values[c]
      OBVIOUS
    <3>2. vout = [i \in of \ In |-> rows[i].currency_values[c]]
      BY <1>2
    <3> HIDE DEF vout, v, In
    <3> QED BY <3>1, <3>2
  <2>3. SumOver(v, of) = SumOver([i \in In |-> v[i]], In) + SumOver([i \in of \ In |-> v[i]], of \ In)
    <3>1. In \in SUBSET of
      BY <1>2
    <3> HIDE DEF v, of, In
    <3> QED BY <1>5, <1>6, <3>1, TotalOfParts
  <2> HIDE DEF v, vin, vout, of, In, Out
  <2> QED BY <1>2, <2>1, <2>2, <2>3
<1>8. SumFunction(v) = Effect(b, c)
  <2>1. SumFunction(v) = SumOver(v, of)
    <3> HIDE DEF v, of
    <3> QED BY <1>5, <1>6, SumFunctionIsTotal
  <2>2. Worth(Created(b), c) \in Nat /\ Worth(Owned(blocks[b].spends), c) \in Nat
    <3>1. Moved(b, FALSE) = Created(b) /\ Moved(b, TRUE) = Owned(blocks[b].spends)
      BY DEF Moved
    <3> QED BY <3>1, MovedIs, WorthIsTotal
  <2> HIDE DEF v, vin, vout, of, In, Out
  <2> QED BY <1>3, <1>4, <1>7, <2>1, <2>2 DEF Effect
<1>9. [i \in of |-> rows[i].satoshis] = [i \in of |-> rows[i].currency_values[Native]]
  <2>1. \A i \in of : rows[i].satoshis = rows[i].currency_values[Native]
    <3> HIDE DEF In, Out, of
    <3> QED BY <1>2, <1>3, <1>4
  <2> QED BY <2>1
<1> QED BY <1>8, <1>9

LEMMA HistoryIsFolded ==
  ASSUME ChainInv, NEW h \in 0..Len(blocks), NEW b \in 1..h
  PROVE  LET value  == fold_history(DeltaRows(h))
             net(c) == IF c \in DOMAIN value[b].net_currencies THEN value[b].net_currencies[c] ELSE 0
         IN IF b \in DOMAIN value
            THEN value[b].net_native = Effect(b, Native) /\ \A c \in Tokens : net(c) = Effect(b, c)
            ELSE \A c \in Tokens \cup {Native} : Effect(b, c) = 0
<1> DEFINE rows == DeltaRows(h)
           value == fold_history(rows)
           of(t) == {i \in Counted(rows) : rows[i].transaction = t}
           net(t, c) == SumFunction([i \in of(t) |-> rows[i].currency_values[c]])
<1>1. \A c \in Tokens \cup {Native} : net(b, c) = Effect(b, c)
  BY NetIsEffect
<1>2. SumFunction([i \in of(b) |-> rows[i].satoshis]) = Effect(b, Native)
  BY NetIsEffect
<1>3. DOMAIN value = {rows[i].transaction : i \in DOMAIN rows}
  BY DEF fold_history
<1>4. CASE b \in DOMAIN value
  <2>1. /\ value[b].net_native = SumFunction([i \in of(b) |-> rows[i].satoshis])
        /\ value[b].net_currencies = [c \in {c \in Tokens : net(b, c) # 0} |-> net(b, c)]
    BY <1>3, <1>4 DEF fold_history
  <2>2. \A c \in Tokens : net(b, c) = Effect(b, c)
    BY <1>1
  <2>3. value[b].net_native = Effect(b, Native)
    BY <1>2, <2>1
  <2> HIDE DEF net
  <2>4. \A c \in Tokens : (IF c \in DOMAIN value[b].net_currencies THEN value[b].net_currencies[c] ELSE 0) = net(b, c)
    <3> HIDE DEF value, rows
    <3> QED BY <2>1
  <2>5. \A c \in Tokens : (IF c \in DOMAIN value[b].net_currencies THEN value[b].net_currencies[c] ELSE 0) = Effect(b, c)
    BY <2>2, <2>4
  <2> HIDE DEF value, rows
  <2> QED BY <1>4, <2>3, <2>5 DEF value, rows
<1>5. CASE b \notin DOMAIN value
  <2>1. of(b) = {}
    BY <1>3, <1>5 DEF Counted
  <2>2. ASSUME NEW c \in Tokens \cup {Native} PROVE Effect(b, c) = 0
    <3> DEFINE v == [i \in {} |-> rows[i].currency_values[c]]
    <3>1. net(b, c) = SumFunction(v)
      BY <2>1
    <3>2. IsFiniteSet({}) /\ v \in [{} -> Int]
      BY FS_EmptySet
    <3>3. SumFunction(v) = 0
      <4> HIDE DEF v
      <4> QED BY <3>2, SumFunctionIsTotal, TotalOfNothing
    <3> HIDE DEF v, net
    <3> QED BY <1>1, <3>1, <3>3
  <2> QED BY <1>5, <2>2
<1> QED BY <1>4, <1>5

\* A list that is taken is the one the node has: none that repeats a row, is
\* about a stranger, or has a row that cannot be read, is.
LEMMA OnlyTheListIsTaken ==
  ASSUME ChainInv, NEW S, NEW list \in Seq(S),
         \A x \in S : {"address", "missing", "illegible"} \subseteq DOMAIN x,
         NEW shape, {"satoshis", "txid"} \subseteq shape.required, NEW id,
         NEW r \in Replies(list)
  PROVE  LET rows == Checked(Rows(result_of(r.reply), shape), asking, id) IN
         /\ rows.ok \in BOOLEAN
         /\ rows.ok => rows.value = list
         /\ r.cost \in {0, 1}
         /\ r.cost = 0 => r.reply = Result(list)
<1> DEFINE rows(reply) == Checked(Rows(result_of(reply), shape), asking, id)
           Fair(reply) == rows(reply).ok \in BOOLEAN /\ (rows(reply).ok => rows(reply).value = list)
<1>1. Fair(Result(list))
  BY DEF Checked, Rows, result_of, Result, Ok, Err
<1>2. ASSUME NEW reply \in {Unanswered, [kind |-> "null"], Failed(-28), Failed(MethodNotFound)}
      PROVE  Fair(reply)
  BY DEF Checked, Rows, result_of, Unanswered, Failed, Ok, Err, MethodNotFound
<1>3. ASSUME list # <<>>
      PROVE  /\ Fair(Result(Append(list, Head(list))))
             /\ Fair(Result(Append(list, [Head(list) EXCEPT !.address = Stranger])))
             /\ Fair(Result(<<[Head(list) EXCEPT !.missing = {"satoshis"}]>> \o Tail(list)))
             /\ Fair(Result(<<[Head(list) EXCEPT !.illegible = {"txid"}]>> \o Tail(list)))
  <2>1. Len(list) \in Nat \ {0} /\ Head(list) = list[1] /\ Head(list) \in S
    BY <1>3, HeadTailProperties, LenProperties, ElementOfSeq, EmptySeq
  <2>2. ASSUME NEW body, \E i, j \in DOMAIN body : i # j /\ body[i] = body[j]
        PROVE  Fair(Result(body))
    BY <2>2 DEF Checked, Rows, result_of, Result, Ok, Err, refuse_repeats
  <2>3. ASSUME NEW body, \E i \in DOMAIN body : body[i].address \notin asking
        PROVE  Fair(Result(body))
    BY <2>3 DEF Checked, Rows, result_of, Result, Ok, Err
  <2>4. ASSUME NEW body, \E i \in DOMAIN body : ~into_typed(body[i], shape)
        PROVE  Fair(Result(body))
    BY <2>4 DEF Checked, Rows, result_of, Result, Ok, Err
  <2>5. ASSUME NEW x PROVE /\ DOMAIN Append(list, x) = 1..(Len(list) + 1)
                           /\ Append(list, x)[1] = list[1] /\ Append(list, x)[Len(list) + 1] = x
    <3>1. list \in Seq(S \cup {x}) /\ x \in S \cup {x}
      OBVIOUS
    <3> QED BY <2>1, <3>1, AppendProperties, LenProperties
  <2>6. ASSUME NEW x PROVE 1 \in DOMAIN (<<x>> \o Tail(list)) /\ (<<x>> \o Tail(list))[1] = x
    <3>1. Tail(list) \in Seq(S \cup {x}) /\ <<x>> \in Seq(S \cup {x}) /\ Len(<<x>>) = 1 /\ <<x>>[1] = x
      <4>1. Tail(list) \in Seq(S)
        BY <1>3, HeadTailProperties
      <4> QED BY <4>1
    <3> QED BY <3>1, ConcatProperties, LenProperties
  <2>7. Fair(Result(Append(list, Head(list))))
    <3> DEFINE body == Append(list, Head(list))
    <3>1. 1 \in DOMAIN body /\ Len(list) + 1 \in DOMAIN body /\ 1 # Len(list) + 1
      BY <2>1, <2>5
    <3>2. body[1] = body[Len(list) + 1]
      BY <2>1, <2>5
    <3> HIDE DEF body, Fair
    <3>3. Fair(Result(body))
      BY <2>2, <3>1, <3>2
    <3> QED BY <3>3 DEF body
  <2>8. Fair(Result(Append(list, [Head(list) EXCEPT !.address = Stranger])))
    <3> DEFINE x == [Head(list) EXCEPT !.address = Stranger]
    <3>1. x.address = Stranger
      BY <2>1
    <3>2. Stranger \notin asking
      BY AccountsAssumption DEF ChainInv
    <3> HIDE DEF x, Fair
    <3>3. Len(list) + 1 \in DOMAIN Append(list, x)
      BY <2>1, <2>5
    <3>4. Append(list, x)[Len(list) + 1].address \notin asking
      BY <2>5, <3>1, <3>2
    <3>5. Fair(Result(Append(list, x)))
      BY <2>3, <3>3, <3>4
    <3> QED BY <3>5 DEF x
  <2>9. Fair(Result(<<[Head(list) EXCEPT !.missing = {"satoshis"}]>> \o Tail(list)))
    <3> DEFINE x == [Head(list) EXCEPT !.missing = {"satoshis"}]
    <3>1. ~into_typed(x, shape)
      BY <2>1 DEF into_typed
    <3> HIDE DEF x, Fair
    <3>2. Fair(Result(<<x>> \o Tail(list)))
      BY <2>4, <2>6, <3>1
    <3> QED BY <3>2 DEF x
  <2>10. Fair(Result(<<[Head(list) EXCEPT !.illegible = {"txid"}]>> \o Tail(list)))
    <3> DEFINE x == [Head(list) EXCEPT !.illegible = {"txid"}]
    <3>1. ~into_typed(x, shape)
      BY <2>1 DEF into_typed
    <3> HIDE DEF x, Fair
    <3>2. Fair(Result(<<x>> \o Tail(list)))
      BY <2>4, <2>6, <3>1
    <3> QED BY <3>2 DEF x
  <2> HIDE DEF Fair
  <2> QED BY <2>7, <2>8, <2>9, <2>10
<1>4. r.cost \in {0, 1} /\ (r.cost = 0 => r.reply = Result(list))
  BY DEF Replies
<1>5. Fair(r.reply)
  <2> HIDE DEF Fair
  <2> DEFINE Failures == {Unanswered, [kind |-> "null"], Failed(-28), Failed(MethodNotFound)}
             Spoilt == {Result(Append(list, Head(list))),
                        Result(Append(list, [Head(list) EXCEPT !.address = Stranger])),
                        Result(<<[Head(list) EXCEPT !.missing = {"satoshis"}]>> \o Tail(list)),
                        Result(<<[Head(list) EXCEPT !.illegible = {"txid"}]>> \o Tail(list))}
  <2>1. \/ r = [reply |-> Result(list), cost |-> 0]
        \/ \E q \in Failures \cup (IF list = <<>> THEN {} ELSE Spoilt) : r = [reply |-> q, cost |-> 1]
    BY DEF Replies
  <2>2. \A q \in Failures : Fair(q)
    BY <1>2
  <2>3. list # <<>> => \A q \in Spoilt : Fair(q)
    BY <1>3
  <2> HIDE DEF Failures, Spoilt
  <2>4. r.reply = Result(list) \/ r.reply \in Failures \/ (list # <<>> /\ r.reply \in Spoilt)
    BY <2>1
  <2> QED BY <1>1, <2>2, <2>3, <2>4
<1> QED BY <1>4, <1>5

-----------------------------------------------------------------------------
(***************************************************************************)
(* A balance                                                               *)
(***************************************************************************)
Unspent(h) == {p \in Owned(OutpointsTo(h)) : ~SpentAt(p, h)}

LEMMA WorthOfParts ==
  ASSUME ChainInv, NEW h \in 0..Len(blocks), NEW S, S \subseteq OutpointsTo(h), NEW A \in SUBSET S,
         NEW c \in Tokens \cup {Native}
  PROVE  Worth(S, c) = Worth(A, c) + Worth(S \ A, c)
<1> DEFINE v == [p \in S |-> ValueAt(p, c)]
           va == [p \in A |-> ValueAt(p, c)]
           vb == [p \in S \ A |-> ValueAt(p, c)]
<1>1. IsFiniteSet(S) /\ v \in [S -> Nat] /\ Worth(S, c) = SumOver(v, S)
  BY WorthIsTotal
<1>2. Worth(A, c) = SumOver(va, A) /\ Worth(S \ A, c) = SumOver(vb, S \ A)
  <2>1. A \subseteq OutpointsTo(h) /\ S \ A \subseteq OutpointsTo(h)
    OBVIOUS
  <2> QED BY <2>1, WorthIsTotal
<1>3. va = [p \in A |-> v[p]] /\ vb = [p \in S \ A |-> v[p]]
  OBVIOUS
<1>4. v \in [S -> Int]
  <2> HIDE DEF v
  <2> QED BY <1>1
<1>5. SumOver(v, S) = SumOver([p \in A |-> v[p]], A) + SumOver([p \in S \ A |-> v[p]], S \ A)
  <2> HIDE DEF v
  <2> QED BY <1>1, <1>4, TotalOfParts
<1> HIDE DEF v, va, vb
<1> QED BY <1>1, <1>2, <1>3, <1>5

\* One block: what it spends was unspent, what it creates is new.
LEMMA UnspentGrows ==
  ASSUME ChainInv, NEW h \in 1..Len(blocks)
  PROVE  /\ Owned(blocks[h].spends) \subseteq Unspent(h - 1)
         /\ Created(h) \cap Unspent(h - 1) = {}
         /\ Unspent(h) = (Unspent(h - 1) \ Owned(blocks[h].spends)) \cup Created(h)
<1>0. /\ Len(blocks) \in Nat /\ h \in Nat \ {0} /\ h - 1 \in 0..Len(blocks) /\ h \in 0..Len(blocks)
      /\ \A b : b \in 1..h <=> b \in 1..(h - 1) \/ b = h
  BY BlocksAre
<1>1. \A p \in OutpointsTo(h - 1) : p[1] \in 1..(h - 1)
  BY <1>0, PointsAre
<1>2. OutpointsTo(h) = OutpointsTo(h - 1) \cup {<<h, o>> : o \in DOMAIN blocks[h].outputs}
  BY <1>0 DEF OutpointsTo
<1>3. Created(h) \subseteq {<<h, o>> : o \in DOMAIN blocks[h].outputs}
  BY DEF Created, Owned
<1>4. \A p \in Created(h) : p[1] = h
  BY <1>3
<1>5. \A p : SpentAt(p, h) <=> SpentAt(p, h - 1) \/ p \in blocks[h].spends
  BY <1>0 DEF SpentAt
<1>6. blocks[h].spends \subseteq OutpointsTo(h - 1)
  BY <1>0 DEF ChainInv
<1>7. \A p \in blocks[h].spends : ~SpentAt(p, h - 1)
  <2>1. ASSUME NEW p \in blocks[h].spends, NEW b \in 1..(h - 1), p \in blocks[b].spends PROVE FALSE
    <3>1. b # h /\ b \in 1..h /\ h \in 1..h
      BY <1>0
    <3> QED BY <1>0, <2>1, <3>1, SpendsAre
  <2> QED BY <2>1 DEF SpentAt
<1>8. \A p : p[1] = h => ~SpentAt(p, h)
  <2>1. ASSUME NEW p, p[1] = h, NEW b \in 1..h, p \in blocks[b].spends PROVE FALSE
    <3>1. p[1] < b
      BY <1>0, <2>1, SpendsAre
    <3> QED BY <1>0, <2>1, <3>1
  <2> QED BY <2>1 DEF SpentAt
<1>9. \A p \in OutpointsTo(h - 1) : p[1] # h
  BY <1>0, <1>1
<1>10. Owned(OutpointsTo(h)) = Owned(OutpointsTo(h - 1)) \cup Created(h)
  BY <1>2 DEF Owned, Created
<1>11. Owned(blocks[h].spends) \subseteq Unspent(h - 1)
  BY <1>6, <1>7 DEF Unspent, Owned
<1>12. Created(h) \cap Unspent(h - 1) = {}
  BY <1>4, <1>9 DEF Unspent, Owned
<1>13. Unspent(h) = (Unspent(h - 1) \ Owned(blocks[h].spends)) \cup Created(h)
  <2>1. \A p \in Owned(OutpointsTo(h - 1)) : p \in Owned(blocks[h].spends) <=> p \in blocks[h].spends
    BY DEF Owned
  <2>2. \A p \in Created(h) : ~SpentAt(p, h)
    BY <1>4, <1>8
  <2> QED BY <1>5, <1>10, <2>1, <2>2 DEF Unspent
<1> QED BY <1>11, <1>12, <1>13

\* What is unspent is worth what all blocks did, together.
LEMMA BooksBalance ==
  ASSUME ChainInv, NEW k \in 0..Len(blocks), NEW c \in Tokens \cup {Native}
  PROVE  Worth(Unspent(k), c) = SumFunction([b \in 1..k |-> Effect(b, c)])
<1> DEFINE total(h) == SumFunction([b \in 1..h |-> Effect(b, c)])
           Wrong == {h \in 0..Len(blocks) : Worth(Unspent(h), c) # total(h)}
<1>0. Len(blocks) \in Nat
  BY BlocksAre
<1>1. ASSUME NEW h \in 0..Len(blocks)
      PROVE  /\ IsFiniteSet(1..h) /\ [b \in 1..h |-> Effect(b, c)] \in [1..h -> Int]
             /\ total(h) = SumOver([b \in 1..h |-> Effect(b, c)], 1..h)
  <2> DEFINE v == [b \in 1..h |-> Effect(b, c)]
  <2>1. IsFiniteSet(1..h)
    BY <1>0, FS_Interval
  <2>2. ASSUME NEW b \in 1..h PROVE Effect(b, c) \in Int
    <3>1. Moved(b, FALSE) = Created(b) /\ Moved(b, TRUE) = Owned(blocks[b].spends)
      BY DEF Moved
    <3>2. Worth(Created(b), c) \in Nat /\ Worth(Owned(blocks[b].spends), c) \in Nat
      BY <3>1, MovedIs, WorthIsTotal
    <3> QED BY <3>2 DEF Effect
  <2>3. v \in [1..h -> Int]
    BY <2>2
  <2>4. SumFunction(v) = SumOver(v, 1..h)
    <3> HIDE DEF v
    <3> QED BY <2>1, <2>3, SumFunctionIsTotal
  <2> QED BY <2>1, <2>3, <2>4
<1>2. SUFFICES ASSUME Wrong # {} PROVE FALSE
  OBVIOUS
<1>3. PICK h \in Wrong : \A i \in Wrong : h \leq i
  <2>1. Wrong \subseteq Nat
    OBVIOUS
  <2> HIDE DEF Wrong
  <2> QED BY <1>2, <2>1, LeastNatural
<1>4. CASE h = 0
  <2>1. OutpointsTo(0) = {}
    BY DEF OutpointsTo
  <2>2. Unspent(0) = {}
    BY <2>1 DEF Unspent, Owned
  <2>3. Worth({}, c) = 0
    <3> DEFINE v == [p \in {} |-> ValueAt(p, c)]
    <3>1. Worth({}, c) = SumOver(v, {})
      BY <1>0, WorthIsTotal
    <3> HIDE DEF v
    <3> QED BY <3>1, TotalOfNothing
  <2>4. 1..0 = {}
    OBVIOUS
  <2>5. total(0) = 0
    <3> DEFINE v == [b \in {} |-> Effect(b, c)]
    <3>1. v \in [{} -> Int] /\ IsFiniteSet({})
      BY FS_EmptySet
    <3>2. total(0) = SumFunction(v)
      BY <2>4
    <3> HIDE DEF v, total
    <3> QED BY <3>1, <3>2, SumFunctionIsTotal, TotalOfNothing
  <2> HIDE DEF total
  <2> QED BY <1>4, <2>2, <2>3, <2>5
<1>5. CASE h # 0
  <2>0. h \in 1..Len(blocks) /\ h - 1 \in 0..Len(blocks) /\ h \in 0..Len(blocks)
    BY <1>0, <1>5
  <2> DEFINE Old == Unspent(h - 1)
             Gone == Owned(blocks[h].spends)
             New == Created(h)
             v == [b \in 1..h |-> Effect(b, c)]
             u == [b \in 1..(h - 1) |-> Effect(b, c)]
  <2>1. h - 1 \notin Wrong
    BY <1>0, <1>3, <2>0
  <2>2. Worth(Old, c) = total(h - 1)
    <3> HIDE DEF total
    <3> QED BY <2>0, <2>1
  <2>3. total(h) = Effect(h, c) + total(h - 1)
    <3>1. /\ IsFiniteSet(1..h) /\ v \in [1..h -> Int] /\ total(h) = SumOver(v, 1..h)
          /\ total(h - 1) = SumOver(u, 1..(h - 1))
      BY <1>1, <2>0
    <3>2. h \in 1..h /\ (1..h) \ {h} = 1..(h - 1)
      BY <1>0, <2>0
    <3>3. SumOver(v, 1..h) = v[h] + SumOver([b \in (1..h) \ {h} |-> v[b]], (1..h) \ {h})
      <4> HIDE DEF v
      <4> QED BY <3>1, <3>2, TotalOfOneMore
    <3>4. [b \in (1..h) \ {h} |-> v[b]] = u
      <4>1. [b \in (1..h) \ {h} |-> v[b]] = [b \in (1..h) \ {h} |-> Effect(b, c)]
        OBVIOUS
      <4> QED BY <3>2, <4>1
    <3>5. v[h] = Effect(h, c)
      BY <3>2
    <3> HIDE DEF v, u, total
    <3> QED BY <3>1, <3>2, <3>3, <3>4, <3>5
  <2>4. /\ Gone \subseteq Old /\ New \cap Old = {} /\ Unspent(h) = (Old \ Gone) \cup New
    BY <2>0, UnspentGrows
  <2>5. Worth(Old, c) = Worth(Gone, c) + Worth(Old \ Gone, c)
    <3>1. Old \subseteq OutpointsTo(h - 1)
      BY DEF Unspent, Owned
    <3> HIDE DEF Old, Gone
    <3> QED BY <2>0, <2>4, <3>1, WorthOfParts
  <2>6. Worth(Unspent(h), c) = Worth(New, c) + Worth(Old \ Gone, c)
    <3>1. Unspent(h) \subseteq OutpointsTo(h) /\ New \subseteq Unspent(h) /\ Unspent(h) \ New = Old \ Gone
      <4>1. Unspent(h) \subseteq OutpointsTo(h)
        BY DEF Unspent, Owned
      <4> HIDE DEF Old, New, Gone
      <4> QED BY <2>4, <4>1
    <3> HIDE DEF Old, New, Gone
    <3>2. Worth(Unspent(h), c) = Worth(New, c) + Worth(Unspent(h) \ New, c)
      BY <2>0, <3>1, WorthOfParts
    <3> QED BY <3>1, <3>2
  <2>7. Worth(Gone, c) \in Nat /\ Worth(New, c) \in Nat /\ Worth(Old \ Gone, c) \in Nat
    <3>1. Moved(h, FALSE) = New /\ Moved(h, TRUE) = Gone
      BY DEF Moved
    <3>2. Worth(Gone, c) \in Nat /\ Worth(New, c) \in Nat
      <4>1. h \in 1..h
        BY <2>0
      <4>2. New \subseteq OutpointsTo(h) /\ Gone \subseteq OutpointsTo(h)
        BY <2>0, <3>1, <4>1, MovedIs
      <4> HIDE DEF Gone, New
      <4> QED BY <2>0, <4>2, WorthIsTotal
    <3>3. Old \ Gone \subseteq OutpointsTo(h - 1)
      BY DEF Unspent, Owned
    <3> HIDE DEF Old, Gone, New
    <3> QED BY <2>0, <3>2, <3>3, WorthIsTotal
  <2>8. Effect(h, c) = Worth(New, c) - Worth(Gone, c)
    BY DEF Effect
  <2>9. Worth(Unspent(h), c) = total(h)
    <3> HIDE DEF Old, Gone, New, total
    <3> QED BY <2>2, <2>3, <2>5, <2>6, <2>7, <2>8
  <2> QED BY <2>9
<1> QED BY <1>4, <1>5

\* Listed once each, the rows of what is unspent add up to what it is worth.
LEMMA ListedIsWorth ==
  ASSUME ChainInv, NEW h \in 0..Len(blocks), refuse_repeats(UtxoRows(h), "outpoint"),
         NEW c \in Tokens \cup {Native}, NEW v, DOMAIN v = DOMAIN UtxoRows(h),
         v = [i \in DOMAIN v |-> v[i]],
         \A i \in DOMAIN v : v[i] = ValueAt(UtxoRows(h)[i].outpoint, c)
  PROVE  SumFunction(v) = Worth(Unspent(h), c)
<1> DEFINE rows == UtxoRows(h)
           I == DOMAIN rows
           U == Unspent(h)
           w == [p \in U |-> ValueAt(p, c)]
           f == [i \in I |-> rows[i].outpoint]
<1>1. /\ Len(rows) \in Nat /\ I = 1..Len(rows)
      /\ \A i \in I : IsRow(rows[i], h, FALSE) /\ ~SpentAt(rows[i].outpoint, h)
      /\ \A r : IsRow(r, h, FALSE) /\ ~SpentAt(r.outpoint, h) => \E i \in I : rows[i] = r
  BY UtxosAre
<1>2. IsFiniteSet(I)
  <2> HIDE DEF I, rows
  <2> QED BY <1>1, FS_Interval
<1>3. IsFiniteSet(U) /\ w \in [U -> Nat] /\ Worth(U, c) = SumOver(w, U)
  <2>1. U \subseteq OutpointsTo(h)
    BY DEF Unspent, Owned
  <2> QED BY <2>1, WorthIsTotal
<1>4. ASSUME NEW i \in I PROVE f[i] \in U
  <2>1. /\ IsRow(rows[i], h, FALSE) /\ ~SpentAt(rows[i].outpoint, h)
    BY <1>1
  <2>2. rows[i].outpoint \in OutpointsTo(h) /\ rows[i].outpoint \in Moved(rows[i].transaction, FALSE)
    <3> HIDE DEF rows
    <3> QED BY <2>1, RowSays
  <2> QED BY <2>1, <2>2 DEF Moved, Created, Owned, Unspent
<1>5. ASSUME NEW p \in U PROVE \E i \in I : f[i] = p
  <2>1. p \in OutpointsTo(h) /\ ~SpentAt(p, h)
    BY DEF Unspent, Owned
  <2>2. PICK a \in OutputAt(p).owners \cap asking : TRUE
    BY DEF Unspent, Owned
  <2>3. p[1] \in 1..h
    BY <2>1, PointsAre
  <2>4. IsRow(Row(p, p[1], a, FALSE), h, FALSE)
    BY <2>1, <2>2, <2>3 DEF IsRow, HappenedAt
  <2>5. Row(p, p[1], a, FALSE).outpoint = p
    BY DEF Row
  <2>6. PICK i \in I : rows[i] = Row(p, p[1], a, FALSE)
    BY <1>1, <2>1, <2>4, <2>5
  <2> QED BY <2>5, <2>6
<1>6. \A i, j \in I : f[i] = f[j] => i = j
  BY DEF refuse_repeats
<1>7. f \in Bijection(I, U)
  <2>1. f \in [I -> U]
    BY <1>4
  <2> HIDE DEF f, I, U
  <2> QED BY <1>5, <1>6, <2>1 DEF Bijection, Injection, Surjection, IsInjective
<1>8. \A i \in I : v[i] = w[f[i]] /\ v[i] \in Int
  <2>1. \A i \in I : v[i] = w[f[i]]
    BY <1>4
  <2>2. \A i \in I : w[f[i]] \in Nat
    <3> HIDE DEF w, f, U, I
    <3> QED BY <1>3, <1>4
  <2> HIDE DEF w, f, I, U
  <2> QED BY <2>1, <2>2
<1>9. v \in [I -> Int] /\ w \in [U -> Int]
  <2>1. v \in [I -> Int]
    <3>1. DOMAIN v = I
      OBVIOUS
    <3> HIDE DEF w, f, U, I
    <3> QED BY <1>8, <3>1
  <2>2. w \in [U -> Int]
    <3> HIDE DEF w, U
    <3> QED BY <1>3
  <2> QED BY <2>1, <2>2
<1>10. SumFunction(v) = SumOver(v, I)
  <2> HIDE DEF I
  <2> QED BY <1>2, <1>9, SumFunctionIsTotal
<1>11. SumOver(v, I) = SumOver(w, U)
  <2> HIDE DEF w, f, I, U
  <2> QED BY <1>2, <1>3, <1>7, <1>8, <1>9, TotalOfImage
<1> HIDE DEF w, f, I, U
<1>12. QED BY <1>3, <1>10, <1>11 DEF U

\* A balance that could be counted is what is unspent.
LEMMA BalancesAreCounted ==
  ASSUME ChainInv, NEW h \in 0..Len(blocks), refuse_repeats(UtxoRows(h), "outpoint"),
         Countable(UtxoRows(h))
  PROVE  LET rows     == UtxoRows(h)
             value    == token_balances(rows)
             held(c)  == IF c \in DOMAIN value THEN value[c] ELSE 0
             total(c) == SumFunction([b \in 1..h |-> Effect(b, c)])
         IN /\ SumFunction([i \in DOMAIN rows |-> rows[i].satoshis]) = total(Native)
            /\ held(Native) = 0
            /\ \A c \in Tokens : held(c) = total(c)
<1> DEFINE rows == UtxoRows(h)
           value == token_balances(rows)
           sum(c) == SumFunction([i \in DOMAIN rows |-> TokensOf(OutputAt(rows[i].outpoint))[c]])
           held(c) == IF c \in DOMAIN value THEN value[c] ELSE 0
           total(c) == SumFunction([b \in 1..h |-> Effect(b, c)])
<1>1. ASSUME NEW i \in DOMAIN rows
      PROVE  /\ rows[i].satoshis = ValueAt(rows[i].outpoint, Native)
             /\ IsOutput(OutputAt(rows[i].outpoint))
             /\ TokensOf(OutputAt(rows[i].outpoint))[Native] = 0
             /\ \A c \in Tokens : TokensOf(OutputAt(rows[i].outpoint))[c] = ValueAt(rows[i].outpoint, c)
  <2> DEFINE p == rows[i].outpoint
             o == OutputAt(p)
  <2>1. IsRow(rows[i], h, FALSE)
    BY UtxosAre
  <2>2. rows[i].satoshis = 1 * o.satoshis /\ p \in OutpointsTo(h)
    <3> HIDE DEF rows
    <3> QED BY <2>1, RowSays
  <2>3. IsOutput(o)
    BY <2>2, PointsAre
  <2>4. rows[i].satoshis = o.satoshis
    <3> HIDE DEF o, rows
    <3> QED BY <2>2, <2>3 DEF IsOutput
  <2>5. o.kind # "opaque"
    BY DEF Countable
  <2> HIDE DEF rows, o
  <2>6. TokensOf(o)[Native] = 0
    BY DEF TokensOf
  <2>7. ASSUME NEW c \in Tokens PROVE TokensOf(o)[c] = o.names[c]
    <3>1. c # Native
      BY AccountsAssumption
    <3>2. CASE o.kind \in Carriers
      BY <3>1, <3>2 DEF TokensOf
    <3>3. CASE o.kind \notin Carriers
      <4>1. o.names[c] = 0
        BY <2>3, <2>5, <3>3 DEF IsOutput
      <4> QED BY <3>3, <4>1 DEF TokensOf
    <3> QED BY <3>2, <3>3
  <2>8. \A c \in Tokens : c # Native
    BY AccountsAssumption
  <2> QED BY <2>3, <2>4, <2>6, <2>7, <2>8 DEF ValueAt, o
<1>2. ASSUME NEW c \in Tokens \cup {Native} PROVE Worth(Unspent(h), c) = total(c)
  BY BooksBalance
<1>3. SumFunction([i \in DOMAIN rows |-> rows[i].satoshis]) = total(Native)
  <2> DEFINE v == [i \in DOMAIN rows |-> rows[i].satoshis]
  <2>1. DOMAIN v = DOMAIN rows /\ \A i \in DOMAIN v : v[i] = ValueAt(rows[i].outpoint, Native)
    BY <1>1
  <2>2. v = [i \in DOMAIN v |-> v[i]]
    OBVIOUS
  <2>3. SumFunction(v) = Worth(Unspent(h), Native)
    <3> HIDE DEF v
    <3> QED BY <2>1, <2>2, ListedIsWorth
  <2> HIDE DEF total, v
  <2> QED BY <1>2, <2>3 DEF v
<1>4. ASSUME NEW c \in Tokens PROVE sum(c) = total(c)
  <2> DEFINE v == [i \in DOMAIN rows |-> TokensOf(OutputAt(rows[i].outpoint))[c]]
  <2>1. DOMAIN v = DOMAIN rows /\ \A i \in DOMAIN v : v[i] = ValueAt(rows[i].outpoint, c)
    BY <1>1
  <2>2. v = [i \in DOMAIN v |-> v[i]]
    OBVIOUS
  <2>3. SumFunction(v) = Worth(Unspent(h), c)
    <3> HIDE DEF v
    <3> QED BY <2>1, <2>2, ListedIsWorth
  <2> HIDE DEF total, v
  <2> QED BY <1>2, <2>3 DEF v
<1>5. sum(Native) = 0
  <2> DEFINE v == [i \in DOMAIN rows |-> TokensOf(OutputAt(rows[i].outpoint))[Native]]
  <2>1. DOMAIN v = DOMAIN rows /\ \A i \in DOMAIN rows : v[i] = 0
    BY <1>1
  <2>2. IsFiniteSet(DOMAIN rows)
    <3>1. Len(rows) \in Nat /\ DOMAIN rows = 1..Len(rows)
      BY UtxosAre
    <3> HIDE DEF rows
    <3> QED BY <3>1, FS_Interval
  <2>3. v \in [DOMAIN rows -> Int]
    <3> HIDE DEF rows
    <3> QED BY <2>1
  <2>4. SumFunction(v) = 0
    <3> HIDE DEF v
    <3> QED BY <2>1, <2>2, <2>3, SumFunctionIsTotal, SumOfZeros
  <2> QED BY <2>4
<1>6. ASSUME NEW c \in Tokens \cup {Native} PROVE held(c) = sum(c)
  <2>1. value = [d \in {d \in Tokens \cup {Native} : sum(d) # 0} |-> sum(d)]
    BY DEF token_balances
  <2> HIDE DEF value, sum
  <2> QED BY <2>1
<1> HIDE DEF held, sum, total
<1>7. held(Native) = 0 /\ \A c \in Tokens : held(c) = total(c)
  BY <1>4, <1>5, <1>6
<1> QED BY <1>3, <1>7 DEF held, total

-----------------------------------------------------------------------------
(***************************************************************************)
(* What honest nodes say is taken                                          *)
(***************************************************************************)
LEMMA FieldsOfRows ==
  ASSUME NEW p, NEW b, NEW a, NEW sp
  PROVE  {"address", "missing", "illegible"} \subseteq DOMAIN Row(p, b, a, sp)
BY DEF Row

LEMMA RowsCanBeRead ==
  ASSUME ChainInv, NEW h \in 0..Len(blocks)
  PROVE  /\ \E S : /\ DeltaRows(h) \in Seq(S)
                   /\ \A x \in S : {"address", "missing", "illegible"} \subseteq DOMAIN x
         /\ \E S : /\ UtxoRows(h) \in Seq(S)
                   /\ \A x \in S : {"address", "missing", "illegible"} \subseteq DOMAIN x
<1> DEFINE S == IndexRows(h, asking, FALSE) \cup IndexRows(h, asking, TRUE)
           T == {r \in IndexRows(h, asking, FALSE) : ~SpentAt(r.outpoint, h)}
<1>1. IsFiniteSet(S) /\ IsFiniteSet(T)
  BY RowsAre, FS_Union, FS_Subset
<1>2. DeltaRows(h) \in Seq(S) /\ UtxoRows(h) \in Seq(T)
  BY <1>1, ListedEnumerates DEF DeltaRows, UtxoRows, Enumerates
<1>3. \A x \in S \cup T : {"address", "missing", "illegible"} \subseteq DOMAIN x
  <2>1. ASSUME NEW x \in S \cup T PROVE \E sp \in BOOLEAN : IsRow(x, h, sp)
    BY RowsAre
  <2>2. ASSUME NEW x, NEW sp \in BOOLEAN, IsRow(x, h, sp)
        PROVE  {"address", "missing", "illegible"} \subseteq DOMAIN x
    BY <2>2, FieldsOfRows DEF IsRow
  <2> HIDE DEF S, T
  <2> QED BY <2>1, <2>2
<1>4. (\A x \in S : {"address", "missing", "illegible"} \subseteq DOMAIN x)
      /\ \A x \in T : {"address", "missing", "illegible"} \subseteq DOMAIN x
  <2> HIDE DEF S, T
  <2> QED BY <1>3
<1> HIDE DEF S, T
<1> QED BY <1>2, <1>4

LEMMA HonestHistoryIsTaken ==
  ASSUME ChainInv, NEW h \in 0..Len(blocks)
  PROVE  address_deltas(Result(DeltaRows(h)), asking).ok
<1> DEFINE rows == DeltaRows(h)
<1>1. ASSUME NEW i \in DOMAIN rows
      PROVE  /\ into_typed(rows[i], RawAddressDelta) /\ rows[i].address \in asking
             /\ \E sp \in BOOLEAN : rows[i] = Row(rows[i].outpoint, rows[i].transaction, rows[i].address, sp)
                  /\ rows[i].movement = <<rows[i].address, rows[i].transaction, sp, rows[i].outpoint>>
  <2>1. PICK sp \in BOOLEAN : IsRow(rows[i], h, sp)
    BY DeltasAre
  <2> HIDE DEF rows
  <2>2. /\ rows[i].address \in asking /\ rows[i].missing = {} /\ rows[i].illegible = {}
        /\ rows[i] = Row(rows[i].outpoint, rows[i].transaction, rows[i].address, sp)
        /\ rows[i].movement = <<rows[i].address, rows[i].transaction, sp, rows[i].outpoint>>
    BY <2>1, RowSays
  <2> QED BY <2>2 DEF into_typed
<1>2. refuse_repeats(rows, "movement")
  <2>1. ASSUME NEW i \in DOMAIN rows, NEW j \in DOMAIN rows, rows[i].movement = rows[j].movement
        PROVE  i = j
    <3>1. PICK s \in BOOLEAN : /\ rows[i] = Row(rows[i].outpoint, rows[i].transaction, rows[i].address, s)
                               /\ rows[i].movement = <<rows[i].address, rows[i].transaction, s, rows[i].outpoint>>
      BY <1>1
    <3>2. PICK t \in BOOLEAN : /\ rows[j] = Row(rows[j].outpoint, rows[j].transaction, rows[j].address, t)
                               /\ rows[j].movement = <<rows[j].address, rows[j].transaction, t, rows[j].outpoint>>
      BY <1>1
    <3>3. s = t /\ rows[i].outpoint = rows[j].outpoint /\ rows[i].transaction = rows[j].transaction
          /\ rows[i].address = rows[j].address
      <4>1. <<rows[i].address, rows[i].transaction, s, rows[i].outpoint>> =
            <<rows[j].address, rows[j].transaction, t, rows[j].outpoint>>
        BY <2>1, <3>1, <3>2, Zenon
      <4> HIDE DEF rows
      <4> QED BY <4>1
    <3>4. rows[i] = rows[j]
      BY <3>1, <3>2, <3>3
    <3> QED BY <3>4, DeltasAre
  <2> HIDE DEF rows
  <2> QED BY <2>1 DEF refuse_repeats
<1> HIDE DEF rows
<1>3. address_deltas(Result(rows), asking).ok
  BY <1>1, <1>2 DEF address_deltas, Checked, Rows, result_of, Result, Ok
<1> QED BY <1>3 DEF rows

LEMMA TwoAreMoreThanOne ==
  ASSUME NEW A, IsFiniteSet(A), NEW x \in A, NEW y \in A, x # y
  PROVE  Cardinality(A) > 1
<1>1. IsFiniteSet({x}) /\ Cardinality({x}) = 1
  BY FS_Singleton
<1>2. IsFiniteSet({x} \cup {y}) /\ Cardinality({x} \cup {y}) = Cardinality({x}) + 1
  BY <1>1, FS_AddElement
<1>3. Cardinality({x} \cup {y}) \leq Cardinality(A)
  <2>1. {x} \cup {y} \in SUBSET A
    OBVIOUS
  <2> QED BY <2>1, FS_Subset
<1>4. Cardinality(A) \in Nat
  BY FS_CardinalityType
<1> QED BY <1>1, <1>2, <1>3, <1>4

\* Only an output of two of the addresses asked about is listed twice.
LEMMA HonestBalanceIsTaken ==
  ASSUME ChainInv, NEW h \in 0..Len(blocks)
  PROVE  \/ address_utxos(Result(UtxoRows(h)), asking).ok
         \/ \E p \in Owned(OutpointsTo(h)) : Cardinality(OutputAt(p).owners \cap asking) > 1
<1> DEFINE rows == UtxoRows(h)
<1>1. ASSUME NEW i \in DOMAIN rows
      PROVE  /\ into_typed(rows[i], RawAddressUtxo) /\ rows[i].address \in asking
             /\ rows[i] = Row(rows[i].outpoint, rows[i].outpoint[1], rows[i].address, FALSE)
             /\ rows[i].outpoint \in OutpointsTo(h)
             /\ rows[i].address \in OutputAt(rows[i].outpoint).owners
  <2>1. IsRow(rows[i], h, FALSE)
    BY UtxosAre
  <2> HIDE DEF rows
  <2>2. /\ rows[i].address \in asking /\ rows[i].missing = {} /\ rows[i].illegible = {}
        /\ rows[i].outpoint \in OutpointsTo(h)
    BY <2>1, RowSays
  <2>3. PICK p \in OutpointsTo(h), b \in 1..h :
          /\ HappenedAt(p, FALSE, b)
          /\ \E a \in OutputAt(p).owners \cap asking : rows[i] = Row(p, b, a, FALSE)
    BY <2>1 DEF IsRow
  <2>4. PICK a \in OutputAt(p).owners \cap asking : rows[i] = Row(p, b, a, FALSE)
    BY <2>3
  <2>5. rows[i].outpoint = p /\ rows[i].address = a /\ b = p[1]
    BY <2>3, <2>4 DEF HappenedAt, Row
  <2> QED BY <2>2, <2>4, <2>5 DEF into_typed
<1>2. CASE refuse_repeats(rows, "outpoint")
  <2> HIDE DEF rows
  <2>1. address_utxos(Result(rows), asking).ok
    BY <1>1, <1>2 DEF address_utxos, Checked, Rows, result_of, Result, Ok
  <2> QED BY <2>1 DEF rows
<1>3. CASE ~refuse_repeats(rows, "outpoint")
  <2>1. PICK i \in DOMAIN rows, j \in DOMAIN rows : i # j /\ rows[i].outpoint = rows[j].outpoint
    BY <1>3 DEF refuse_repeats
  <2>2. rows[i].address # rows[j].address
    <3>1. SUFFICES ASSUME rows[i].address = rows[j].address PROVE FALSE
      OBVIOUS
    <3>2. rows[i] = rows[j]
      BY <1>1, <2>1, <3>1
    <3> QED BY <2>1, <3>2, UtxosAre
  <2> DEFINE p == rows[i].outpoint
  <2>3. Cardinality(OutputAt(p).owners \cap asking) > 1
    <3>1. rows[i].address \in OutputAt(p).owners \cap asking /\ rows[j].address \in OutputAt(p).owners \cap asking
      BY <1>1, <2>1
    <3>2. IsFiniteSet(OutputAt(p).owners \cap asking)
      <4>1. IsFiniteSet(asking)
        BY AccountsAssumption DEF ChainInv
      <4> QED BY <4>1, FS_Subset
    <3> QED BY <2>2, <3>1, <3>2, TwoAreMoreThanOne
  <2>4. p \in Owned(OutpointsTo(h))
    BY <1>1 DEF Owned
  <2> QED BY <2>3, <2>4
<1> QED BY <1>2, <1>3

HonestAnswers == {Result("record"), Failed(NotFound)}

AnyAnswer == HonestAnswers \cup
  {Unanswered, [kind |-> "null"], [kind |-> "garbage"], Failed(-28), Failed(MethodNotFound)}

LEMMA IdentityRepliesAre ==
  ASSUME NEW n, NEW r \in IdentityReplies(n)
  PROVE  /\ r.reply \in AnyAnswer
         /\ r.cost \in {0, 1}
         /\ r.cost = 0 => r.reply \in HonestAnswers
BY DEF IdentityReplies, AnyAnswer, HonestAnswers

LEMMA AnswersAre ==
  ASSUME NEW r \in AnyAnswer
  PROVE  /\ result_of(r).ok \in BOOLEAN
         /\ result_of(r).ok => result_of(r) = Ok("record")
         /\ ~result_of(r).ok => result_of(r) = Err(result_of(r).error)
         /\ ~result_of(r).ok /\ result_of(r).error = Node(NotFound) => r = Failed(NotFound)
         /\ r \in HonestAnswers => result_of(r).ok \/ result_of(r) = Err(Node(NotFound))
<1>1. CASE r = Result("record")
  BY <1>1 DEF result_of, Result, Ok, HonestAnswers
<1>2. CASE r = Failed(NotFound)
  <2>1. result_of(r) = Err(Node(NotFound))
    BY <1>2 DEF result_of, Failed, MethodNotFound, NotFound
  <2> QED BY <1>2, <2>1 DEF Err
<1>3. CASE r \in {Unanswered, [kind |-> "null"], [kind |-> "garbage"], Failed(MethodNotFound)}
  <2>1. result_of(r) = Err(Node(NotANodeError))
    BY <1>3 DEF result_of, Unanswered, Failed, MethodNotFound
  <2>2. r \notin HonestAnswers
    BY <1>3 DEF HonestAnswers, Unanswered, Failed, Result, MethodNotFound, NotFound
  <2>3. Node(NotANodeError) # Node(NotFound)
    BY DEF Node, NotANodeError, NotFound
  <2> QED BY <2>1, <2>2, <2>3 DEF Err
<1>4. CASE r = Failed(-28)
  <2>1. result_of(r) = Err(Node(-28))
    BY <1>4 DEF result_of, Failed, MethodNotFound
  <2>2. r \notin HonestAnswers
    BY <1>4 DEF HonestAnswers, Failed, Result, NotFound
  <2>3. Node(-28) # Node(NotFound)
    BY DEF Node, NotFound
  <2> QED BY <2>1, <2>2, <2>3 DEF Err
<1> QED BY <1>1, <1>2, <1>3, <1>4 DEF AnyAnswer, HonestAnswers

LEMMA OkIsNotErr ==
  ASSUME NEW v, NEW e
  PROVE  Ok(v).ok /\ Ok(v).value = v /\ ~Err(e).ok /\ Err(e).error = e /\ Ok(v) # Err(e)
BY DEF Ok, Err

\* Two sources: neither fails in a way that reads as absence.
LEMMA AgreedOnAbsence ==
  ASSUME NEW r \in AnyAnswer, NEW s \in AnyAnswer
  PROVE  LET outcome == absent_is_none(agreed(result_of(r), result_of(s))) IN
         /\ outcome = Ok(Absent) => Failed(NotFound) \in {r, s}
         /\ r \in HonestAnswers /\ s \in HonestAnswers => outcome.ok
<1> DEFINE both == agreed(result_of(r), result_of(s))
<1>1. \/ both = Ok("record")
      \/ ~result_of(r).ok /\ both = result_of(r)
      \/ ~result_of(s).ok /\ both = result_of(s)
  <2> DEFINE a == result_of(r)
             b == result_of(s)
  <2>1. /\ a.ok \in BOOLEAN /\ b.ok \in BOOLEAN
        /\ a.ok => a = Ok("record")
        /\ b.ok => b = Ok("record")
    BY AnswersAre
  <2> HIDE DEF a, b
  <2>2. agreed(a, b) = Ok("record") \/ (~a.ok /\ agreed(a, b) = a) \/ (~b.ok /\ agreed(a, b) = b)
    BY <2>1 DEF agreed, Ok
  <2> QED BY <2>2 DEF a, b
<1>2. ASSUME both = Ok("record") PROVE absent_is_none(both) # Ok(Absent) /\ absent_is_none(both).ok
  <2>1. absent_is_none(both) = Ok("record")
    BY <1>2, OkIsNotErr DEF absent_is_none
  <2>2. Ok("record") # Ok(Absent) /\ Ok("record").ok
    BY DEF Ok, Absent
  <2> HIDE DEF both
  <2> QED BY <2>1, <2>2
<1>3. ASSUME NEW x \in {r, s}, ~result_of(x).ok, both = result_of(x)
      PROVE  /\ absent_is_none(both) = Ok(Absent) => x = Failed(NotFound)
             /\ x \in HonestAnswers => absent_is_none(both).ok
  <2> DEFINE a == result_of(x)
  <2>1. /\ a = Err(a.error)
        /\ a.error = Node(NotFound) => x = Failed(NotFound)
        /\ x \in HonestAnswers => a = Err(Node(NotFound))
    BY <1>3, AnswersAre
  <2>2. absent_is_none(a) = IF a.error = Node(NotFound) THEN Ok(Absent) ELSE a
    BY <1>3 DEF absent_is_none
  <2> HIDE DEF a
  <2>3. /\ absent_is_none(a) = Ok(Absent) => x = Failed(NotFound)
        /\ x \in HonestAnswers => absent_is_none(a).ok
    BY <2>1, <2>2, OkIsNotErr
  <2> QED BY <1>3, <2>3 DEF a
<1> HIDE DEF both
<1>4. /\ absent_is_none(both) = Ok(Absent) => Failed(NotFound) \in {r, s}
      /\ r \in HonestAnswers /\ s \in HonestAnswers => absent_is_none(both).ok
  <2> DEFINE outcome == absent_is_none(both)
  <2>1. ASSUME NEW x \in {r, s}, ~result_of(x).ok, both = result_of(x)
        PROVE  /\ outcome = Ok(Absent) => Failed(NotFound) \in {r, s}
               /\ r \in HonestAnswers /\ s \in HonestAnswers => outcome.ok
    <3>1. /\ outcome = Ok(Absent) => x = Failed(NotFound)
          /\ x \in HonestAnswers => outcome.ok
      BY <1>3, <2>1
    <3> HIDE DEF outcome
    <3> QED BY <3>1
  <2>2. CASE both = Ok("record")
    BY <1>2, <2>2
  <2>3. CASE ~result_of(r).ok /\ both = result_of(r)
    BY <2>1, <2>3
  <2>4. CASE ~result_of(s).ok /\ both = result_of(s)
    BY <2>1, <2>4
  <2> QED BY <1>1, <2>2, <2>3, <2>4
<1> QED BY <1>4 DEF both

LEMMA ConfirmationsOnAbsence ==
  ASSUME NEW r \in AnyAnswer
  PROVE  LET answer  == result_of(r)
             outcome == confirmations(IF answer.ok THEN Ok([confirmations |-> "some"]) ELSE answer)
         IN /\ outcome = Ok(Absent) => Failed(NotFound) = r
            /\ r \in HonestAnswers => outcome.ok
<1> DEFINE a == result_of(r)
           outcome == confirmations(IF a.ok THEN Ok([confirmations |-> "some"]) ELSE a)
<1>1. /\ a.ok \in BOOLEAN
      /\ ~a.ok => a = Err(a.error)
      /\ ~a.ok /\ a.error = Node(NotFound) => r = Failed(NotFound)
      /\ r \in HonestAnswers => a.ok \/ a = Err(Node(NotFound))
  BY AnswersAre
<1> HIDE DEF a
<1>2. CASE a.ok
  <2>1. outcome = Ok("some")
    BY <1>2, OkIsNotErr DEF confirmations
  <2>2. Ok("some") # Ok(Absent) /\ Ok("some").ok
    BY DEF Ok, Absent
  <2> HIDE DEF outcome
  <2>3. QED BY <2>1, <2>2 DEF outcome, a
<1>3. CASE ~a.ok
  <2>1. outcome = IF a.error = Node(NotFound) THEN Ok(Absent) ELSE a
    BY <1>3 DEF confirmations, absent_is_none
  <2> HIDE DEF outcome
  <2>2. /\ outcome = Ok(Absent) => r = Failed(NotFound)
        /\ r \in HonestAnswers => outcome.ok
    BY <1>1, <1>3, <2>1, OkIsNotErr
  <2> QED BY <2>2 DEF outcome, a
<1> QED BY <1>1, <1>2, <1>3

Things == {RawAddressBalance, RawChainInfo, RawCurrency, RawConversionEstimate, RawIdentity,
           RawIdentityAtAddress, CurrencyStateAt, summary_from_definition,
           converter_from_entry, identity_content, identity_registration, vdxf_id}

\* Nothing that is required is optional as well.
LEMMA ThingsAre ==
  ASSUME NEW shape \in Things
  PROVE  shape.required \cap (shape.optional \cup {"other"}) = {} /\ "other" \notin shape.optional
<1>1. CASE shape \in {RawAddressBalance, RawChainInfo, RawCurrency}
  BY <1>1 DEF RawAddressBalance, RawChainInfo, RawCurrency, Shape
<1>2. CASE shape \in {RawConversionEstimate, RawIdentity, RawIdentityAtAddress}
  BY <1>2 DEF RawConversionEstimate, RawIdentity, RawIdentityAtAddress, Shape
<1>3. CASE shape \in {CurrencyStateAt, summary_from_definition, converter_from_entry}
  BY <1>3 DEF CurrencyStateAt, summary_from_definition, converter_from_entry, Shape
<1>4. CASE shape \in {identity_content, identity_registration, vdxf_id}
  BY <1>4 DEF identity_content, identity_registration, vdxf_id, RawIdentity, Shape
<1> QED BY <1>1, <1>2, <1>3, <1>4 DEF Things

IsAnswer(answer) == answer.ok \in BOOLEAN /\ (~answer.ok => answer = Err(answer.error))

LEMMA AnswersAreAnswers ==
  ASSUME NEW v, NEW e
  PROVE  IsAnswer(Ok(v)) /\ IsAnswer(Err(e))
BY DEF IsAnswer, Ok, Err

LEMMA AbridgedIsNoAbsence ==
  ASSUME NEW answer, IsAnswer(answer)
  PROVE  Abridged(answer) # Ok(Absent) /\ (answer.ok => Abridged(answer).ok)
<1>1. Ok("thing") # Ok(Absent)
  BY DEF Ok, Absent
<1> QED BY <1>1, OkIsNotErr DEF Abridged, IsAnswer

LEMMA ThingsAreTaken ==
  ASSUME NEW shape \in Things, NEW lacking, NEW illegible
  PROVE  LET outcome == Abridged(Typed(result_of(Result([missing |-> lacking, illegible |-> illegible])), shape))
         IN /\ outcome # Ok(Absent)
            /\ lacking \subseteq shape.optional \cup {"other"} /\ illegible \subseteq {"other"} => outcome.ok
<1> DEFINE row == [missing |-> lacking, illegible |-> illegible]
           answer == Typed(Ok(row), shape)
<1>1. result_of(Result(row)) = Ok(row)
  BY DEF result_of, Result
<1>2. row.missing = lacking /\ row.illegible = illegible
  OBVIOUS
<1> HIDE DEF row
<1>3. answer = IF ~into_typed(row, shape) THEN Err(Node(NotANodeError)) ELSE Ok(row)
  BY OkIsNotErr DEF Typed
<1>4. IsAnswer(answer)
  <2> HIDE DEF answer
  <2> QED BY <1>3, AnswersAreAnswers
<1>5. ASSUME lacking \subseteq shape.optional \cup {"other"}, illegible \subseteq {"other"} PROVE answer.ok
  <2>1. "other" \notin shape.required \cup shape.optional /\ shape.required \cap (shape.optional \cup {"other"}) = {}
    BY ThingsAre
  <2>2. into_typed(row, shape)
    BY <1>2, <1>5, <2>1 DEF into_typed
  <2> QED BY <1>3, <2>2, OkIsNotErr
<1> HIDE DEF answer
<1>6. Abridged(answer) # Ok(Absent) /\ (answer.ok => Abridged(answer).ok)
  BY <1>4, AbridgedIsNoAbsence
<1> QED BY <1>1, <1>5, <1>6 DEF answer, row

\* Any list of offers: whatever is wrong with it, it is not absence.
LEMMA ListsAreNoAbsence ==
  ASSUME NEW body
  PROVE  /\ Abridged(offers(Result(body))) # Ok(Absent)
         /\ \A addresses : Abridged(address_mempool(Result(body), addresses)) # Ok(Absent)
<1>1. result_of(Result(body)) = Ok(body)
  BY DEF result_of, Result
<1>2. \A shape : Rows(Ok(body), shape) = Ok(body) \/ \E e : Rows(Ok(body), shape) = Err(e)
  BY DEF Rows
<1>3. \A shape : IsAnswer(Rows(Ok(body), shape))
  BY <1>2, AnswersAreAnswers
<1>4. IsAnswer(offers(Result(body)))
  <2>1. IsAnswer(Named(Result(body), RawOfferEntry, "listed"))
    BY <1>1, <1>3, AnswersAreAnswers DEF Named
  <2> QED BY <2>1, AnswersAreAnswers DEF offers
<1>5. ASSUME NEW addresses PROVE IsAnswer(address_mempool(Result(body), addresses))
  <2>1. IsAnswer(Checked(Rows(Ok(body), RawMempoolDelta), addresses, "movement"))
    BY <1>3, AnswersAreAnswers DEF Checked
  <2> QED BY <1>1, <2>1, AnswersAreAnswers DEF address_mempool
<1> QED BY <1>4, <1>5, AbridgedIsNoAbsence

LEMMA PendingIsTaken ==
  ASSUME NEW row, row.missing = {}, row.illegible = {}, row.address = Stranger,
         Consistent(row)
  PROVE  Abridged(address_mempool(Result(<<row>>), {Stranger})).ok
<1>1. DOMAIN <<row>> = {1} /\ <<row>>[1] = row
  OBVIOUS
<1>2. into_typed(row, RawMempoolDelta)
  BY DEF into_typed
<1>3. Rows(Ok(<<row>>), RawMempoolDelta) = Ok(<<row>>)
  BY <1>1, <1>2 DEF Rows, Ok
<1>4. refuse_repeats(<<row>>, "movement")
  BY <1>1 DEF refuse_repeats
<1>5. Checked(Ok(<<row>>), {Stranger}, "movement") = Ok(<<row>>)
  BY <1>1, <1>4 DEF Checked, Ok
<1>6. result_of(Result(<<row>>)) = Ok(<<row>>)
  BY DEF result_of, Result
<1>7. address_mempool(Result(<<row>>), {Stranger}) = Ok(<<row>>)
  BY <1>1, <1>3, <1>5, <1>6 DEF address_mempool, Ok
<1> QED BY <1>7 DEF Abridged, Ok

LEMMA OfferIsTaken ==
  ASSUME NEW entry, entry.missing = {}, entry.illegible = {},
         RawOfferSide(entry.offer), RawOfferSide(entry.accept)
  PROVE  Abridged(offers(Result(<<entry>>))).ok
<1>1. DOMAIN <<entry>> = {1} /\ <<entry>>[1] = entry
  OBVIOUS
<1>2. into_typed(entry, RawOfferEntry)
  BY DEF into_typed
<1>3. Rows(Ok(<<entry>>), RawOfferEntry) = Ok(<<entry>>)
  BY <1>1, <1>2 DEF Rows, Ok
<1>4. refuse_repeats(<<entry>>, "listed")
  BY <1>1 DEF refuse_repeats
<1>5. result_of(Result(<<entry>>)) = Ok(<<entry>>)
  BY DEF result_of, Result
<1>6. offers(Result(<<entry>>)) = Ok(<<entry>>)
  BY <1>1, <1>3, <1>4, <1>5 DEF offers, Named, Ok
<1> QED BY <1>6 DEF Abridged, Ok

LEMMA MempoolIsTaken ==
  ASSUME NEW served \in (SUBSET {1, 2}) \ {{}}
  PROVE  call_probing([i \in 1..2 |-> IF i \in served THEN Result("ids") ELSE Failed(MethodNotFound)]) = Ok("ids")
<1> DEFINE answered == [i \in 1..2 |-> IF i \in served THEN Result("ids") ELSE Failed(MethodNotFound)]
           settled == {i \in DOMAIN answered : answered[i] # Failed(MethodNotFound)}
<1>1. Result("ids") # Failed(MethodNotFound)
  BY DEF Result, Failed
<1>2. settled = served
  <2>1. DOMAIN answered = {1, 2} /\ \A i \in {1, 2} : answered[i] = IF i \in served THEN Result("ids") ELSE Failed(MethodNotFound)
    OBVIOUS
  <2>2. served \subseteq {1, 2}
    OBVIOUS
  <2> HIDE DEF answered
  <2> QED BY <1>1, <2>1, <2>2
<1> HIDE DEF settled
<1>3. PICK k \in served : \A j \in served : k \leq j
  <2>1. CASE 1 \in served
    <3>1. \A j \in served : j \in {1, 2}
      OBVIOUS
    <3> QED BY <2>1, <3>1
  <2>2. CASE 1 \notin served
    <3>1. served \subseteq {1, 2} /\ served # {}
      OBVIOUS
    <3>2. \A j \in served : j = 2
      BY <2>2, <3>1
    <3>3. 2 \in served
      BY <3>1, <3>2
    <3> QED BY <3>2, <3>3
  <2> QED BY <2>1, <2>2
<1>4. \A m \in served : answered[m] = Result("ids")
  <2>1. \A m \in served : m \in 1..2
    OBVIOUS
  <2> QED BY <2>1
<1>5. (CHOOSE i \in served : \A j \in served : i \leq j) \in served
  BY <1>3
<1>6. call_probing(answered) = result_of(answered[CHOOSE i \in settled : \A j \in settled : i \leq j])
  BY <1>2 DEF call_probing, settled
<1>7. call_probing(answered) = result_of(Result("ids"))
  <2> DEFINE m == CHOOSE i \in served : \A j \in served : i \leq j
  <2>1. call_probing(answered) = result_of(answered[m])
    BY <1>2, <1>6
  <2> HIDE DEF answered
  <2>2. answered[m] = Result("ids")
    BY <1>4, <1>5
  <2> QED BY <2>1, <2>2
<1> QED BY <1>7 DEF result_of, Result

-----------------------------------------------------------------------------
(***************************************************************************)
(* The invariant                                                           *)
(***************************************************************************)
AccountsTypeOK ==
  /\ ChainInv
  /\ seen \in [Nodes -> Nat] /\ \A n \in Nodes : seen[n] \leq Len(blocks)
  /\ faults \in Nat
  /\ history.height \in 0..Len(blocks) /\ balances.height \in 0..Len(blocks)

HistoryIsRight ==
  LET net(c, b) == IF c \in DOMAIN history.answer.value[b].net_currencies
                   THEN history.answer.value[b].net_currencies[c] ELSE 0
  IN history.answer.ok => \A b \in 1..history.height :
       IF b \in DOMAIN history.answer.value
       THEN /\ history.answer.value[b].net_native = Effect(b, Native)
            /\ \A c \in Tokens : net(c, b) = Effect(b, c)
       ELSE \A c \in Tokens \cup {Native} : Effect(b, c) = 0

BalancesAreRight ==
  LET total(c) == SumFunction([b \in 1..balances.height |-> Effect(b, c)])
      held(c) == IF c \in DOMAIN balances.answer.value.tokens
                 THEN balances.answer.value.tokens[c] ELSE 0
  IN balances.answer.ok =>
       /\ balances.answer.value.satoshis = total(Native)
       /\ held(Native) = 0
       /\ \A c \in Tokens : held(c) = total(c)

Uncountable(h) ==
  \E p \in Owned(OutpointsTo(h)) :
    OutputAt(p).kind = "opaque" \/ Cardinality(OutputAt(p).owners \cap asking) > 1

MoneyInv ==
  /\ HistoryIsRight /\ BalancesAreRight
  /\ faults = 0 => history.answer.ok \/ history = Unread
  /\ faults = 0 => balances.answer.ok \/ balances = Unread \/ Uncountable(balances.height)

\* Between its two steps a lookup has one node's answer.
LookupInv ==
  /\ lookup = [step |-> lookup.step, first |-> lookup.first, outcome |-> lookup.outcome, said |-> lookup.said]
  /\ lookup.outcome = Ok(Absent) => Failed(NotFound) \in lookup.said
  /\ lookup.step = 1 => \E r \in AnyAnswer :
       /\ lookup.first = result_of(r) /\ r \in lookup.said
       /\ faults = 0 => r \in HonestAnswers
  /\ faults = 0 /\ lookup.step = 2 => lookup.outcome.ok

AccountsInv == AccountsTypeOK /\ MoneyInv /\ LookupInv

-----------------------------------------------------------------------------
LEMMA BooksStay ==
  ASSUME ChainInv, asking' = asking, blocks' = blocks \/ \E x : blocks' = Append(blocks, x)
  PROVE  /\ \A b \in 1..Len(blocks) : blocks'[b] = blocks[b]
         /\ \A h \in 0..Len(blocks) : \A p \in OutpointsTo(h) : OutputAt(p)' = OutputAt(p)
         /\ \A h \in 0..Len(blocks) : OutpointsTo(h)' = OutpointsTo(h)
         /\ \A h \in 0..Len(blocks) : Uncountable(h)' = Uncountable(h)
         /\ \A b \in 1..Len(blocks) : \A c : Effect(b, c)' = Effect(b, c)
<1>0. Len(blocks) \in Nat
  BY BlocksAre
<1>1. ASSUME NEW b \in 1..Len(blocks) PROVE blocks'[b] = blocks[b]
  <2>1. ASSUME NEW x PROVE Append(blocks, x)[b] = blocks[b]
    <3>1. blocks \in Seq(BlockSet \cup {x})
      BY DEF ChainInv
    <3> QED BY <3>1, AppendProperties
  <2> QED BY <2>1
<1>2. ASSUME NEW h \in 0..Len(blocks), NEW p \in OutpointsTo(h) PROVE OutputAt(p)' = OutputAt(p)
  <2>1. p[1] \in 1..Len(blocks)
    BY <1>0, PointsAre
  <2> QED BY <1>1, <2>1 DEF OutputAt
<1>3. ASSUME NEW h \in 0..Len(blocks) PROVE OutpointsTo(h)' = OutpointsTo(h)
  <2>1. \A b \in 1..h : blocks'[b] = blocks[b]
    BY <1>0, <1>1
  <2> QED BY <2>1 DEF OutpointsTo
<1>4. ASSUME NEW h \in 0..Len(blocks), NEW S, S \subseteq OutpointsTo(h) PROVE Owned(S)' = Owned(S)
  <2>1. \A p \in S : OutputAt(p)' = OutputAt(p)
    BY <1>2, <1>4
  <2> QED BY <2>1 DEF Owned
<1>5. ASSUME NEW h \in 0..Len(blocks) PROVE Uncountable(h)' = Uncountable(h)
  <2> DEFINE S == OutpointsTo(h)
  <2>1. \A p \in S : OutputAt(p)' = OutputAt(p)
    BY <1>2
  <2>2. S' = S
    BY <1>3
  <2>3. \A p \in Owned(S) : p \in S
    BY DEF Owned
  <2>4. Owned(S)' = Owned(S)
    BY <2>1, <2>2 DEF Owned
  <2> QED BY <2>1, <2>3, <2>4 DEF Uncountable
<1>6. ASSUME NEW b \in 1..Len(blocks), NEW c PROVE Effect(b, c)' = Effect(b, c)
  <2>0. b \in 0..Len(blocks) /\ b \in 1..b
    BY <1>0
  <2>1. blocks[b].spends \subseteq OutpointsTo(b) /\ {<<b, o>> : o \in DOMAIN blocks[b].outputs} \subseteq OutpointsTo(b)
    BY <2>0, SpendsAre, PointsAre
  <2>2. blocks'[b] = blocks[b]
    BY <1>1
  <2>3. \A p \in OutpointsTo(b) : OutputAt(p)' = OutputAt(p)
    BY <1>2, <2>0
  <2>4. Created(b)' = Created(b) /\ Created(b) \subseteq OutpointsTo(b)
    BY <2>1, <2>2, <2>3 DEF Created, Owned
  <2>5. Owned(blocks[b].spends)' = Owned(blocks[b].spends) /\ Owned(blocks[b].spends) \subseteq OutpointsTo(b)
    BY <2>1, <2>2, <2>3 DEF Owned
  <2>6. Worth(Created(b), c)' = Worth(Created(b), c)
    BY <2>3, <2>4 DEF Worth
  <2>7. Worth(Owned(blocks[b].spends), c)' = Worth(Owned(blocks[b].spends), c)
    BY <2>3, <2>5 DEF Worth
  <2> QED BY <2>6, <2>7 DEF Effect
<1> QED BY <1>1, <1>2, <1>3, <1>5, <1>6

LEMMA MoneyStays ==
  ASSUME AccountsTypeOK, MoneyInv,
         asking' = asking, blocks' = blocks \/ \E x : blocks' = Append(blocks, x),
         history' = history, balances' = balances, faults' = 0 => faults = 0
  PROVE  MoneyInv'
<1>0. ChainInv /\ Len(blocks) \in Nat /\ history.height \in 0..Len(blocks) /\ balances.height \in 0..Len(blocks)
  BY BlocksAre DEF AccountsTypeOK
<1>1. /\ \A h \in 0..Len(blocks) : Uncountable(h)' = Uncountable(h)
      /\ \A b \in 1..Len(blocks) : \A c : Effect(b, c)' = Effect(b, c)
  BY <1>0, BooksStay
<1>2. HistoryIsRight'
  <2>1. \A b \in 1..history.height : \A c : Effect(b, c)' = Effect(b, c)
    BY <1>0, <1>1
  <2> QED BY <2>1 DEF MoneyInv, HistoryIsRight
<1>3. BalancesAreRight'
  <2>1. \A c : \A b \in 1..balances.height : Effect(b, c)' = Effect(b, c)
    BY <1>0, <1>1
  <2>2. ASSUME NEW c PROVE [b \in 1..balances.height |-> Effect(b, c)]' = [b \in 1..balances.height |-> Effect(b, c)]
    BY <2>1
  <2> QED BY <2>2 DEF MoneyInv, BalancesAreRight
<1>4. Uncountable(balances.height)' = Uncountable(balances.height)
  BY <1>0, <1>1
<1> QED BY <1>2, <1>3, <1>4 DEF MoneyInv

LEMMA InvariantStarts == AccountsInit => AccountsInv
<1> SUFFICES ASSUME AccountsInit PROVE AccountsInv
  OBVIOUS
<1>1. blocks = <<>> /\ Len(blocks) = 0 /\ 1..Len(blocks) = {}
  BY DEF AccountsInit
<1>2. ChainInv
  BY <1>1 DEF AccountsInit, ChainInv
<1>3. AccountsTypeOK
  BY <1>1, <1>2 DEF AccountsInit, AccountsTypeOK, Unread
<1>4. MoneyInv
  BY DEF AccountsInit, MoneyInv, HistoryIsRight, BalancesAreRight, Unread, Silence, Err
<1>5. LookupInv
  <2>1. Silence # Ok(Absent)
    BY OkIsNotErr DEF Silence
  <2> QED BY <2>1 DEF AccountsInit, LookupInv, Unasked
<1> QED BY <1>3, <1>4, <1>5 DEF AccountsInv

\* A new block: what it spends was not spent.
LEMMA ABlockIsMined == AccountsInv /\ MineBlock => AccountsInv'
<1> SUFFICES ASSUME AccountsInv, MineBlock PROVE AccountsInv'
  OBVIOUS
<1>0. /\ ChainInv /\ Len(blocks) \in Nat
      /\ UNCHANGED <<seen, asking, history, balances, lookup, faults>>
  BY BlocksAre DEF AccountsInv, AccountsTypeOK, MineBlock
<1>1. PICK outputs \in Outputs \cup {<<>>}, registers \in BOOLEAN,
           spends \in SUBSET {p \in OutpointsTo(Len(blocks)) : ~SpentAt(p, Len(blocks))} :
        blocks' = Append(blocks, [outputs |-> outputs, spends |-> spends, registers |-> registers])
  <2>1. \A outputs \in (IF AboutMoney THEN Outputs ELSE {<<>>}) : outputs \in Outputs \cup {<<>>}
    OBVIOUS
  <2>2. \A registers \in (IF AboutMoney THEN {FALSE} ELSE BOOLEAN) : registers \in BOOLEAN
    OBVIOUS
  <2> QED BY <2>1, <2>2 DEF MineBlock
<1> DEFINE x == [outputs |-> outputs, spends |-> spends, registers |-> registers]
           h == Len(blocks)
<1>2. x \in BlockSet
  <2>1. ASSUME NEW p \in spends PROVE p \in Nat \X Nat
    <3>1. p = <<p[1], p[2]>> /\ p[1] \in 1..h /\ p[2] \in DOMAIN blocks[p[1]].outputs
      BY <1>0, PointsAre
    <3>2. p[2] \in 1..Len(blocks[p[1]].outputs) /\ Len(blocks[p[1]].outputs) \in Nat
      BY <1>0, <3>1, BlocksAre
    <3> QED BY <1>0, <3>1, <3>2
  <2> QED BY <2>1 DEF BlockSet
<1>3. /\ blocks' \in Seq(BlockSet) /\ Len(blocks') = h + 1
      /\ blocks'[h + 1] = x /\ \A b \in 1..h : blocks'[b] = blocks[b]
  <2>1. blocks \in Seq(BlockSet) /\ blocks' = Append(blocks, x)
    BY <1>0, <1>1 DEF ChainInv
  <2> HIDE DEF x
  <2> QED BY <1>2, <2>1, AppendProperties
<1>4. \A b \in 0..h : OutpointsTo(b)' = OutpointsTo(b)
  BY <1>0, <1>1, BooksStay
<1>5. \A b \in 1..(h + 1) : b \in 1..h \/ b = h + 1
  BY <1>0
<1>6. spends \subseteq OutpointsTo(h) /\ \A b \in 1..h : spends \cap blocks[b].spends = {}
  BY DEF SpentAt
<1>7. x.spends = spends
  OBVIOUS
<1> HIDE DEF x
<1>8. ASSUME NEW b \in 1..Len(blocks') PROVE blocks'[b].spends \subseteq OutpointsTo(b - 1)'
  <2>1. CASE b \in 1..h
    <3>1. blocks[b].spends \subseteq OutpointsTo(b - 1) /\ b - 1 \in 0..h
      BY <1>0, <2>1 DEF ChainInv
    <3> QED BY <1>3, <1>4, <2>1, <3>1
  <2>2. CASE b = h + 1
    <3>1. b - 1 = h /\ h \in 0..h
      BY <1>0, <2>2
    <3>2. OutpointsTo(b - 1)' = OutpointsTo(h)
      <4>1. \A d \in 0..h : d = b - 1 => OutpointsTo(b - 1)' = OutpointsTo(d)
        BY <1>4
      <4> QED BY <3>1, <4>1
    <3> QED BY <1>3, <1>6, <1>7, <2>2, <3>2
  <2> QED BY <1>3, <1>5, <2>1, <2>2
<1>9. ASSUME NEW b \in 1..Len(blocks'), NEW c \in 1..Len(blocks'), b # c
      PROVE  blocks'[b].spends \cap blocks'[c].spends = {}
  <2>1. CASE b \in 1..h /\ c \in 1..h
    BY <1>0, <1>3, <1>9, <2>1 DEF ChainInv
  <2>2. CASE b = h + 1 /\ c \in 1..h
    BY <1>3, <1>6, <1>7, <2>2
  <2>3. CASE b \in 1..h /\ c = h + 1
    BY <1>3, <1>6, <1>7, <2>3
  <2> QED BY <1>3, <1>5, <1>9, <2>1, <2>2, <2>3
<1>10. ChainInv'
  BY <1>0, <1>3, <1>8, <1>9 DEF ChainInv
<1>11. AccountsTypeOK'
  BY <1>0, <1>3, <1>10 DEF AccountsInv, AccountsTypeOK
<1>12. MoneyInv'
  BY <1>0, <1>1, MoneyStays DEF AccountsInv
<1>13. LookupInv'
  BY <1>0 DEF AccountsInv, LookupInv
<1> QED BY <1>11, <1>12, <1>13 DEF AccountsInv

\* Nothing else touches the chain.
LEMMA TypeStays ==
  ASSUME AccountsTypeOK, UNCHANGED <<blocks, asking>>,
         seen' \in [Nodes -> Nat], \A n \in Nodes : seen'[n] \leq Len(blocks),
         faults' \in Nat, history'.height \in 0..Len(blocks), balances'.height \in 0..Len(blocks)
  PROVE  AccountsTypeOK'
<1>1. ChainInv'
  <2>1. \A h : OutpointsTo(h)' = OutpointsTo(h)
    BY DEF OutpointsTo
  <2> QED BY <2>1 DEF AccountsTypeOK, ChainInv
<1> QED BY <1>1 DEF AccountsTypeOK

LEMMA ANodeCatchesUp == ASSUME AccountsInv, NEW n \in Nodes, CatchUp(n) PROVE AccountsInv'
<1>0. /\ ChainInv /\ Len(blocks) \in Nat /\ AccountsTypeOK
      /\ seen \in [Nodes -> Nat] /\ \A m \in Nodes : seen[m] \leq Len(blocks)
      /\ UNCHANGED <<blocks, asking, history, balances, lookup, faults>>
      /\ seen[n] < Len(blocks) /\ seen' = [seen EXCEPT ![n] = @ + 1]
  BY BlocksAre DEF AccountsInv, AccountsTypeOK, CatchUp
<1>1. seen' \in [Nodes -> Nat] /\ \A m \in Nodes : seen'[m] \leq Len(blocks)
  BY <1>0
<1>2. AccountsTypeOK'
  BY <1>0, <1>1, TypeStays DEF AccountsTypeOK
<1>3. MoneyInv'
  BY <1>0, MoneyStays DEF AccountsInv
<1>4. LookupInv'
  BY <1>0 DEF AccountsInv, LookupInv
<1> QED BY <1>2, <1>3, <1>4 DEF AccountsInv

LEMMA TakenOnce ==
  ASSUME NEW answer, NEW addresses, NEW id, Checked(answer, addresses, id).ok
  PROVE  refuse_repeats(Checked(answer, addresses, id).value, id)
BY DEF Checked, Err

LEMMA AHistoryIsRead == AccountsInv /\ ReadHistory => AccountsInv'
<1> SUFFICES ASSUME AccountsInv, ReadHistory PROVE AccountsInv'
  OBVIOUS
<1> DEFINE h == seen["primary"]
           list == DeltaRows(h)
<1>0. /\ ChainInv /\ AccountsTypeOK /\ Len(blocks) \in Nat /\ faults \in Nat /\ h \in 0..Len(blocks)
      /\ UNCHANGED <<blocks, seen, asking, balances, lookup>>
  BY BlocksAre DEF AccountsInv, AccountsTypeOK, ReadHistory, Nodes
<1>1. PICK r \in Replies(list) :
        LET rows == address_deltas(r.reply, asking) IN
        /\ faults' = faults + r.cost
        /\ history' = [height |-> h, answer |-> IF rows.ok THEN Ok(fold_history(rows.value)) ELSE rows]
  BY DEF ReadHistory
<1> DEFINE rows == address_deltas(r.reply, asking)
           value == fold_history(list)
<1>2. /\ rows.ok \in BOOLEAN
      /\ rows.ok => rows.value = list
      /\ r.cost \in {0, 1}
      /\ r.cost = 0 => r.reply = Result(list)
  <2>1. PICK S : list \in Seq(S) /\ \A x \in S : {"address", "missing", "illegible"} \subseteq DOMAIN x
    BY <1>0, RowsCanBeRead
  <2>2. {"satoshis", "txid"} \subseteq RawAddressDelta.required
    BY DEF RawAddressDelta, Shape
  <2>3. rows = Checked(Rows(result_of(r.reply), RawAddressDelta), asking, "movement")
    BY DEF address_deltas
  <2> HIDE DEF rows, list
  <2> QED BY <1>0, <2>1, <2>2, <2>3, OnlyTheListIsTaken
<1>3. r.cost = 0 => rows.ok
  BY <1>0, <1>2, HonestHistoryIsTaken
<1>4. history'.height = h /\ history'.answer = IF rows.ok THEN Ok(value) ELSE rows
  <2> HIDE DEF list
  <2> QED BY <1>1, <1>2
<1>5. faults' = faults + r.cost
  BY <1>1
<1>6. faults' \in Nat /\ (faults' = 0 => faults = 0 /\ r.cost = 0)
  <2> HIDE DEF list
  <2> QED BY <1>0, <1>2, <1>5
<1>7. AccountsTypeOK'
  <2> HIDE DEF list, rows, value
  <2> QED BY <1>0, <1>4, <1>6, TypeStays DEF AccountsTypeOK
<1>8. /\ \A k \in 0..Len(blocks) : Uncountable(k)' = Uncountable(k)
      /\ \A b \in 1..Len(blocks) : \A c : Effect(b, c)' = Effect(b, c)
  BY <1>0, BooksStay
<1>9. HistoryIsRight'
  <2>1. SUFFICES ASSUME history'.answer.ok PROVE HistoryIsRight'
    BY DEF HistoryIsRight
  <2>2. rows.ok /\ history'.answer.value = value
    <3> HIDE DEF rows, value
    <3> QED BY <1>2, <1>4, <2>1, OkIsNotErr
  <2> DEFINE net(c, b) == IF c \in DOMAIN value[b].net_currencies THEN value[b].net_currencies[c] ELSE 0
  <2>3. ASSUME NEW b \in 1..h
        PROVE  IF b \in DOMAIN value
               THEN value[b].net_native = Effect(b, Native) /\ \A c \in Tokens : net(c, b) = Effect(b, c)
               ELSE \A c \in Tokens \cup {Native} : Effect(b, c) = 0
    BY <1>0, HistoryIsFolded
  <2>4. \A b \in 1..h : \A c : Effect(b, c)' = Effect(b, c)
    BY <1>0, <1>8
  <2> HIDE DEF value, rows
  <2> QED BY <1>4, <2>2, <2>3, <2>4 DEF HistoryIsRight
<1>10. BalancesAreRight'
  <2>1. \A c : \A b \in 1..balances.height : Effect(b, c)' = Effect(b, c)
    BY <1>0, <1>8 DEF AccountsTypeOK
  <2>2. ASSUME NEW c PROVE [b \in 1..balances.height |-> Effect(b, c)]' = [b \in 1..balances.height |-> Effect(b, c)]
    BY <1>0, <2>1
  <2> QED BY <1>0, <2>2 DEF AccountsInv, MoneyInv, BalancesAreRight
<1>11. faults' = 0 => history'.answer.ok
  <2> HIDE DEF rows, value
  <2> QED BY <1>3, <1>4, <1>6, OkIsNotErr
<1>12. Uncountable(balances.height)' = Uncountable(balances.height)
  BY <1>0, <1>8 DEF AccountsTypeOK
<1>13. MoneyInv'
  <2> HIDE DEF rows, value, list
  <2> QED BY <1>0, <1>6, <1>9, <1>10, <1>11, <1>12 DEF AccountsInv, MoneyInv
<1>14. LookupInv'
  <2> HIDE DEF rows, value, list
  <2> QED BY <1>0, <1>6 DEF AccountsInv, LookupInv
<1> QED BY <1>7, <1>13, <1>14 DEF AccountsInv

LEMMA BalancesAreRead == AccountsInv /\ ReadBalances => AccountsInv'
<1> SUFFICES ASSUME AccountsInv, ReadBalances PROVE AccountsInv'
  OBVIOUS
<1> DEFINE h == seen["primary"]
           list == UtxoRows(h)
<1>0. /\ ChainInv /\ AccountsTypeOK /\ Len(blocks) \in Nat /\ faults \in Nat /\ h \in 0..Len(blocks)
      /\ UNCHANGED <<blocks, seen, asking, history, lookup>>
  BY BlocksAre DEF AccountsInv, AccountsTypeOK, ReadBalances, Nodes
<1>1. PICK r \in Replies(list) :
        LET rows == address_utxos(r.reply, asking) IN
        /\ faults' = faults + r.cost
        /\ balances' = [height |-> h,
             answer |-> IF ~rows.ok THEN rows
                        ELSE IF ~Countable(rows.value) THEN Err(Node(NotANodeError))
                        ELSE Ok([satoshis |-> SumFunction([i \in DOMAIN rows.value |-> rows.value[i].satoshis]),
                                 tokens |-> token_balances(rows.value)])]
  BY DEF ReadBalances
<1> DEFINE rows == address_utxos(r.reply, asking)
           sum == SumFunction([i \in DOMAIN list |-> list[i].satoshis])
           tokens == token_balances(list)
<1>2. /\ rows.ok \in BOOLEAN
      /\ rows.ok => rows.value = list
      /\ r.cost \in {0, 1}
      /\ r.cost = 0 => r.reply = Result(list)
  <2>1. PICK S : list \in Seq(S) /\ \A x \in S : {"address", "missing", "illegible"} \subseteq DOMAIN x
    BY <1>0, RowsCanBeRead
  <2>2. {"satoshis", "txid"} \subseteq RawAddressUtxo.required
    BY DEF RawAddressUtxo, Shape
  <2>3. rows = Checked(Rows(result_of(r.reply), RawAddressUtxo), asking, "outpoint")
    BY DEF address_utxos
  <2> HIDE DEF rows, list
  <2> QED BY <1>0, <2>1, <2>2, <2>3, OnlyTheListIsTaken
<1>3. rows.ok => refuse_repeats(list, "outpoint")
  <2>1. rows = Checked(Rows(result_of(r.reply), RawAddressUtxo), asking, "outpoint")
    BY DEF address_utxos
  <2> HIDE DEF rows, list
  <2> QED BY <1>2, <2>1, TakenOnce
<1>4. /\ balances'.height = h
      /\ balances'.answer = IF ~rows.ok THEN rows
                            ELSE IF ~Countable(list) THEN Err(Node(NotANodeError))
                            ELSE Ok([satoshis |-> sum, tokens |-> tokens])
  <2> HIDE DEF list
  <2> QED BY <1>1, <1>2
<1>5. faults' = faults + r.cost
  BY <1>1
<1>6. faults' \in Nat /\ (faults' = 0 => faults = 0 /\ r.cost = 0)
  <2> HIDE DEF list
  <2> QED BY <1>0, <1>2, <1>5
<1>7. AccountsTypeOK'
  <2> HIDE DEF list, rows, sum, tokens
  <2> QED BY <1>0, <1>4, <1>6, TypeStays DEF AccountsTypeOK
<1>8. /\ \A k \in 0..Len(blocks) : Uncountable(k)' = Uncountable(k)
      /\ \A b \in 1..Len(blocks) : \A c : Effect(b, c)' = Effect(b, c)
  BY <1>0, BooksStay
<1>9. HistoryIsRight'
  <2>1. \A b \in 1..history.height : \A c : Effect(b, c)' = Effect(b, c)
    BY <1>0, <1>8 DEF AccountsTypeOK
  <2> QED BY <1>0, <2>1 DEF AccountsInv, MoneyInv, HistoryIsRight
<1>10. BalancesAreRight'
  <2>1. SUFFICES ASSUME balances'.answer.ok PROVE BalancesAreRight'
    BY DEF BalancesAreRight
  <2>2. rows.ok /\ Countable(list) /\ balances'.answer.value = [satoshis |-> sum, tokens |-> tokens]
    <3> HIDE DEF rows, sum, tokens, list
    <3> QED BY <1>2, <1>4, <2>1, OkIsNotErr
  <2> DEFINE held(c) == IF c \in DOMAIN tokens THEN tokens[c] ELSE 0
             total(c) == SumFunction([b \in 1..h |-> Effect(b, c)])
  <2>3. sum = total(Native) /\ held(Native) = 0 /\ \A c \in Tokens : held(c) = total(c)
    <3>1. refuse_repeats(list, "outpoint") /\ Countable(list)
      BY <1>3, <2>2
    <3> QED BY <1>0, <3>1, BalancesAreCounted
  <2>4. \A c : \A b \in 1..h : Effect(b, c)' = Effect(b, c)
    BY <1>0, <1>8
  <2>5. balances'.height = h /\ balances'.answer.value.satoshis = sum /\ balances'.answer.value.tokens = tokens
    <3> HIDE DEF sum, tokens, list
    <3> QED BY <1>4, <2>2
  <2>6. ASSUME NEW c PROVE [b \in 1..balances.height |-> Effect(b, c)]' = [b \in 1..h |-> Effect(b, c)]
    <3>1. h' = h
      BY <1>0
    <3> HIDE DEF h
    <3> QED BY <2>4, <2>5, <3>1
  <2> HIDE DEF sum, tokens, list, rows, h
  <2> QED BY <2>3, <2>5, <2>6 DEF BalancesAreRight
<1>11. faults' = 0 => balances'.answer.ok \/ Uncountable(h)
  <2> SUFFICES ASSUME faults' = 0 PROVE balances'.answer.ok \/ Uncountable(h)
    OBVIOUS
  <2>1. rows = address_utxos(Result(list), asking)
    BY <1>2, <1>6
  <2>2. CASE ~rows.ok
    BY <1>0, <2>1, <2>2, HonestBalanceIsTaken DEF Uncountable
  <2>3. CASE rows.ok /\ ~Countable(list)
    <3>1. PICK i \in DOMAIN list : OutputAt(list[i].outpoint).kind = "opaque"
      BY <2>3 DEF Countable
    <3>2. IsRow(list[i], h, FALSE)
      BY <1>0, UtxosAre
    <3>3. list[i].outpoint \in OutpointsTo(h) /\ list[i].outpoint \in Moved(list[i].transaction, FALSE)
      <4> HIDE DEF list
      <4> QED BY <1>0, <3>2, RowSays
    <3>4. list[i].outpoint \in Owned(OutpointsTo(h))
      BY <3>3 DEF Moved, Created, Owned
    <3> QED BY <3>1, <3>4 DEF Uncountable
  <2>4. CASE rows.ok /\ Countable(list)
    <3> HIDE DEF rows, list, sum, tokens
    <3> QED BY <1>4, <2>4, OkIsNotErr
  <2> QED BY <1>2, <2>2, <2>3, <2>4
<1>12. Uncountable(balances.height)' = Uncountable(h)
  <2>1. \A k \in 0..Len(blocks) : k = balances'.height => Uncountable(balances.height)' = Uncountable(k)
    <3>1. ASSUME NEW k \in 0..Len(blocks), k = balances'.height PROVE Uncountable(balances.height)' = Uncountable(k)'
      BY <3>1 DEF Uncountable, OutpointsTo
    <3> QED BY <1>8, <3>1
  <2> HIDE DEF list, rows, sum, tokens
  <2> QED BY <1>0, <1>4, <2>1
<1>13. MoneyInv'
  <2> HIDE DEF rows, sum, tokens, list
  <2> QED BY <1>0, <1>6, <1>9, <1>10, <1>11, <1>12 DEF AccountsInv, MoneyInv
<1>14. LookupInv'
  <2> HIDE DEF rows, sum, tokens, list
  <2> QED BY <1>0, <1>6 DEF AccountsInv, LookupInv
<1> QED BY <1>7, <1>13, <1>14 DEF AccountsInv

\* The steps that ask about the identity leave the money alone.
LEMMA ALookupIsTaken ==
  ASSUME AccountsInv, UNCHANGED <<blocks, seen, asking, history, balances>>,
         faults' \in Nat, faults' = 0 => faults = 0, LookupInv'
  PROVE  AccountsInv'
<1>1. AccountsTypeOK /\ seen' \in [Nodes -> Nat] /\ \A n \in Nodes : seen'[n] \leq Len(blocks)
  BY DEF AccountsInv, AccountsTypeOK
<1>2. AccountsTypeOK'
  BY <1>1, TypeStays DEF AccountsTypeOK
<1>3. MoneyInv'
  BY <1>1, MoneyStays DEF AccountsInv
<1> QED BY <1>2, <1>3 DEF AccountsInv

\* A step that ends a lookup with an outcome that was said.
LEMMA AnOutcomeIsTaken ==
  ASSUME NEW first, NEW outcome, NEW said,
         lookup' = [step |-> 2, first |-> first, outcome |-> outcome, said |-> said],
         outcome = Ok(Absent) => Failed(NotFound) \in said,
         faults' = 0 => outcome.ok
  PROVE  LookupInv'
BY DEF LookupInv

LEMMA TheIdentityIsLookedUp ==
  AccountsInv /\ (AskPrimary \/ AskSecondary \/ AskConfirmations) => AccountsInv'
<1> SUFFICES ASSUME AccountsInv, AskPrimary \/ AskSecondary \/ AskConfirmations PROVE AccountsInv'
  OBVIOUS
<1>0. faults \in Nat
  BY DEF AccountsInv, AccountsTypeOK
<1>1. CASE AskPrimary
  <2>1. PICK r \in IdentityReplies("primary") :
          /\ faults' = faults + r.cost
          /\ lookup' = [step |-> 1, first |-> result_of(r.reply), outcome |-> Silence, said |-> {r.reply}]
    BY <1>1 DEF AskPrimary
  <2>2. /\ r.reply \in AnyAnswer
        /\ r.cost \in {0, 1}
        /\ r.cost = 0 => r.reply \in HonestAnswers
    BY IdentityRepliesAre
  <2>3. faults' \in Nat /\ (faults' = 0 => faults = 0 /\ r.cost = 0)
    BY <1>0, <2>1, <2>2
  <2>4. Silence # Ok(Absent)
    BY OkIsNotErr DEF Silence
  <2>5. LookupInv'
    BY <2>1, <2>2, <2>3, <2>4 DEF LookupInv
  <2> QED BY <1>1, <2>3, <2>5, ALookupIsTaken DEF AskPrimary
<1>2. CASE AskSecondary
  <2>1. PICK s \in IdentityReplies("secondary") :
          /\ faults' = faults + s.cost
          /\ lookup' = [lookup EXCEPT !.step = 2, !.said = @ \cup {s.reply},
                          !.outcome = absent_is_none(agreed(lookup.first, result_of(s.reply)))]
    BY <1>2 DEF AskSecondary
  <2>2. /\ s.reply \in AnyAnswer
        /\ s.cost \in {0, 1}
        /\ s.cost = 0 => s.reply \in HonestAnswers
    BY IdentityRepliesAre
  <2>3. faults' \in Nat /\ (faults' = 0 => faults = 0 /\ s.cost = 0)
    BY <1>0, <2>1, <2>2
  <2>4. PICK r \in AnyAnswer : /\ lookup.first = result_of(r) /\ r \in lookup.said
                               /\ faults = 0 => r \in HonestAnswers
    BY <1>2 DEF AccountsInv, LookupInv, AskSecondary
  <2> DEFINE outcome == absent_is_none(agreed(result_of(r), result_of(s.reply)))
             said == lookup.said \cup {s.reply}
             first == lookup.first
  <2>5. lookup' = [step |-> 2, first |-> first, outcome |-> outcome, said |-> said]
    <3>1. lookup = [step |-> lookup.step, first |-> lookup.first, outcome |-> lookup.outcome, said |-> lookup.said]
      BY DEF AccountsInv, LookupInv
    <3>2. lookup' = [lookup EXCEPT !.step = 2, !.said = said, !.outcome = outcome]
      BY <2>1, <2>4
    <3> HIDE DEF outcome, said
    <3> QED BY <3>1, <3>2
  <2>6. /\ outcome = Ok(Absent) => Failed(NotFound) \in {r, s.reply}
        /\ r \in HonestAnswers /\ s.reply \in HonestAnswers => outcome.ok
    BY <2>2, <2>4, AgreedOnAbsence
  <2> HIDE DEF outcome
  <2>7. LookupInv'
    BY <2>2, <2>3, <2>4, <2>5, <2>6, AnOutcomeIsTaken
  <2> QED BY <1>2, <2>3, <2>7, ALookupIsTaken DEF AskSecondary
<1>3. CASE AskConfirmations
  <2>1. PICK r \in IdentityReplies("primary") :
          LET answer == result_of(r.reply) IN
          /\ faults' = faults + r.cost
          /\ lookup' = [step |-> 2, first |-> answer, said |-> {r.reply},
               outcome |-> confirmations(IF answer.ok THEN Ok([confirmations |-> "some"]) ELSE answer)]
    BY <1>3 DEF AskConfirmations
  <2>2. /\ r.reply \in AnyAnswer
        /\ r.cost \in {0, 1}
        /\ r.cost = 0 => r.reply \in HonestAnswers
    BY IdentityRepliesAre
  <2>3. faults' \in Nat /\ (faults' = 0 => faults = 0 /\ r.cost = 0)
    BY <1>0, <2>1, <2>2
  <2> DEFINE answer == result_of(r.reply)
             outcome == confirmations(IF answer.ok THEN Ok([confirmations |-> "some"]) ELSE answer)
  <2>4. lookup' = [step |-> 2, first |-> answer, outcome |-> outcome, said |-> {r.reply}]
    BY <2>1
  <2>5. /\ outcome = Ok(Absent) => Failed(NotFound) = r.reply
        /\ r.reply \in HonestAnswers => outcome.ok
    BY <2>2, ConfirmationsOnAbsence
  <2> HIDE DEF outcome, answer
  <2>6. LookupInv'
    BY <2>2, <2>3, <2>4, <2>5, AnOutcomeIsTaken
  <2> QED BY <1>3, <2>3, <2>6, ALookupIsTaken DEF AskConfirmations
<1> QED BY <1>1, <1>2, <1>3

LEMMA AThingIsAskedFor == AccountsInv /\ AskThing => AccountsInv'
<1> SUFFICES ASSUME AccountsInv, AskThing PROVE AccountsInv'
  OBVIOUS
<1>0. faults \in Nat
  BY DEF AccountsInv, AccountsTypeOK
<1>1. PICK shape \in Things :
      \E lacking, illegible \in {{}} \cup {{f} : f \in shape.required \cup shape.optional \cup {"other"}} :
       LET reply == Result([missing |-> lacking, illegible |-> illegible])
           cost  == IF lacking \subseteq shape.optional \cup {"other"} /\ illegible \subseteq {"other"}
                    THEN 0 ELSE 1
       IN /\ faults' = faults + cost
          /\ lookup' = [step |-> 2, first |-> Silence, said |-> {},
                         outcome |-> Abridged(Typed(result_of(reply), shape))]
  BY DEF AskThing, Things
<1>2. PICK lacking, illegible :
       LET reply == Result([missing |-> lacking, illegible |-> illegible])
           cost  == IF lacking \subseteq shape.optional \cup {"other"} /\ illegible \subseteq {"other"}
                    THEN 0 ELSE 1
       IN /\ faults' = faults + cost
          /\ lookup' = [step |-> 2, first |-> Silence, said |-> {},
                         outcome |-> Abridged(Typed(result_of(reply), shape))]
  BY <1>1
<1> DEFINE cost == IF lacking \subseteq shape.optional \cup {"other"} /\ illegible \subseteq {"other"} THEN 0 ELSE 1
           outcome == Abridged(Typed(result_of(Result([missing |-> lacking, illegible |-> illegible])), shape))
<1>3. faults' = faults + cost
      /\ lookup' = [step |-> 2, first |-> Silence, outcome |-> outcome, said |-> {}]
  BY <1>2
<1>4. /\ outcome # Ok(Absent)
      /\ cost = 0 => outcome.ok
      /\ cost \in {0, 1}
  BY ThingsAreTaken
<1> HIDE DEF cost, outcome
<1>5. faults' \in Nat /\ (faults' = 0 => faults = 0 /\ cost = 0)
  BY <1>0, <1>3, <1>4
<1>6. LookupInv'
  BY <1>3, <1>4, <1>5, AnOutcomeIsTaken
<1> QED BY <1>5, <1>6, ALookupIsTaken DEF AskThing

LEMMA OffersAreAskedFor == AccountsInv /\ AskOffers => AccountsInv'
<1> SUFFICES ASSUME AccountsInv, AskOffers PROVE AccountsInv'
  OBVIOUS
<1>0. faults \in Nat
  BY DEF AccountsInv, AccountsTypeOK
<1> DEFINE identity(fault) == [has |-> {"identityid", "systemid"} \cup (IF fault = "no name" THEN {} ELSE {"name"}),
                               addresses |-> {}]
           paid(fault) == [has |-> IF fault = "no amount" THEN {} ELSE {"T"},
                           addresses |-> IF fault = "by name" THEN {} ELSE {"T"}]
           entry(fault) == [offer |-> identity(fault), accept |-> paid(fault), listed |-> 1, illegible |-> {},
                            missing |-> IF fault = "no price" THEN {"price"} ELSE {}]
           body(fault) == IF fault = "twice" THEN <<entry(fault), entry(fault)>> ELSE <<entry(fault)>>
           cost(fault) == IF fault = "none" THEN 0 ELSE 1
           outcome(fault) == Abridged(offers(Result(body(fault))))
<1>1. PICK fault : /\ faults' = faults + cost(fault)
                   /\ lookup' = [step |-> 2, first |-> Silence, outcome |-> outcome(fault), said |-> {}]
  BY DEF AskOffers
<1>2. fault = "none" => outcome(fault).ok
  <2>1. RawOfferSide(identity("none")) /\ RawOfferSide(paid("none"))
    BY DEF RawOfferSide
  <2>2. entry("none").missing = {} /\ entry("none").illegible = {}
        /\ entry("none").offer = identity("none") /\ entry("none").accept = paid("none")
    OBVIOUS
  <2>3. body("none") = <<entry("none")>>
    OBVIOUS
  <2> HIDE DEF identity, paid, entry, body
  <2>4. Abridged(offers(Result(<<entry("none")>>))).ok
    BY <2>1, <2>2, OfferIsTaken
  <2> QED BY <2>3, <2>4
<1>3. outcome(fault) # Ok(Absent)
  BY ListsAreNoAbsence
<1>4. faults' \in Nat /\ (faults' = 0 => faults = 0 /\ fault = "none")
  <2>1. cost(fault) \in {0, 1} /\ (cost(fault) = 0 => fault = "none")
    OBVIOUS
  <2>2. faults' = faults + cost(fault)
    BY <1>1
  <2> HIDE DEF cost
  <2> QED BY <1>0, <2>1, <2>2
<1> HIDE DEF outcome
<1>5. LookupInv'
  BY <1>1, <1>2, <1>3, <1>4, AnOutcomeIsTaken
<1> QED BY <1>4, <1>5, ALookupIsTaken DEF AskOffers

LEMMA ThePendingIsAskedFor == AccountsInv /\ AskPending => AccountsInv'
<1> SUFFICES ASSUME AccountsInv, AskPending PROVE AccountsInv'
  OBVIOUS
<1>0. faults \in Nat
  BY DEF AccountsInv, AccountsTypeOK
<1> DEFINE row(spending, spends, satoshis) ==
             [address |-> Stranger, movement |-> 1, spending |-> spending, spends |-> spends,
              satoshis |-> satoshis, missing |-> {}, illegible |-> {}]
           cost(spending, spends, satoshis) ==
             IF spending = (spends # {}) \/ (spending /\ satoshis = 0) THEN 0 ELSE 1
           outcome(spending, spends, satoshis) ==
             Abridged(address_mempool(Result(<<row(spending, spends, satoshis)>>), {Stranger}))
<1>1. PICK spending \in BOOLEAN, spends \in {{}, {"output"}}, satoshis \in {0, 1} :
        /\ faults' = faults + cost(spending, spends, satoshis)
        /\ lookup' = [step |-> 2, first |-> Silence, outcome |-> outcome(spending, spends, satoshis), said |-> {}]
  BY DEF AskPending
<1>2. outcome(spending, spends, satoshis) # Ok(Absent)
  BY ListsAreNoAbsence
<1>3. ASSUME cost(spending, spends, satoshis) = 0 PROVE outcome(spending, spends, satoshis).ok
  <2> DEFINE it == row(spending, spends, satoshis)
  <2>1. Consistent(it)
    BY <1>3 DEF Consistent
  <2>2. it.missing = {} /\ it.illegible = {} /\ it.address = Stranger
    OBVIOUS
  <2> HIDE DEF it
  <2>3. Abridged(address_mempool(Result(<<it>>), {Stranger})).ok
    BY <2>1, <2>2, PendingIsTaken
  <2> QED BY <2>3 DEF it
<1>4. cost(spending, spends, satoshis) \in {0, 1}
  OBVIOUS
<1> HIDE DEF cost, outcome
<1>5. faults' \in Nat /\ (faults' = 0 => faults = 0 /\ cost(spending, spends, satoshis) = 0)
  BY <1>0, <1>1, <1>4
<1>6. LookupInv'
  BY <1>1, <1>2, <1>3, <1>5, AnOutcomeIsTaken
<1> QED BY <1>5, <1>6, ALookupIsTaken DEF AskPending

LEMMA TheMempoolIsAskedFor == AccountsInv /\ AskMempool => AccountsInv'
<1> SUFFICES ASSUME AccountsInv, AskMempool PROVE AccountsInv'
  OBVIOUS
<1>1. faults \in Nat /\ faults' = faults
  BY DEF AccountsInv, AccountsTypeOK, AskMempool
<1>2. PICK served \in (SUBSET {1, 2}) \ {{}} :
        LET answered == [i \in 1..2 |-> IF i \in served THEN Result("ids") ELSE Failed(MethodNotFound)]
        IN lookup' = [step |-> 2, first |-> result_of(answered[1]), said |-> ToSet(answered),
                      outcome |-> call_probing(answered)]
  BY DEF AskMempool
<1> DEFINE answered == [i \in 1..2 |-> IF i \in served THEN Result("ids") ELSE Failed(MethodNotFound)]
           first == result_of(answered[1])
           said == ToSet(answered)
<1>3. lookup' = [step |-> 2, first |-> first, outcome |-> Ok("ids"), said |-> said]
  BY <1>2, MempoolIsTaken
<1>4. Ok("ids") # Ok(Absent) /\ Ok("ids").ok
  BY DEF Ok, Absent
<1> HIDE DEF first, said
<1>5. LookupInv'
  BY <1>3, <1>4, AnOutcomeIsTaken
<1> QED BY <1>1, <1>5, ALookupIsTaken DEF AskMempool

\* The wallet's variables keep their types, an output is spent once and after
\* it was created, what was read of the money is right, and a lookup between
\* its two steps holds one node's answer (history, token_balances, agreed).
THEOREM AccountsInvariant == AccountsSpec => []AccountsInv
<1>1. AccountsInit => AccountsInv
  BY InvariantStarts
<1>2. AccountsInv /\ [AccountsNext]_accounts_vars => AccountsInv'
  <2> SUFFICES ASSUME AccountsInv, [AccountsNext]_accounts_vars PROVE AccountsInv'
    OBVIOUS
  <2>1. CASE UNCHANGED accounts_vars
    <3>1. LookupInv' /\ faults' \in Nat /\ (faults' = 0 => faults = 0)
      BY <2>1 DEF accounts_vars, AccountsInv, AccountsTypeOK, LookupInv
    <3> QED BY <2>1, <3>1, ALookupIsTaken DEF accounts_vars
  <2>2. CASE MineBlock
    BY <2>2, ABlockIsMined
  <2>3. ASSUME NEW n \in Nodes, CatchUp(n) PROVE AccountsInv'
    BY <2>3, ANodeCatchesUp
  <2>4. CASE ReadHistory
    BY <2>4, AHistoryIsRead
  <2>5. CASE ReadBalances
    BY <2>5, BalancesAreRead
  <2>6. CASE AskPrimary \/ AskSecondary \/ AskConfirmations
    BY <2>6, TheIdentityIsLookedUp
  <2>7. CASE AskMempool
    BY <2>7, TheMempoolIsAskedFor
  <2>8. CASE AskThing
    BY <2>8, AThingIsAskedFor
  <2>9. CASE AskOffers
    BY <2>9, OffersAreAskedFor
  <2>10. CASE AskPending
    BY <2>10, ThePendingIsAskedFor
  <2> QED BY <2>1, <2>2, <2>3, <2>4, <2>5, <2>6, <2>7, <2>8, <2>9, <2>10 DEF AccountsNext
<1> QED BY <1>1, <1>2, PTL DEF AccountsSpec

\* Whatever blocks, addresses and faults, a history's entries are what each
\* block did to the wallet, and balances are the sum of it: nothing is counted
\* twice for being listed under two addresses or named in two places
\* (fold_history, token_balances).
THEOREM BooksAreRightAlways == AccountsSpec => []BooksAreRight
<1>1. AccountsInv => BooksAreRight
  BY DEF AccountsInv, MoneyInv, HistoryIsRight, BalancesAreRight, BooksAreRight
<1> QED BY <1>1, AccountsInvariant, PTL

\* An identity is taken to be absent only because a node said it is, and
\* without faults nothing honest nodes say is refused (absent_is_none, agreed,
\* call_probing, address_deltas).
THEOREM AbsenceWasSaidAlways == AccountsSpec => []AbsenceWasSaid
<1>1. AccountsInv => AbsenceWasSaid
  <2> SUFFICES ASSUME AccountsInv PROVE AbsenceWasSaid
    OBVIOUS
  <2>1. HonestAnswersAreTaken
    BY DEF AccountsInv, MoneyInv, LookupInv, Uncountable, HonestAnswersAreTaken
  <2> QED BY <2>1 DEF AccountsInv, LookupInv, AbsenceWasSaid
<1> QED BY <1>1, AccountsInvariant, PTL

-----------------------------------------------------------------------------
(***************************************************************************)
(* What can fund a transaction                                             *)
(***************************************************************************)
\* What a node says of outputs: money and what an identity pays with has no tokens.
AreCoins(found) ==
  /\ IsFiniteSet(found)
  /\ \A c \in found : /\ c.satoshis \in Nat /\ c.height \in Nat
                      /\ c.kind \in KeyKinds \cup IdentityKinds => c.tokens = {}

LEMMA SatsAreTotal ==
  ASSUME NEW S, AreCoins(S)
  PROVE  /\ [c \in S |-> c.satoshis] \in [S -> Int]
         /\ SatsOf(S) = SumOver([c \in S |-> c.satoshis], S) /\ SatsOf(S) \in Int
<1> DEFINE v == [c \in S |-> c.satoshis]
<1>1. v \in [S -> Int] /\ IsFiniteSet(S)
  BY DEF AreCoins
<1>2. SumFunction(v) = SumOver(v, S) /\ SumFunction(v) \in Int
  <2> HIDE DEF v
  <2> QED BY <1>1, SumFunctionIsTotal
<1> QED BY <1>1, <1>2 DEF SatsOf

LEMMA SatsOfParts ==
  ASSUME NEW S, AreCoins(S), NEW A \in SUBSET S
  PROVE  SatsOf(S) = SatsOf(A) + SatsOf(S \ A)
<1> DEFINE v == [c \in S |-> c.satoshis]
           va == [c \in A |-> c.satoshis]
           vb == [c \in S \ A |-> c.satoshis]
<1>1. AreCoins(A) /\ AreCoins(S \ A) /\ IsFiniteSet(S)
  BY FS_Subset DEF AreCoins
<1>2. /\ v \in [S -> Int] /\ SatsOf(S) = SumOver(v, S)
      /\ SatsOf(A) = SumOver(va, A) /\ SatsOf(S \ A) = SumOver(vb, S \ A)
  BY <1>1, SatsAreTotal
<1>3. va = [c \in A |-> v[c]] /\ vb = [c \in S \ A |-> v[c]]
  OBVIOUS
<1>4. SumOver(v, S) = SumOver([c \in A |-> v[c]], A) + SumOver([c \in S \ A |-> v[c]], S \ A)
  <2> HIDE DEF v
  <2> QED BY <1>1, <1>2, TotalOfParts
<1> HIDE DEF v, va, vb
<1> QED BY <1>2, <1>3, <1>4

LEMMA MatureIs ==
  ASSUME NEW found, AreCoins(found), NEW tip \in Nat, NEW c \in Mature(found, tip)
  PROVE  c \in found /\ c.is_spendable /\ ~Premature(c, tip)
<1>1. /\ c \in found /\ c.is_spendable
      /\ \/ c.height \notin probe_coinbase_heights(found, tip)
         \/ coin_confirmations(c, tip) >= COINBASE_MATURITY
  BY DEF Mature, spendable_at
<1>2. ASSUME Premature(c, tip) PROVE c.height \in probe_coinbase_heights(found, tip)
  BY <1>1, <1>2 DEF Premature, probe_coinbase_heights
<1>3. ASSUME Premature(c, tip) PROVE ~(coin_confirmations(c, tip) >= COINBASE_MATURITY)
  <2> QED BY <1>1, <1>3, AccountsAssumption DEF AreCoins, Premature, coin_confirmations
<1> QED BY <1>1, <1>2, <1>3

\* What `spendable`, `identity_held` and `identity_held_tokens` offer a builder
\* of any outputs can be spent in the next block, and is offered once.
THEOREM OffersAreSpendable ==
  ASSUME NEW found, AreCoins(found), NEW tip \in Nat, NEW served \in BOOLEAN, NEW identity, NEW currencies
  PROVE  OfferedIsSpendable(found, tip, served, identity, currencies)
<1> DEFINE spent  == best_effort_spent(found, served)
           money  == spendable(found, tip, served).utxos
           held   == identity_held(found, tip, served, identity)
           tokens(t) == identity_held_tokens(found, tip, served, identity, t)
<1>1. \A c \in money : c \in Mature(found, tip) \ spent /\ c.kind \in KeyKinds
  BY DEF spendable
<1>2. \A c \in held : c \in Mature(found, tip) \ spent /\ c.kind \in IdentityKinds /\ c.owner = identity
  BY DEF identity_held
<1>3. \A t \in currencies : \A c \in tokens(t) :
        c \in Mature(found, tip) \ spent /\ c.kind = "reserve" /\ c.owner = identity /\ c.tokens = {t}
  BY DEF identity_held_tokens, holds_only
<1>4. \A c \in Mature(found, tip) \ spent :
        c \in found /\ c.is_spendable /\ ~Premature(c, tip) /\ ~(served /\ c.pending /\ c.satoshis > 0)
  BY MatureIs DEF best_effort_spent, already_spent
<1>5. KeyKinds \cap IdentityKinds = {} /\ "reserve" \notin KeyKinds \cup IdentityKinds
  BY AccountsAssumption
<1>6. \A c \in found : c.kind \in KeyKinds \cup IdentityKinds => c.tokens = {}
  BY DEF AreCoins
<1> HIDE DEF spent, money, held, tokens
<1>7. \A c \in money \cup held \cup UNION {[s \in currencies |-> tokens(s)][t] : t \in currencies} :
        c.is_spendable /\ ~Premature(c, tip) /\ ~(served /\ c.pending /\ c.satoshis > 0)
  BY <1>1, <1>2, <1>3, <1>4
<1>8. \A t \in currencies : \A c \in [s \in currencies |-> tokens(s)][t] :
        c.owner = identity /\ c.tokens = {t} /\ c \notin money \cup held
  BY <1>1, <1>2, <1>3, <1>5
<1>9. /\ money \cap held = {} /\ \A c \in held : c.owner = identity /\ c.tokens = {}
      /\ \A c \in money : c.tokens = {}
  BY <1>1, <1>2, <1>4, <1>5, <1>6
<1> QED BY <1>7, <1>8, <1>9 DEF OfferedIsSpendable, money, held, tokens

\* `spendable` puts every output it was given in one of its lists, with sums
\* that add up, and holds back a coin only for itself or a coinbase of its block.
THEOREM CoinsAreListed ==
  ASSUME NEW found, AreCoins(found), NEW tip \in Nat, NEW served \in BOOLEAN
  PROVE  EveryCoinIsListed(found, tip, served)
<1> DEFINE f == spendable(found, tip, served)
           spent == best_effort_spent(found, served)
           mature == Mature(found, tip) \ spent
           other == {c \in mature : c.kind \notin KeyKinds}
           immature == found \ (spent \cup mature)
           lists == <<mature \ other, other, spent, immature>>
<1>1. /\ f.utxos = mature \ other /\ f.other = other /\ f.spent_unconfirmed = spent /\ f.immature = immature
      /\ f.total = SatsOf(mature \ other)
  BY DEF spendable
<1>2. spent \subseteq found /\ mature \subseteq found /\ spent \cap mature = {}
  BY MatureIs DEF best_effort_spent, already_spent
<1>3. other \subseteq mature
  OBVIOUS
<1>4. \A c \in immature : ~c.is_spendable \/ \E d \in found : Premature(d, tip) /\ d.height = c.height
  BY DEF Mature, spendable_at, probe_coinbase_heights, Premature
<1> HIDE DEF f, spent, mature, other
<1>5. UNION {lists[i] : i \in 1..4} = found
  <2>1. lists[1] = mature \ other /\ lists[2] = other /\ lists[3] = spent /\ lists[4] = immature
    OBVIOUS
  <2>2. 1..4 = {1, 2, 3, 4}
    OBVIOUS
  <2>3. UNION {lists[i] : i \in 1..4} = lists[1] \cup lists[2] \cup lists[3] \cup lists[4]
    <3> HIDE DEF lists
    <3> QED BY <2>2
  <2> HIDE DEF lists
  <2> QED BY <1>2, <1>3, <2>1, <2>3
<1>6. \A i, j \in 1..4 : i # j => lists[i] \cap lists[j] = {}
  BY <1>2, <1>3
<1>7. SatsOf(mature \ other) + SatsOf(immature) + SatsOf(spent) + SatsOf(other) = SatsOf(found)
  <2>1. AreCoins(mature) /\ AreCoins(found \ spent)
    <3>1. mature \in SUBSET found /\ found \ spent \in SUBSET found
      BY <1>2
    <3> QED BY <3>1, FS_Subset DEF AreCoins
  <2>2. SatsOf(found) = SatsOf(spent) + SatsOf(found \ spent)
    BY <1>2, SatsOfParts
  <2>3. SatsOf(found \ spent) = SatsOf(mature) + SatsOf((found \ spent) \ mature)
    <3>1. mature \in SUBSET (found \ spent)
      BY <1>2
    <3> QED BY <2>1, <3>1, SatsOfParts
  <2>4. SatsOf(mature) = SatsOf(other) + SatsOf(mature \ other)
    BY <1>3, <2>1, SatsOfParts
  <2>5. (found \ spent) \ mature = immature
    OBVIOUS
  <2>6. /\ SatsOf(spent) \in Int /\ SatsOf(immature) \in Int
        /\ SatsOf(other) \in Int /\ SatsOf(mature \ other) \in Int
    <3>1. /\ spent \in SUBSET found /\ immature \in SUBSET found
          /\ other \in SUBSET found /\ mature \ other \in SUBSET found
      BY <1>2, <1>3
    <3>2. AreCoins(spent) /\ AreCoins(immature) /\ AreCoins(other) /\ AreCoins(mature \ other)
      BY <3>1, FS_Subset DEF AreCoins
    <3> QED BY <3>2, SatsAreTotal
  <2>7. SatsOf((found \ spent) \ mature) = SatsOf(immature)
    BY <2>5
  <2> HIDE DEF immature
  <2>8. SatsOf(mature) \in Int
    BY <2>4, <2>6
  <2>9. SatsOf(found) = SatsOf(spent) + (SatsOf(mature) + SatsOf(immature))
    BY <2>2, <2>3, <2>7, Zenon
  <2> QED BY <2>4, <2>6, <2>8, <2>9
<1>8. require(f, f.total) /\ ~require(f, f.total + 1)
  <2>1. AreCoins(mature \ other)
    <3>1. mature \ other \in SUBSET found
      BY <1>2
    <3> QED BY <3>1, FS_Subset DEF AreCoins
  <2>2. f.total \in Int
    BY <1>1, <2>1, SatsAreTotal
  <2> QED BY <2>2 DEF require
<1> HIDE DEF immature
<1>9. f.total + immature_total(f) + spent_unconfirmed_total(f) + SatsOf(f.other) = SatsOf(found)
  BY <1>1, <1>7 DEF immature_total, spent_unconfirmed_total
<1>10. lists = <<f.utxos, f.other, f.spent_unconfirmed, f.immature>>
  BY <1>1
<1>11. \A c \in f.immature : ~c.is_spendable \/ \E d \in found : Premature(d, tip) /\ d.height = c.height
  BY <1>1, <1>4
<1> HIDE DEF lists
<1> QED BY <1>5, <1>6, <1>8, <1>9, <1>10, <1>11 DEF EveryCoinIsListed, f

-----------------------------------------------------------------------------
(***************************************************************************)
(* Shielded spends                                                         *)
(***************************************************************************)
\* What can be added up.
Valued(X) == \A x \in X : x.value \in Nat

Worths(list) == [i \in 1..Len(list) |-> list[i].value]

LEMMA WorthsType ==
  ASSUME NEW X, Valued(X), NEW s \in Seq(X)
  PROVE  /\ Len(s) \in Nat /\ DOMAIN s = 1..Len(s) /\ IsFiniteSet(1..Len(s))
         /\ \A i \in 1..Len(s) : s[i] \in X /\ s[i].value \in Nat
         /\ Worths(s) \in [1..Len(s) -> Nat] /\ Worths(s) \in [1..Len(s) -> Int]
<1>1. Len(s) \in Nat /\ DOMAIN s = 1..Len(s)
  BY LenProperties
<1>2. IsFiniteSet(1..Len(s))
  <2> DEFINE n == Len(s)
  <2>1. n \in Int /\ 1 \in Int
    BY <1>1
  <2> HIDE DEF n
  <2>2. IsFiniteSet(1..n)
    BY <2>1, FS_Interval
  <2> QED BY <2>2 DEF n
<1>3. \A i \in 1..Len(s) : s[i] \in X
  BY ElementOfSeq
<1>4. \A i \in 1..Len(s) : s[i].value \in Nat
  BY <1>3 DEF Valued
<1> QED BY <1>1, <1>2, <1>3, <1>4 DEF Worths

LEMMA WorthIs ==
  ASSUME NEW X, Valued(X), NEW s \in Seq(X)
  PROVE  TotalOf(s) = SumOver(Worths(s), 1..Len(s)) /\ TotalOf(s) \in Nat
<1>1. TotalOf(s) = SumFunction(Worths(s))
  BY WorthsType DEF TotalOf, Worths
<1>2. SumFunction(Worths(s)) = SumOver(Worths(s), 1..Len(s))
  BY WorthsType, SumFunctionIsTotal
<1>3. SumOver(Worths(s), 1..Len(s)) \in Nat
  BY WorthsType, TotalOfNaturals
<1> QED BY <1>1, <1>2, <1>3

\* Lists that are worth the same place by place are worth the same.
LEMMA WorthOfEqual ==
  ASSUME NEW s, NEW t, DOMAIN s = DOMAIN t, \A i \in DOMAIN s : s[i].value = t[i].value
  PROVE  TotalOf(s) = TotalOf(t)
<1>1. [i \in DOMAIN s |-> s[i].value] = [i \in DOMAIN t |-> t[i].value]
  OBVIOUS
<1> QED BY <1>1 DEF TotalOf

LEMMA WorthOfNone == TotalOf(<<>>) = 0
<1>1. <<>> \in Seq({}) /\ Valued({}) /\ Len(<<>>) = 0
  BY EmptySeq DEF Valued
<1>2. TotalOf(<<>>) = SumOver(Worths(<<>>), 1..0)
  BY <1>1, WorthIs
<1>3. 1..0 = {}
  OBVIOUS
<1> QED BY <1>2, <1>3, TotalOfNothing

LEMMA WorthOfOne ==
  ASSUME NEW x, x.value \in Nat
  PROVE  TotalOf(<<x>>) = x.value
<1>1. <<x>> \in Seq({x}) /\ Len(<<x>>) = 1 /\ Valued({x})
  BY DEF Valued
<1> DEFINE v == Worths(<<x>>)
<1>2. v[1] = x.value
  BY <1>1 DEF Worths
<1>3. TotalOf(<<x>>) = SumOver(v, 1..1) /\ IsFiniteSet(1..1) /\ v \in [1..1 -> Int]
  <2>1. /\ TotalOf(<<x>>) = SumOver(v, 1..Len(<<x>>)) /\ IsFiniteSet(1..Len(<<x>>))
        /\ v \in [1..Len(<<x>>) -> Int]
    BY <1>1, WorthIs, WorthsType
  <2> QED BY <1>1, <2>1
<1>4. 1 \in 1..1 /\ (1..1) \ {1} = {}
  OBVIOUS
<1>5. SumOver(v, 1..1) = v[1] + SumOver([y \in (1..1) \ {1} |-> v[y]], (1..1) \ {1})
  <2> HIDE DEF v
  <2> QED BY <1>3, <1>4, TotalOfOneMore
<1>6. SumOver([y \in (1..1) \ {1} |-> v[y]], (1..1) \ {1}) = 0
  BY <1>4, TotalOfNothing
<1>7. v[1] \in Int
  BY <1>3, <1>4
<1> HIDE DEF v
<1> QED BY <1>2, <1>3, <1>5, <1>6, <1>7

\* One more at the end adds what it is worth.
LEMMA WorthOfOneMore ==
  ASSUME NEW X, Valued(X), NEW s \in Seq(X), NEW x \in X
  PROVE  TotalOf(s \o <<x>>) = TotalOf(s) + x.value
<1> DEFINE n == Len(s)
           t == s \o <<x>>
           v == Worths(t)
           D == 1..(n + 1)
           u == [y \in D \ {n + 1} |-> v[y]]
<1>1. n \in Nat /\ t \in Seq(X) /\ Len(t) = n + 1 /\ x.value \in Nat
      /\ \A i \in D : t[i] = IF i \leq n THEN s[i] ELSE x
  <2>1. <<x>> \in Seq(X) /\ Len(<<x>>) = 1 /\ <<x>>[1] = x
    OBVIOUS
  <2>2. n \in Nat
    BY LenProperties
  <2>3. t \in Seq(X) /\ Len(t) = n + 1 /\ \A i \in D : t[i] = IF i \leq n THEN s[i] ELSE <<x>>[i - n]
    BY <2>1, ConcatProperties
  <2>4. \A i \in D : i \leq n \/ i - n = 1
    BY <2>2
  <2> HIDE DEF t
  <2> QED BY <2>1, <2>2, <2>3, <2>4 DEF Valued
<1>2. TotalOf(t) = SumOver(v, D) /\ IsFiniteSet(D) /\ v \in [D -> Int]
  <2>1. TotalOf(t) = SumOver(v, 1..Len(t)) /\ IsFiniteSet(1..Len(t)) /\ v \in [1..Len(t) -> Int]
    <3> HIDE DEF t
    <3> QED BY <1>1, WorthIs, WorthsType
  <2> QED BY <1>1, <2>1
<1>3. n + 1 \in D /\ D \ {n + 1} = 1..n
  BY <1>1
<1>4. SumOver(v, D) = v[n + 1] + SumOver(u, D \ {n + 1})
  <2> HIDE DEF v, D
  <2> QED BY <1>2, <1>3, TotalOfOneMore
<1>5. u = Worths(s)
  <2>1. \A i \in 1..n : i \in D /\ v[i] = s[i].value
    BY <1>1 DEF Worths
  <2> HIDE DEF v, D
  <2> QED BY <1>3, <2>1 DEF Worths
<1>6. v[n + 1] = x.value
  <2>1. ~(n + 1 \leq n)
    BY <1>1
  <2> QED BY <1>1, <1>3, <2>1 DEF Worths
<1>7. TotalOf(s) = SumOver(Worths(s), 1..n) /\ TotalOf(s) \in Nat
  BY WorthIs
<1> HIDE DEF v, D, u, t, n
<1>8. TotalOf(t) = x.value + TotalOf(s)
  BY <1>2, <1>3, <1>4, <1>5, <1>6, <1>7
<1>9. x.value + TotalOf(s) = TotalOf(s) + x.value
  BY <1>1, <1>7
<1> QED BY <1>8, <1>9 DEF t

\* A refusal is nothing else.
RefusedIsApart ==
  /\ Refused \notin Nat
  /\ \A shape, of : [shape |-> shape, of |-> of] # Refused
  /\ \A value, recipient, memo : [value |-> value, recipient |-> recipient, memo |-> memo] # Refused
  /\ \A spends, shielded, transparent, balance :
       [spends |-> spends, shielded |-> shielded, transparent |-> transparent, value_balance |-> balance] # Refused
  /\ \A tx, fee, change, nullifiers :
       [tx |-> tx, fee |-> fee, change |-> change, nullifiers |-> nullifiers] # Refused

\* Notes of N, of which no two outputs have one nullifier, and payments of O.
Askable(notes, need, request, N, O) ==
  /\ Valued(N) /\ notes \in Seq(N) /\ need \in Nat
  /\ \A n \in N : n.output.value \in Nat
  /\ \A n, m \in N : n.output.nullifier = m.output.nullifier => n.output.cmu = m.output.cmu
  /\ Valued(O) /\ request.shielded_to \in Seq(O) /\ request.transparent_to \in Seq(O)
  /\ \A i \in DOMAIN request.transparent_to :
       request.transparent_to[i].address.kind \in {"Identity", "PubKeyHash", "ScriptHash"}
  /\ request.fee \in Nat

\* The outputs of a spend: what comes back, and what is paid in the open.
ChangeNote(plan, request) ==
  IF plan.change = 0 THEN <<>> ELSE <<with_memo(change_address(request, plan), plan.change, <<>>)>>

Transparent(request) ==
  [i \in DOMAIN request.transparent_to |->
     [value  |-> request.transparent_to[i].value, script |-> transparent_script(request.transparent_to[i].address)]]

LEMMA ProvedIs ==
  ASSUME NEW plan, NEW request, NEW built, built = prove_spend(plan, request), built # Refused
  PROVE  LET out  == request.shielded_to \o ChangeNote(plan, request)
             open == Transparent(request)
             tx   == build_shielded_spend(request.extsk, plan.notes, out, open, request.fee, plan.anchor)
         IN /\ \A i \in DOMAIN open : open[i].script # Refused
            /\ tx # Refused
            /\ built = [tx |-> tx, fee |-> request.fee, change |-> plan.change,
                        nullifiers |-> [i \in DOMAIN plan.notes |-> plan.notes[i].nullifier]]
<1> DEFINE out == request.shielded_to \o ChangeNote(plan, request)
           open == Transparent(request)
           tx == build_shielded_spend(request.extsk, plan.notes, out, open, request.fee, plan.anchor)
           done == [tx |-> tx, fee |-> request.fee, change |-> plan.change,
                    nullifiers |-> [i \in DOMAIN plan.notes |-> plan.notes[i].nullifier]]
           ready == /\ cost_of(request) # Refused /\ check_plan_covers(plan, cost_of(request))
                    /\ \A i \in DOMAIN open : open[i].script # Refused
                    /\ tx # Refused
<1>1. built = IF ready THEN done ELSE Refused
  BY DEF prove_spend, ChangeNote, Transparent
<1>2. ready /\ built = done
  <2> HIDE DEF ready, done
  <2> QED BY <1>1
<1> QED BY <1>2

LEMMA SpendIs ==
  ASSUME NEW extsk, NEW notes, NEW shielded, NEW transparent, NEW fee, NEW anchor,
         NEW tx, tx = build_shielded_spend(extsk, notes, shielded, transparent, fee, anchor), tx # Refused
  PROVE  LET decrypted == [i \in DOMAIN notes |-> notes[i].output]
         IN /\ IsInjective([i \in DOMAIN notes |-> decrypted[i].cmu])
            /\ TotalOf(decrypted) = TotalOf(shielded) + TotalOf(transparent) + fee
            /\ tx = [spends |-> [i \in DOMAIN notes |-> decrypted[i].nullifier], shielded |-> shielded,
                     transparent |-> transparent, value_balance |-> TotalOf(decrypted) - TotalOf(shielded)]
<1> DEFINE decrypted == [i \in DOMAIN notes |-> notes[i].output]
           done == [spends |-> [i \in DOMAIN notes |-> decrypted[i].nullifier], shielded |-> shielded,
                    transparent |-> transparent, value_balance |-> TotalOf(decrypted) - TotalOf(shielded)]
           ready == /\ notes # <<>>
                    /\ \A i \in DOMAIN notes : decrypted[i].key = extsk /\ notes[i].anchor = anchor
                    /\ IsInjective([i \in DOMAIN notes |-> decrypted[i].cmu])
                    /\ Fits(TotalOf(decrypted))
                    /\ check_conservation(TotalOf(decrypted), shielded, transparent, fee)
                    /\ TotalOf(decrypted) - TotalOf(shielded) <= I64Max
<1>1. tx = IF ready THEN done ELSE Refused
  BY DEF build_shielded_spend
<1>2. ready /\ tx = done
  <2> HIDE DEF ready, done
  <2> QED BY <1>1
<1>3. TotalOf(decrypted) = TotalOf(shielded) + TotalOf(transparent) + fee
  BY <1>2 DEF check_conservation
<1> QED BY <1>2, <1>3

\* What comes back stands behind what is paid, and is the change of the plan.
LEMMA ChangeNoteIs ==
  ASSUME MEMO_SIZE \in Nat, NEW plan, plan.change \in Nat, NEW request,
         NEW O, Valued(O), NEW s \in Seq(O)
  PROVE  LET rest == ChangeNote(plan, request)
         IN /\ rest = <<>> \/ \E o : rest = <<o>> /\ o.recipient = change_address(request, plan)
            /\ TotalOf(rest) = plan.change /\ TotalOf(s \o rest) = TotalOf(s) + plan.change
            /\ \E P : Valued(P) /\ s \in Seq(P) /\ rest \in Seq(P)
<1> DEFINE rest == ChangeNote(plan, request)
           o == with_memo(change_address(request, plan), plan.change, <<>>)
<1>1. o.recipient = change_address(request, plan) /\ o.value = plan.change
  <2>1. Len(<<>>) = 0
    OBVIOUS
  <2>2. ~(0 > MEMO_SIZE)
    OBVIOUS
  <2> QED BY <2>1, <2>2 DEF with_memo
<1> HIDE DEF o
<1>2. CASE plan.change = 0
  <2>1. rest = <<>>
    BY <1>2 DEF ChangeNote
  <2>2. <<>> \in Seq(O) /\ s \o <<>> = s
    BY EmptySeq, ConcatEmptySeq
  <2>3. TotalOf(s) + 0 = TotalOf(s)
    BY WorthIs
  <2> HIDE DEF rest
  <2>4. TotalOf(rest) = plan.change /\ TotalOf(s \o rest) = TotalOf(s) + plan.change
    BY <1>2, <2>1, <2>2, <2>3, WorthOfNone
  <2>5. \E P : Valued(P) /\ s \in Seq(P) /\ rest \in Seq(P)
    BY <2>1, <2>2
  <2> QED BY <2>1, <2>4, <2>5 DEF rest
<1>3. CASE plan.change # 0
  <2> DEFINE P == O \cup {o}
  <2>1. rest = <<o>>
    BY <1>3 DEF ChangeNote, o
  <2>2. TotalOf(<<o>>) = plan.change
    BY <1>1, WorthOfOne
  <2>3. Valued(P) /\ <<o>> \in Seq(P) /\ o \in P /\ O \subseteq P
    BY <1>1 DEF Valued
  <2> HIDE DEF P
  <2>4. s \in Seq(P)
    BY <2>3, SeqGrows
  <2>5. TotalOf(s \o <<o>>) = TotalOf(s) + o.value
    BY <2>3, <2>4, WorthOfOneMore
  <2> HIDE DEF rest
  <2>6. rest = <<>> \/ \E x : rest = <<x>> /\ x.recipient = change_address(request, plan)
    BY <1>1, <2>1
  <2>7. TotalOf(rest) = plan.change /\ TotalOf(s \o rest) = TotalOf(s) + plan.change
    BY <1>1, <2>1, <2>2, <2>5
  <2>8. \E Q : Valued(Q) /\ s \in Seq(Q) /\ rest \in Seq(Q)
    BY <2>1, <2>3, <2>4
  <2> QED BY <2>6, <2>7, <2>8 DEF rest
<1> QED BY <1>2, <1>3

\* What a list was lengthened by.
LEMMA WhatWasAdded ==
  ASSUME NEW S, NEW s \in Seq(S), NEW r \in Seq(S)
  PROVE  /\ \A i \in 1..Len(s) : (s \o r)[i] = s[i]
         /\ SubSeq(s \o r, Len(s) + 1, Len(s \o r)) = r
<1> DEFINE n == Len(s)
           k == Len(r)
           t == s \o r
           u == SubSeq(t, n + 1, Len(t))
<1>1. n \in Nat /\ k \in Nat
  BY LenProperties
<1>2. t \in Seq(S) /\ Len(t) = n + k /\ \A i \in 1..(n + k) : t[i] = IF i <= n THEN s[i] ELSE r[i - n]
  BY ConcatProperties
<1> HIDE DEF t, n, k
<1>3. \A i \in 1..n : t[i] = s[i]
  BY <1>1, <1>2
<1>4. n + 1 \in 1..Len(t) + 1 /\ Len(t) \in n..Len(t)
  BY <1>1, <1>2
<1>5. u \in Seq(S) /\ Len(u) = k /\ \A i \in 1..k : u[i] = r[i]
  <2>1. /\ u \in Seq(S)
        /\ Len(u) = IF n + 1 <= Len(t) THEN Len(t) - (n + 1) + 1 ELSE 0
        /\ \A i \in 1..(Len(t) - (n + 1) + 1) : u[i] = t[n + 1 + i - 1]
    BY <1>1, <1>2, <1>4, SubSeqProperties
  <2>2. Len(t) - (n + 1) + 1 = k
    BY <1>1, <1>2
  <2>3. \A i \in 1..k : u[i] = t[n + i]
    BY <2>1, <2>2, <1>1
  <2>4. \A i \in 1..k : n + i \in 1..(n + k) /\ ~(n + i <= n) /\ (n + i) - n = i
    BY <1>1
  <2> HIDE DEF u
  <2>5. Len(u) = k
    BY <2>1, <2>2, <1>1, <1>2
  <2> QED BY <2>1, <2>3, <2>4, <2>5, <1>2
<1> HIDE DEF u
<1>6. u = r
  BY <1>5, SeqEqual DEF k
<1> QED BY <1>3, <1>6 DEF u, t, n

\* The outputs fetched for the notes are worth something.
LEMMA OutputsAreWorth ==
  ASSUME NEW N, \A n \in N : n.output.value \in Nat, NEW notes \in Seq(N)
  PROVE  TotalOf([i \in DOMAIN notes |-> notes[i].output]) \in Nat
<1> DEFINE D == [i \in DOMAIN notes |-> notes[i].output]
           M == {n.output : n \in N}
<1>1. DOMAIN notes = 1..Len(notes) /\ Len(notes) \in Nat /\ \A i \in 1..Len(notes) : notes[i] \in N
  BY LenProperties, ElementOfSeq
<1>2. Valued(M)
  BY DEF Valued
<1>3. D \in Seq(M)
  <2>1. \A i \in 1..Len(notes) : notes[i].output \in M
    BY <1>1
  <2> DEFINE F == [i \in 1..Len(notes) |-> notes[i].output]
  <2>2. F \in Seq(M)
    <3> HIDE DEF M
    <3> QED BY ONLY <1>1, <2>1, IsASeq
  <2>3. D = F
    BY <1>1
  <2> QED BY <2>2, <2>3
<1> HIDE DEF D, M
<1>4. TotalOf(D) \in Nat
  BY <1>2, <1>3, WorthIs
<1> QED BY <1>4 DEF D

\* A memo is read as it was written by whoever has the key.
LEMMA WhatIsPaidIsRead ==
  ASSUME RefusedIsApart, NEW asked
  PROVE  LET read == received("theirs", asked, [key |-> "theirs", value |-> asked.value,
                                                recipient |-> asked.recipient, memo |-> asked.memo])
         IN read # Refused /\ read.memo = asked.memo
BY DEF received, RefusedIsApart

\* Every spend that is built, of any notes and for any request, pays what the
\* request says (prove_spend, build_shielded_spend).
THEOREM PaysAsAskedAlways ==
  ASSUME MEMO_SIZE \in Nat, RefusedIsApart,
         NEW N, NEW O, NEW notes, NEW need, NEW request, Askable(notes, need, request, N, O)
  PROVE  PaysAsAsked(notes, need, request)
<1> DEFINE plan == PlanFor(notes, need)
           built == prove_spend(plan, request)
           asked == Len(request.shielded_to)
           mine == {notes[i].recipient : i \in DOMAIN notes}
           back == ChangeNote(plan, request)
           out == request.shielded_to \o back
           open == Transparent(request)
           D == [i \in DOMAIN notes |-> notes[i].output]
           tx == build_shielded_spend(request.extsk, plan.notes, out, open, request.fee, plan.anchor)
           rest == SubSeq(built.tx.shielded, asked + 1, Len(built.tx.shielded))
<1>1. /\ Valued(N) /\ notes \in Seq(N) /\ need \in Nat /\ \A n \in N : n.output.value \in Nat
      /\ Valued(O) /\ request.shielded_to \in Seq(O) /\ request.transparent_to \in Seq(O)
      /\ request.fee \in Nat
      /\ \A n, m \in N : n.output.nullifier = m.output.nullifier => n.output.cmu = m.output.cmu
  BY DEF Askable
<1> SUFFICES ASSUME need <= TotalOf(notes), built # Refused
    PROVE  /\ IsInjective(built.tx.spends)
           /\ (\A i \in DOMAIN notes : notes[i].output.nullifier = notes[i].nullifier)
                => built.nullifiers = built.tx.spends
           /\ built.tx.value_balance - TotalOf(built.tx.transparent) = request.fee
           /\ \A i \in 1..asked :
                LET there == built.tx.shielded[i]
                    output == [key |-> "theirs", value |-> there.value, recipient |-> there.recipient, memo |-> there.memo]
                    read == received("theirs", request.shielded_to[i], output)
                IN read # Refused /\ memo_text(read.memo) = memo_text(request.shielded_to[i].memo)
           /\ TotalOf(rest) = built.change
           /\ \A i \in DOMAIN rest : IF request.change_address # None THEN rest[i].recipient = request.change_address
                                     ELSE rest[i].recipient \in mine
           /\ [i \in DOMAIN built.tx.transparent |-> built.tx.transparent[i].script.of]
                = [i \in DOMAIN request.transparent_to |-> request.transparent_to[i].address.hash]
  BY DEF PaysAsAsked, IsAsAsked
<1>2. plan.notes = notes /\ plan.change = TotalOf(notes) - need
  BY DEF PlanFor
<1>3. plan.change \in Nat
  <2>1. TotalOf(notes) \in Nat
    BY <1>1, WorthIs
  <2> QED BY <2>1, <1>1, <1>2
<1>4. /\ \A i \in DOMAIN open : open[i].script # Refused
      /\ tx # Refused
      /\ built = [tx |-> tx, fee |-> request.fee, change |-> plan.change,
                  nullifiers |-> [i \in DOMAIN plan.notes |-> plan.notes[i].nullifier]]
  <2> HIDE DEF plan
  <2> QED BY ProvedIs
<1>5. /\ IsInjective([i \in DOMAIN notes |-> notes[i].output.cmu])
      /\ TotalOf(D) = TotalOf(out) + TotalOf(open) + request.fee
      /\ tx = [spends |-> [i \in DOMAIN notes |-> notes[i].output.nullifier], shielded |-> out,
               transparent |-> open, value_balance |-> TotalOf(D) - TotalOf(out)]
  <2>1. LET decrypted == [i \in DOMAIN plan.notes |-> plan.notes[i].output]
        IN /\ IsInjective([i \in DOMAIN plan.notes |-> decrypted[i].cmu])
           /\ TotalOf(decrypted) = TotalOf(out) + TotalOf(open) + request.fee
           /\ tx = [spends |-> [i \in DOMAIN plan.notes |-> decrypted[i].nullifier], shielded |-> out,
                    transparent |-> open, value_balance |-> TotalOf(decrypted) - TotalOf(out)]
    <3> DEFINE notes_ == plan.notes
               anchor_ == plan.anchor
    <3>1. tx # Refused /\ tx = build_shielded_spend(request.extsk, notes_, out, open, request.fee, anchor_)
      BY <1>4
    <3> HIDE DEF plan, out, open, tx, notes_, anchor_
    <3>2. LET decrypted == [i \in DOMAIN notes_ |-> notes_[i].output]
          IN /\ IsInjective([i \in DOMAIN notes_ |-> decrypted[i].cmu])
             /\ TotalOf(decrypted) = TotalOf(out) + TotalOf(open) + request.fee
             /\ tx = [spends |-> [i \in DOMAIN notes_ |-> decrypted[i].nullifier], shielded |-> out,
                      transparent |-> open, value_balance |-> TotalOf(decrypted) - TotalOf(out)]
      BY ONLY <3>1, SpendIs
    <3> QED BY ONLY <3>2 DEF notes_
  <2> HIDE DEF plan, out, open
  <2> QED BY <2>1, <1>2
<1>6. /\ back = <<>> \/ \E o : back = <<o>> /\ o.recipient = change_address(request, plan)
      /\ TotalOf(back) = plan.change /\ TotalOf(out) = TotalOf(request.shielded_to) + plan.change
      /\ \E P : Valued(P) /\ request.shielded_to \in Seq(P) /\ back \in Seq(P)
  <2> HIDE DEF plan
  <2> QED BY <1>1, <1>3, ChangeNoteIs
<1>7. /\ \A i \in 1..asked : out[i] = request.shielded_to[i]
      /\ SubSeq(out, asked + 1, Len(out)) = back
  <2> HIDE DEF back
  <2> QED BY <1>6, WhatWasAdded
<1>8. /\ built.tx.spends = [i \in DOMAIN notes |-> notes[i].output.nullifier]
      /\ built.nullifiers = [i \in DOMAIN notes |-> notes[i].nullifier]
      /\ built.tx.shielded = out /\ built.tx.transparent = open
      /\ built.tx.value_balance = TotalOf(D) - TotalOf(out) /\ built.change = plan.change
  <2> HIDE DEF plan, out, open, D, tx, built
  <2> QED BY <1>2, <1>4, <1>5
<1>9. DOMAIN notes = 1..Len(notes) /\ \A i \in DOMAIN notes : notes[i] \in N
  BY <1>1, LenProperties, ElementOfSeq
<1>10. IsInjective(built.tx.spends)
  <2>1. \A i, j \in DOMAIN notes : notes[i].output.cmu = notes[j].output.cmu => i = j
    BY <1>5 DEF IsInjective
  <2>2. \A i, j \in DOMAIN notes : notes[i].output.nullifier = notes[j].output.nullifier => i = j
    BY <2>1, <1>1, <1>9
  <2> HIDE DEF built
  <2> QED BY <1>8, <2>2 DEF IsInjective
<1>11. ASSUME \A i \in DOMAIN notes : notes[i].output.nullifier = notes[i].nullifier
       PROVE  built.nullifiers = built.tx.spends
  <2> HIDE DEF built
  <2> QED BY <1>8, <1>11
<1>12. built.tx.value_balance - TotalOf(built.tx.transparent) = request.fee
  <2>1. TotalOf(D) \in Nat
    BY <1>1, OutputsAreWorth
  <2>2. TotalOf(out) \in Nat
    <3>1. TotalOf(request.shielded_to) \in Nat
      BY <1>1, WorthIs
    <3> HIDE DEF out, plan
    <3> QED BY <3>1, <1>3, <1>6
  <2>3. TotalOf(open) \in Nat
    <3>1. DOMAIN open = DOMAIN request.transparent_to
          /\ \A i \in DOMAIN open : open[i].value = request.transparent_to[i].value
      BY DEF Transparent
    <3> HIDE DEF open
    <3>2. TotalOf(open) = TotalOf(request.transparent_to)
      BY <3>1, WorthOfEqual
    <3> QED BY <1>1, <3>2, WorthIs
  <2> HIDE DEF built, D, out, open
  <2> QED BY <1>1, <1>5, <1>8, <2>1, <2>2, <2>3
<1>13. ASSUME NEW i \in 1..asked
       PROVE  LET there == built.tx.shielded[i]
                  output == [key |-> "theirs", value |-> there.value, recipient |-> there.recipient, memo |-> there.memo]
                  read == received("theirs", request.shielded_to[i], output)
              IN read # Refused /\ memo_text(read.memo) = memo_text(request.shielded_to[i].memo)
  <2>1. built.tx.shielded[i] = request.shielded_to[i]
    <3> HIDE DEF built, out
    <3> QED BY <1>7, <1>8
  <2> HIDE DEF built
  <2> QED BY <2>1, WhatIsPaidIsRead
<1>14. rest = back
  <2> HIDE DEF built, out, back
  <2> QED BY <1>7, <1>8
<1>15. TotalOf(rest) = built.change
  <2> HIDE DEF rest, built, back, plan
  <2> QED BY <1>6, <1>8, <1>14
<1>16. ASSUME NEW i \in DOMAIN rest
       PROVE  IF request.change_address # None THEN rest[i].recipient = request.change_address
              ELSE rest[i].recipient \in mine
  <2>1. i \in DOMAIN back
    <3> HIDE DEF rest, back
    <3> QED BY <1>14, <1>16
  <2>2. PICK o : back = <<o>> /\ o.recipient = change_address(request, plan)
    <3> HIDE DEF rest, back, plan
    <3>1. DOMAIN <<>> = {}
      OBVIOUS
    <3> QED BY <2>1, <3>1, <1>6
  <2>3. rest[i] = o
    <3> HIDE DEF rest, back
    <3>1. \A x : DOMAIN <<x>> = {1} /\ <<x>>[1] = x
      OBVIOUS
    <3> QED BY <1>14, <2>1, <2>2, <3>1
  <2>4. change_address(request, plan) = IF request.change_address # None THEN request.change_address ELSE notes[1].recipient
    BY <1>2 DEF change_address
  <2>5. 1 \in DOMAIN notes
    <3>1. notes # <<>>
      <4> HIDE DEF out, open
      <4> QED BY <1>2, <1>4 DEF build_shielded_spend
    <3> QED BY <3>1, <1>1, <1>9, EmptySeq
  <2>6. notes[1].recipient \in mine
    BY <2>5
  <2> HIDE DEF rest, mine, plan
  <2> QED BY <2>2, <2>3, <2>4, <2>6
<1>17. [i \in DOMAIN built.tx.transparent |-> built.tx.transparent[i].script.of]
         = [i \in DOMAIN request.transparent_to |-> request.transparent_to[i].address.hash]
  <2>1. DOMAIN open = DOMAIN request.transparent_to
        /\ \A i \in DOMAIN open : open[i].script = transparent_script(request.transparent_to[i].address)
    BY DEF Transparent
  <2>2. \A a : transparent_script(a) # Refused /\ a.kind \in {"Identity", "PubKeyHash", "ScriptHash"}
          => transparent_script(a).of = a.hash
    BY DEF transparent_script
  <2>3. \A i \in DOMAIN request.transparent_to :
          request.transparent_to[i].address.kind \in {"Identity", "PubKeyHash", "ScriptHash"}
    BY DEF Askable
  <2>4. \A i \in DOMAIN open : open[i].script.of = request.transparent_to[i].address.hash
    <3> HIDE DEF open
    <3> QED BY <1>4, <2>1, <2>2, <2>3
  <2> HIDE DEF open, built
  <2> QED BY <1>8, <2>1, <2>4
<1> HIDE DEF built, rest, mine, asked
<1> QED BY <1>10, <1>11, <1>12, <1>13, <1>15, <1>16, <1>17

\* Every plan made for a request, of notes that are what the scan said, proves
\* it; a plan is for something, as plan_spend insists (prove_spend,
\* check_conservation).
THEOREM PlansAreProvedAlways ==
  ASSUME MEMO_SIZE \in Nat, I64Max \in Int, RefusedIsApart,
         NEW N, NEW O, NEW notes, NEW need, NEW request, Askable(notes, need, request, N, O), need > 0
  PROVE  PlansAreProved(notes, need, request)
<1> DEFINE plan == PlanFor(notes, need)
           back == ChangeNote(plan, request)
           out == request.shielded_to \o back
           open == Transparent(request)
           D == [i \in DOMAIN notes |-> notes[i].output]
           tx == build_shielded_spend(request.extsk, plan.notes, out, open, request.fee, plan.anchor)
           T == TotalOf(notes)
           a == TotalOf(request.shielded_to)
           b == TotalOf(request.transparent_to)
<1>1. /\ Valued(N) /\ notes \in Seq(N) /\ need \in Nat
      /\ Valued(O) /\ request.shielded_to \in Seq(O) /\ request.transparent_to \in Seq(O)
      /\ request.fee \in Nat
  BY DEF Askable
<1> SUFFICES
      ASSUME need = cost_of(request), need <= T,
             \A i \in DOMAIN notes : notes[i].output.value = notes[i].value /\ notes[i].output.key = request.extsk
                                     /\ notes[i].anchor = notes[1].anchor,
             IsInjective([i \in DOMAIN notes |-> notes[i].output.cmu]),
             \A i \in DOMAIN request.transparent_to : request.transparent_to[i].address.kind # "ScriptHash",
             Fits(T), b + request.fee <= I64Max
      PROVE  prove_spend(plan, request) # Refused
  BY DEF PlansAreProved, prepare_spend
<1>2. plan.notes = notes /\ plan.change = T - need /\ plan.total_in = T /\ plan.anchor = notes[1].anchor
  BY DEF PlanFor
<1>3. T \in Nat /\ a \in Nat /\ b \in Nat
  BY <1>1, WorthIs
<1>4. plan.change \in Nat /\ plan.change + need = T
  <2> HIDE DEF plan, T
  <2> QED BY <1>1, <1>2, <1>3
<1>5. cost_of(request) # Refused /\ need = a + b + request.fee
  <2>1. need # Refused
    BY <1>1 DEF RefusedIsApart
  <2> QED BY <2>1 DEF cost_of, total_out
<1>6. check_plan_covers(plan, cost_of(request))
  <2> HIDE DEF plan, T
  <2> QED BY <1>2, <1>4 DEF check_plan_covers
<1>7. /\ TotalOf(out) = a + plan.change
  <2> HIDE DEF plan
  <2> QED BY <1>1, <1>4, ChangeNoteIs
<1>8. /\ DOMAIN open = DOMAIN request.transparent_to
      /\ \A i \in DOMAIN open : /\ open[i].value = request.transparent_to[i].value
                                /\ open[i].script = transparent_script(request.transparent_to[i].address)
  BY DEF Transparent
<1>9. TotalOf(open) = b
  <2> HIDE DEF open
  <2> QED BY <1>8, WorthOfEqual
<1>10. \A i \in DOMAIN open : open[i].script # Refused
  <2>1. \A i \in DOMAIN request.transparent_to : request.transparent_to[i].address.kind \in {"Identity", "PubKeyHash"}
    BY DEF Askable
  <2>2. \A x : x.kind \in {"Identity", "PubKeyHash"} => transparent_script(x) # Refused
    BY DEF transparent_script, RefusedIsApart
  <2> HIDE DEF open
  <2> QED BY <1>8, <2>1, <2>2
<1>11. TotalOf(D) = T
  <2>1. DOMAIN D = DOMAIN notes /\ \A i \in DOMAIN D : D[i].value = notes[i].value
    OBVIOUS
  <2> HIDE DEF D
  <2> QED BY <2>1, WorthOfEqual
<1>12. notes # <<>>
  <2>1. ~(need <= 0)
    BY <1>1
  <2> QED BY <2>1, WorthOfNone
<1>13. check_conservation(TotalOf(D), out, open, request.fee) /\ TotalOf(D) - TotalOf(out) <= I64Max
  <2> DEFINE c == plan.change
             o == TotalOf(out)
             p == TotalOf(open)
             d == TotalOf(D)
             fee == request.fee
  <2>1. /\ c \in Nat /\ c + need = T /\ need = a + b + fee /\ o = a + c /\ p = b /\ d = T
        /\ b + fee <= I64Max /\ fee \in Nat
    BY <1>1, <1>4, <1>5, <1>7, <1>9, <1>11
  <2> HIDE DEF T, a, b, c, o, p, d, fee
  <2>2. o + p + fee = T /\ d - o = b + fee
    BY <1>1, <1>3, <2>1
  <2>3. Fits(o + p + fee) /\ d = o + p + fee
    BY <2>1, <2>2
  <2>4. d - o <= I64Max
    BY <2>1, <2>2
  <2> QED BY <2>3, <2>4 DEF check_conservation, o, p, d, fee
<1>14. tx # Refused
  <2> DEFINE ready == /\ notes # <<>>
                      /\ \A i \in DOMAIN notes : D[i].key = request.extsk /\ notes[i].anchor = notes[1].anchor
                      /\ IsInjective([i \in DOMAIN notes |-> D[i].cmu])
                      /\ Fits(TotalOf(D))
                      /\ check_conservation(TotalOf(D), out, open, request.fee)
                      /\ TotalOf(D) - TotalOf(out) <= I64Max
             done == [spends |-> [i \in DOMAIN notes |-> D[i].nullifier], shielded |-> out,
                      transparent |-> open, value_balance |-> TotalOf(D) - TotalOf(out)]
  <2>1. tx = build_shielded_spend(request.extsk, notes, out, open, request.fee, notes[1].anchor)
    <3> HIDE DEF plan, out, open
    <3> QED BY <1>2
  <2>2. tx = IF ready THEN done ELSE Refused
    <3> HIDE DEF tx, out, open
    <3> QED BY <2>1 DEF build_shielded_spend
  <2>3. IsInjective([i \in DOMAIN notes |-> D[i].cmu])
    <3>1. [i \in DOMAIN notes |-> D[i].cmu] = [i \in DOMAIN notes |-> notes[i].output.cmu]
      OBVIOUS
    <3> QED BY <3>1
  <2>4. \A i \in DOMAIN notes : D[i].key = request.extsk /\ notes[i].anchor = notes[1].anchor
    OBVIOUS
  <2>5. Fits(TotalOf(D))
    BY <1>11
  <2>6. ready
    <3> HIDE DEF D, out, open
    <3> QED BY <1>12, <1>13, <2>3, <2>4, <2>5
  <2>7. done # Refused
    <3> HIDE DEF D, out, open
    <3> QED BY DEF RefusedIsApart
  <2> HIDE DEF ready, done, tx
  <2> QED BY <2>2, <2>6, <2>7
<1>15. prove_spend(plan, request) =
         [tx |-> tx, fee |-> request.fee, change |-> plan.change,
          nullifiers |-> [i \in DOMAIN plan.notes |-> plan.notes[i].nullifier]]
  <2> DEFINE done == [tx |-> tx, fee |-> request.fee, change |-> plan.change,
                      nullifiers |-> [i \in DOMAIN plan.notes |-> plan.notes[i].nullifier]]
             ready == /\ cost_of(request) # Refused /\ check_plan_covers(plan, cost_of(request))
                      /\ \A i \in DOMAIN open : open[i].script # Refused
                      /\ tx # Refused
  <2>1. prove_spend(plan, request) = IF ready THEN done ELSE Refused
    <3> HIDE DEF plan
    <3> QED BY DEF prove_spend, ChangeNote, Transparent
  <2>2. ready
    <3> HIDE DEF plan, open, tx
    <3> QED BY <1>5, <1>6, <1>10, <1>14
  <2> HIDE DEF ready, done
  <2>3. prove_spend(plan, request) = done
    BY <2>1, <2>2
  <2> QED BY <2>3 DEF done
<1> HIDE DEF plan, tx
<1> QED BY <1>15 DEF RefusedIsApart

-----------------------------------------------------------------------------
(***************************************************************************)
(* The fee                                                                 *)
(***************************************************************************)
\* What is over the outputs that come free.
Extra(s, t) ==
  CASE t > 3 -> Saturated(Beyond(s, 1) + Beyond(t, 3), I64Max)
    [] t = 3 -> Beyond(s, 2)
    [] OTHER -> Beyond(s, 3)

LEMMA ExtraGrows ==
  ASSUME I64Max \in Nat, NEW s \in Nat, NEW t \in Nat, NEW s1 \in Nat, NEW t1 \in Nat,
         s <= s1, t <= t1, s1 <= I64Max
  PROVE  Extra(s, t) \in Nat /\ Extra(s1, t1) \in Nat /\ Extra(s, t) <= Extra(s1, t1)
BY DEF Extra, Saturated, Beyond

FeeOf(extra) == Saturated(DEFAULT_TRANSACTION_FEE + Saturated(extra * DEFAULT_TRANSACTION_FEE, U64Max), U64Max)

LEMMA FeeGrows ==
  ASSUME DEFAULT_TRANSACTION_FEE \in Nat, U64Max \in Nat, DEFAULT_TRANSACTION_FEE <= U64Max,
         NEW x \in Nat, NEW y \in Nat, x <= y
  PROVE  DEFAULT_TRANSACTION_FEE <= FeeOf(x) /\ FeeOf(x) <= U64Max /\ FeeOf(x) <= FeeOf(y)
<1> DEFINE f == DEFAULT_TRANSACTION_FEE
           p == x * f
           q == y * f
<1>1. p \in Nat /\ q \in Nat /\ f \in Nat
  OBVIOUS
<1>2. p <= q
  BY ProductGrows
<1>3. FeeOf(x) = Saturated(f + Saturated(p, U64Max), U64Max) /\ FeeOf(y) = Saturated(f + Saturated(q, U64Max), U64Max)
  BY DEF FeeOf
<1>4. f <= U64Max
  OBVIOUS
<1> HIDE DEF p, q, f
<1>5. f <= FeeOf(x) /\ FeeOf(x) <= U64Max /\ FeeOf(x) <= FeeOf(y)
  BY <1>1, <1>2, <1>3, <1>4 DEF Saturated
<1> QED BY <1>5 DEF f

\* At any counts, and wherever the sums and products saturate, one more output
\* never costs less (min_relay_fee).
THEOREM MoreOutputsNeverCostLessAlways ==
  ASSUME DEFAULT_TRANSACTION_FEE \in Nat, U64Max \in Nat, DEFAULT_TRANSACTION_FEE <= U64Max, I64Max \in Nat,
         NEW shielded \in Nat, NEW transparent \in Nat
  PROVE  MoreOutputsNeverCostLess(shielded, transparent)
<1> DEFINE S(n) == Saturated(n, I64Max)
<1>1. \A s, t : min_relay_fee(s, t) = FeeOf(Extra(S(s), S(t)))
  BY DEF min_relay_fee, FeeOf, Extra
<1>2. \A n \in Nat : S(n) \in Nat /\ S(n) <= I64Max /\ S(n) <= S(n + 1) /\ n + 1 \in Nat
  BY DEF Saturated
<1> HIDE DEF S
<1> DEFINE x == Extra(S(shielded), S(transparent))
           y == Extra(S(shielded + 1), S(transparent))
           z == Extra(S(shielded), S(transparent + 1))
<1>3. x \in Nat /\ y \in Nat /\ x <= y
  <2>1. S(transparent) <= S(transparent)
    BY <1>2
  <2> QED BY <1>2, <2>1, ExtraGrows
<1>4. z \in Nat /\ x <= z
  <2>1. S(shielded) <= S(shielded)
    BY <1>2
  <2> QED BY <1>2, <2>1, ExtraGrows
<1> HIDE DEF x, y, z
<1>5. DEFAULT_TRANSACTION_FEE <= FeeOf(x) /\ FeeOf(x) <= U64Max /\ FeeOf(x) <= FeeOf(y) /\ FeeOf(x) <= FeeOf(z)
  BY <1>3, <1>4, FeeGrows
<1>6. /\ min_relay_fee(shielded, transparent) = FeeOf(x) /\ min_relay_fee(shielded + 1, transparent) = FeeOf(y)
      /\ min_relay_fee(shielded, transparent + 1) = FeeOf(z)
  BY <1>1 DEF x, y, z
<1> QED BY <1>5, <1>6 DEF MoreOutputsNeverCostLess

-----------------------------------------------------------------------------
(***************************************************************************)
(* Memos                                                                   *)
(***************************************************************************)
\* The places of a list that hold something.
Filled(s) == {i \in 1..Len(s) : s[i] # 0}

LEMMA GreatestIs ==
  ASSUME NEW T, NEW n \in Nat, T \subseteq 1..n, T # {}
  PROVE  Max(T) \in T /\ \A i \in T : i <= Max(T)
<1> DEFINE U == {n - i : i \in T}
<1>1. U \subseteq Nat /\ U # {} /\ \A i \in T : i \in Nat
  <2>1. \A i \in 1..n : i \in Nat /\ n - i \in Nat
    BY ONLY n \in Nat
  <2>2. \A i \in T : i \in 1..n
    OBVIOUS
  <2>3. \A i \in T : i \in Nat /\ n - i \in Nat
    BY ONLY <2>1, <2>2
  <2>4. U # {}
    BY ONLY T # {}
  <2> QED BY ONLY <2>3, <2>4
<1>2. PICK u \in U : \A v \in U : u <= v
  <2> HIDE DEF U
  <2> QED BY <1>1, LeastNatural
<1>3. PICK m \in T : u = n - m
  OBVIOUS
<1>4. \A i \in T : m >= i
  <2>1. \A i \in T : n - i \in U
    OBVIOUS
  <2>2. \A i \in T : n - m <= n - i
    BY <1>2, <1>3, <2>1
  <2> QED BY <1>1, <2>2
<1>5. Max(T) \in T /\ \A i \in T : Max(T) >= i
  BY <1>4 DEF Max
<1> QED BY <1>1, <1>5

LEMMA TrimmedIs ==
  ASSUME NEW S, NEW s \in Seq(S)
  PROVE  \E k \in 0..Len(s) : /\ Trimmed(s) = SubSeq(s, 1, k)
                              /\ k > 0 => s[k] # 0
                              /\ \A i \in k + 1..Len(s) : s[i] = 0
<1> DEFINE n == Len(s)
           k == IF Filled(s) # {} THEN Max(Filled(s)) ELSE 0
<1>1. n \in Nat
  BY LenProperties
<1>2. SelectLastInSeq(s, LAMBDA b : b # 0) = k
  BY DEF SelectLastInSeq, Filled
<1>3. Trimmed(s) = SubSeq(s, 1, k)
  BY <1>2 DEF Trimmed
<1>4. Filled(s) \subseteq 1..n /\ \A i \in 1..n : i \in Filled(s) <=> s[i] # 0
  BY DEF Filled
<1>5. CASE Filled(s) # {}
  <2>1. k \in Filled(s) /\ \A i \in Filled(s) : i <= k
    BY <1>1, <1>4, <1>5, GreatestIs
  <2> HIDE DEF k, n
  <2>2. \A i \in k + 1..n : i \in 1..n /\ ~(i <= k)
    BY <1>1, <1>4, <2>1
  <2>3. k \in 0..n /\ s[k] # 0 /\ \A i \in k + 1..n : s[i] = 0
    BY <1>1, <1>4, <2>1, <2>2
  <2> QED BY <1>3, <2>3 DEF n
<1>6. CASE Filled(s) = {}
  <2>1. k = 0
    BY <1>6
  <2> HIDE DEF k, n
  <2>2. k \in 0..n /\ ~(k > 0) /\ \A i \in k + 1..n : s[i] = 0
    BY <1>1, <1>4, <1>6, <2>1
  <2> QED BY <1>3, <2>2 DEF n
<1> QED BY <1>5, <1>6

LEMMA PaddedIs ==
  ASSUME MEMO_SIZE \in Nat, NEW B, 0 \in B, NEW bytes \in Seq(B)
  PROVE  /\ Padded(bytes) \in Seq(B) /\ Len(Padded(bytes)) = MEMO_SIZE
         /\ \A i \in 1..MEMO_SIZE : Padded(bytes)[i] = IF i <= Len(bytes) THEN bytes[i] ELSE 0
<1> DEFINE e(i) == IF i <= Len(bytes) THEN bytes[i] ELSE 0
           p == [i \in 1..MEMO_SIZE |-> e(i)]
<1>1. Len(bytes) \in Nat /\ \A i \in 1..Len(bytes) : bytes[i] \in B
  BY LenProperties, ElementOfSeq
<1>2. \A i \in 1..MEMO_SIZE : e(i) \in B
  BY <1>1
<1>3. p \in Seq(B)
  <2> HIDE DEF e
  <2> QED BY ONLY <1>2, MEMO_SIZE \in Nat, IsASeq
<1>4. p = Padded(bytes)
  BY DEF Padded
<1>5. DOMAIN p = 1..MEMO_SIZE
  OBVIOUS
<1>6. Len(p) = MEMO_SIZE
  <2> HIDE DEF p
  <2> QED BY <1>3, <1>5, LenProperties
<1> HIDE DEF p
<1> QED BY <1>3, <1>4, <1>6 DEF p

\* Zeros at the end are not seen.
LEMMA PaddingIsTrimmed ==
  ASSUME MEMO_SIZE \in Nat, NEW B, 0 \in B, NEW bytes \in Seq(B), Len(bytes) <= MEMO_SIZE
  PROVE  \E k \in 0..Len(bytes) :
           /\ Trimmed(Padded(bytes)) = SubSeq(Padded(bytes), 1, k)
           /\ \A i \in k + 1..MEMO_SIZE : Padded(bytes)[i] = 0
           /\ Trimmed(bytes) = SubSeq(bytes, 1, k)
           /\ SubSeq(bytes, 1, k) = SubSeq(Padded(bytes), 1, k)
<1> DEFINE p == Padded(bytes)
           n == Len(bytes)
<1>1. /\ p \in Seq(B) /\ Len(p) = MEMO_SIZE
      /\ \A i \in 1..MEMO_SIZE : p[i] = IF i <= n THEN bytes[i] ELSE 0
  BY PaddedIs
<1>2. n \in Nat /\ n <= MEMO_SIZE /\ \A i \in 1..n : bytes[i] \in B
  BY LenProperties, ElementOfSeq
<1> HIDE DEF p
<1>3. PICK k \in 0..MEMO_SIZE : /\ Trimmed(p) = SubSeq(p, 1, k)
                                /\ k > 0 => p[k] # 0
                                /\ \A i \in k + 1..MEMO_SIZE : p[i] = 0
  <2>1. \E k \in 0..Len(p) : /\ Trimmed(p) = SubSeq(p, 1, k)
                             /\ k > 0 => p[k] # 0
                             /\ \A i \in k + 1..Len(p) : p[i] = 0
    BY <1>1, TrimmedIs
  <2> QED BY <1>1, <2>1
<1>4. PICK m \in 0..n : /\ Trimmed(bytes) = SubSeq(bytes, 1, m)
                        /\ m > 0 => bytes[m] # 0
                        /\ \A i \in m + 1..n : bytes[i] = 0
  BY TrimmedIs
<1> HIDE DEF n
<1>5. k = m
  <2>1. CASE k < m
    <3>1. m \in k + 1..MEMO_SIZE /\ m \in 1..MEMO_SIZE /\ m <= n /\ m > 0
      BY <1>2, <1>3, <1>4, <2>1
    <3> QED BY <1>1, <1>3, <1>4, <3>1
  <2>2. CASE m < k
    <3>1. k \in 1..MEMO_SIZE /\ k > 0 /\ (k <= n => k \in m + 1..n)
      BY <1>2, <1>3, <1>4, <2>2
    <3> QED BY <1>1, <1>3, <1>4, <3>1
  <2>3. k < m \/ m < k \/ k = m
    BY <1>2, <1>3, <1>4
  <2> QED BY <2>1, <2>2, <2>3
<1>6. SubSeq(bytes, 1, k) = SubSeq(p, 1, k)
  <2> DEFINE u == SubSeq(bytes, 1, k)
             v == SubSeq(p, 1, k)
  <2>1. k \in Int /\ \A i \in 1..k : i \in 1..n /\ i \in 1..MEMO_SIZE /\ i <= n
    BY <1>2, <1>3, <1>4, <1>5
  <2>2. \A i \in 1..k : bytes[i] \in B /\ p[i] = bytes[i]
    BY <1>1, <1>2, <2>1
  <2>3. k - 1 + 1 = k /\ \A i \in 1..k : 1 + i - 1 = i
    BY <2>1
  <2>4. u \in Seq(B) /\ Len(u) = (IF 1 <= k THEN k - 1 + 1 ELSE 0) /\ \A i \in 1..(k - 1 + 1) : u[i] = bytes[1 + i - 1]
    <3>1. 1 \in Int /\ \A i \in 1..k : bytes[i] \in B
      BY <2>2
    <3> QED BY ONLY <2>1, <3>1, SubSeqProperties
  <2>5. v \in Seq(B) /\ Len(v) = (IF 1 <= k THEN k - 1 + 1 ELSE 0) /\ \A i \in 1..(k - 1 + 1) : v[i] = p[1 + i - 1]
    <3>1. 1 \in Int /\ \A i \in 1..k : p[i] \in B
      BY <2>2
    <3> QED BY ONLY <2>1, <3>1, SubSeqProperties
  <2> HIDE DEF u, v
  <2>6. Len(u) = Len(v) /\ Len(u) = (IF 1 <= k THEN k ELSE 0)
    BY <2>3, <2>4, <2>5
  <2>7. \A i \in 1..Len(u) : u[i] = v[i]
    <3>1. \A i \in 1..Len(u) : i \in 1..k
      BY <2>1, <2>6
    <3>2. \A i \in 1..k : u[i] = bytes[i] /\ v[i] = p[i]
      BY <2>3, <2>4, <2>5
    <3> QED BY <2>2, <3>1, <3>2
  <2>8. u = v
    BY <2>4, <2>5, <2>6, <2>7, SeqEqual
  <2> QED BY <2>8 DEF u, v
<1> QED BY <1>3, <1>4, <1>5, <1>6 DEF p, n

\* A memo that holds a text holds its padding.
LEMMA TrimmedPadsBack ==
  ASSUME MEMO_SIZE \in Nat, NEW B, 0 \in B, NEW p \in Seq(B), Len(p) = MEMO_SIZE,
         NEW k \in 0..MEMO_SIZE, \A i \in k + 1..MEMO_SIZE : p[i] = 0
  PROVE  /\ Len(SubSeq(p, 1, k)) = k /\ Padded(SubSeq(p, 1, k)) = p
<1> DEFINE t == SubSeq(p, 1, k)
<1>1. DOMAIN p = 1..MEMO_SIZE /\ (\A i \in 1..MEMO_SIZE : p[i] \in B) /\ p = [i \in 1..MEMO_SIZE |-> p[i]]
  <2>1. DOMAIN p = 1..MEMO_SIZE
    BY LenProperties
  <2>2. \A i \in 1..MEMO_SIZE : p[i] \in B
    BY ElementOfSeq
  <2>3. p \in [1..MEMO_SIZE -> B]
    BY LenProperties
  <2> QED BY <2>1, <2>2, <2>3
<1>2. t \in Seq(B) /\ Len(t) = (IF 1 <= k THEN k - 1 + 1 ELSE 0) /\ \A i \in 1..(k - 1 + 1) : t[i] = p[1 + i - 1]
  <2>1. 1 \in Int /\ k \in Int /\ \A i \in 1..k : p[i] \in B
    BY <1>1
  <2> QED BY ONLY <2>1, SubSeqProperties
<1> HIDE DEF t
<1>3. Len(t) = k /\ \A i \in 1..k : t[i] = p[i]
  <2>1. k - 1 + 1 = k /\ \A i \in 1..k : 1 + i - 1 = i
    OBVIOUS
  <2>2. (IF 1 <= k THEN k ELSE 0) = k
    OBVIOUS
  <2> QED BY <1>2, <2>1, <2>2
<1>4. \A i \in 1..MEMO_SIZE : (IF i <= k THEN t[i] ELSE 0) = p[i]
  <2> TAKE i \in 1..MEMO_SIZE
  <2>1. i \in 1..k \/ (i \in k + 1..MEMO_SIZE /\ ~(i <= k))
    OBVIOUS
  <2>2. i \in 1..k => i <= k
    OBVIOUS
  <2> QED BY <1>3, <2>1, <2>2
<1>5. Padded(t) = [i \in 1..MEMO_SIZE |-> IF i <= k THEN t[i] ELSE 0]
  BY <1>3 DEF Padded
<1>6. Padded(t) = p
  BY <1>1, <1>4, <1>5
<1> QED BY <1>3, <1>6 DEF t

\* Whatever was written is what is read, but for zeros at its end, and nothing
\* else reads as it does: for a memo of any size (with_memo, memo_text).
THEOREM MemosAreReadAlways ==
  ASSUME MEMO_SIZE \in Nat \ {0}, TextBytes \cap NotText = {}, 0 \notin NotText,
         NEW B, 0 \in B, NEW bytes \in Seq(B)
  PROVE  MemosAreRead(bytes)
<1> DEFINE carrier == with_memo("z", 0, bytes)
           p == Padded(bytes)
           n == Len(bytes)
<1>1. CASE n > MEMO_SIZE
  <2>1. carrier = Refused
    BY <1>1 DEF with_memo
  <2> QED BY <2>1 DEF MemosAreRead
<1>2. CASE ~(n > MEMO_SIZE)
  <2>1. n \in Nat /\ n <= MEMO_SIZE /\ MEMO_SIZE \in Nat
    BY <1>2, LenProperties
  <2>2. carrier = [recipient |-> "z", value |-> 0, memo |-> p] /\ carrier.memo = p
    BY <1>2 DEF with_memo
  <2>3. /\ p \in Seq(B) /\ Len(p) = MEMO_SIZE
        /\ \A i \in 1..MEMO_SIZE : p[i] = IF i <= n THEN bytes[i] ELSE 0
    BY <2>1, PaddedIs
  <2>4. PICK k \in 0..n : /\ Trimmed(p) = SubSeq(p, 1, k)
                          /\ \A i \in k + 1..MEMO_SIZE : p[i] = 0
                          /\ Trimmed(bytes) = SubSeq(bytes, 1, k)
                          /\ SubSeq(bytes, 1, k) = SubSeq(p, 1, k)
    BY <2>1, PaddingIsTrimmed
  <2>5. k \in 0..MEMO_SIZE
    BY <2>1
  <2>6. Len(Trimmed(p)) = k /\ Padded(Trimmed(p)) = p
    <3> HIDE DEF p
    <3> QED BY <2>1, <2>3, <2>4, <2>5, TrimmedPadsBack
  <2>7. DOMAIN bytes = 1..n
    BY LenProperties
  <2> HIDE DEF carrier, p, n
  <2>8. ASSUME \A i \in DOMAIN bytes : bytes[i] \in TextBytes
        PROVE  memo_text(p) = Trimmed(bytes)
    <3>1. 1 \in 1..MEMO_SIZE
      BY <2>1
    <3>2. p[1] \notin NotText
      <4>1. CASE 1 <= n
        BY <2>1, <2>3, <2>7, <2>8, <3>1, <4>1
      <4>2. CASE ~(1 <= n)
        BY <2>3, <3>1, <4>2
      <4> QED BY <4>1, <4>2
    <3>3. \A i \in 1..k : p[i] \in TextBytes
      <4>1. \A i \in 1..k : i \in 1..MEMO_SIZE /\ i \in 1..n /\ i <= n
        BY <2>1
      <4> QED BY <2>3, <2>7, <2>8, <4>1
    <3>4. memo_text(p) = Trimmed(p)
      BY <2>6, <3>2, <3>3 DEF memo_text
    <3> QED BY <2>4, <3>4
  <2>9. ASSUME memo_text(p) # None
        PROVE  with_memo("z", 0, memo_text(p)) = carrier
    <3>1. memo_text(p) = Trimmed(p)
      BY <2>9 DEF memo_text
    <3>2. ~(k > MEMO_SIZE)
      BY <2>1, <2>5
    <3>3. with_memo("z", 0, Trimmed(p)) = [recipient |-> "z", value |-> 0, memo |-> Padded(Trimmed(p))]
      BY <2>6, <3>2 DEF with_memo
    <3> QED BY <2>2, <2>6, <3>1, <3>3
  <2> QED BY <2>2, <2>8, <2>9 DEF MemosAreRead, carrier
<1> QED BY <1>1, <1>2
=============================================================================
