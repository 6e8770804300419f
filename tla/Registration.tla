---------------------------- MODULE Registration ----------------------------
(***************************************************************************)
(* The two-step registration of a VerusID                                  *)
(* (src/crates/verus-flows/src/identity.rs): a name commitment is signed,  *)
(* persisted with its unrecoverable salt, anchored and broadcast; polled,  *)
(* one request at a time, until it is confirmed, dropped, expired or       *)
(* reorganised away; and then spent by the registration itself.            *)
(*                                                                         *)
(* Every read is a separate call, so the node may mine, reorganise, evict  *)
(* or lose an answer between any two of them, and the wallet may stop and  *)
(* reload what it persisted.  A block is the number of its making, so no   *)
(* two blocks have one hash; heights are positions in the chain.           *)
(***************************************************************************)
EXTENDS Naturals, Sequences, FiniteSets

CONSTANTS
  Nothing,          \* no anchor, no pending, an answer that is not there
  EXPIRY_BLOCKS,    \* DEFAULT_EXPIRY_BLOCKS
  SOON,             \* EXPIRING_SOON_THRESHOLD
  Attempts,         \* bound: registrations the caller starts, 1..Attempts
  MaxHeight,        \* bound: height the chain grows to
  MaxReorgs,        \* bound: how often blocks are disconnected
  MaxLosses,        \* bound: evictions and answers lost
  MaxRestarts       \* bound: how often the wallet restarts

ASSUME RegistrationAssumption ==
  /\ EXPIRY_BLOCKS \in Nat /\ SOON \in Nat /\ EXPIRY_BLOCKS > SOON
  /\ Attempts \in Nat \ {0} /\ MaxHeight \in Nat \ {0}
  /\ MaxReorgs \in Nat /\ MaxLosses \in Nat /\ MaxRestarts \in Nat
  /\ Nothing \notin Nat \cup (Nat \X Nat)
  /\ Nothing \notin [attempt : Nat, anchor : {Nothing} \cup (Nat \X Nat)]

VARIABLES
  chain,     \* block at each height; blocks are numbered as they are made
  made,      \* how many blocks were ever made
  pool,      \* transactions in the node's mempool
  mined,     \* [transaction -> height it is mined at, 0 when it is not]
  reorgs, losses, restarts,
  attempt,   \* registrations started so far
  expiry,    \* [attempt -> expiry height signed into its commitment]
  mem, disk, \* the Pending<AwaitingCommitment> in memory / persisted
  pc,        \* the call the wallet is about to make
  height,    \* block_count as the running call read it
  conf,      \* confirmations as the running poll read them
  verdict    \* what the last call told the caller

node    == <<chain, made, pool, mined>>
budget  == <<reorgs, losses, restarts>>
pending == <<attempt, expiry, mem, disk>>
locals  == <<height, conf>>
vars    == <<node, budget, pending, pc, locals, verdict>>

Commit(a)   == <<"commitment", a>>
Register(a) == <<"registration", a>>
Tx == {Commit(a) : a \in 1..Attempts} \cup {Register(a) : a \in 1..Attempts}

Tip == Len(chain)
Anchor(a, h) == [attempt |-> a, anchor |-> h]

-----------------------------------------------------------------------------
(***************************************************************************)
(* The node                                                                *)
(***************************************************************************)
\* A block may carry a transaction up to and including its expiry height; a
\* registration spends its commitment's output.
Minable(t, h) ==
  IF t[1] = "commitment" THEN h \leq expiry[t[2]] ELSE mined[Commit(t[2])] > 0

\* A new block, with any minable part of the mempool; what can no longer be
\* mined leaves the mempool.
Mine ==
  /\ Tip < MaxHeight
  /\ \E S \in SUBSET {t \in pool : Minable(t, Tip + 1)} :
       /\ mined' = [t \in Tx |-> IF t \in S THEN Tip + 1 ELSE mined[t]]
       /\ pool' = {t \in pool \ S : t[1] = "commitment" => expiry[t[2]] > Tip + 1}
  /\ made' = made + 1
  /\ chain' = Append(chain, made + 1)
  /\ UNCHANGED <<budget, pending, pc, locals, verdict>>

\* The top blocks are disconnected.  Their transactions return to the mempool
\* or are forgotten.
Disconnect ==
  /\ reorgs < MaxReorgs
  /\ \E keep \in 1..(Tip - 1) :
       LET back == {t \in Tx : mined[t] > keep} IN
       /\ chain' = SubSeq(chain, 1, keep)
       /\ mined' = [t \in Tx |-> IF t \in back THEN 0 ELSE mined[t]]
       /\ \E S \in SUBSET back :
            pool' = pool \cup {t \in S : \/ t[1] = "commitment"
                                         \/ mined'[Commit(t[2])] > 0}
  /\ reorgs' = reorgs + 1
  /\ UNCHANGED <<made, losses, restarts, pending, pc, locals, verdict>>

\* A full mempool or a restart drops a transaction.
Evict ==
  /\ losses < MaxLosses
  /\ \E t \in pool : pool' = pool \ {t}
  /\ losses' = losses + 1
  /\ UNCHANGED <<chain, made, mined, reorgs, restarts, pending, pc, locals, verdict>>

Knows(t) == t \in pool \/ mined[t] > 0

\* sendrawtransaction accepts t: known, or still relayable at this height.
Relays(t) ==
  \/ Knows(t)
  \/ IF t[1] = "commitment" THEN Tip + SOON < expiry[t[2]] ELSE mined[Commit(t[2])] > 0

Accept(t) == pool' = IF mined[t] > 0 THEN pool ELSE pool \cup {t}

-----------------------------------------------------------------------------
(***************************************************************************)
(* The caller                                                              *)
(***************************************************************************)
Say(v) == /\ pc' = "idle" /\ verdict' = v
          /\ height' = 0 /\ conf' = Nothing

\* Pending::is_expired.
\* Mutant: the expiry was never recorded.
is_expired_Unrecorded(a, tip) == FALSE

\* Mutant: a node is believed to take a transaction until it has expired.
is_expired_NoMargin(a, tip) == tip \geq expiry[a]

is_expired(a, tip) == tip + SOON \geq expiry[a]

\* prepare_registration: signs the commitment against the tip it read.
Prepare ==
  /\ pc = "idle" /\ mem = Nothing
  /\ attempt < Attempts /\ Tip + EXPIRY_BLOCKS \leq MaxHeight   \* bounds
  /\ attempt' = attempt + 1
  /\ expiry' = [expiry EXCEPT ![attempt + 1] = Tip + EXPIRY_BLOCKS]
  /\ mem' = Anchor(attempt + 1, Nothing)
  /\ Say("prepared")
  /\ UNCHANGED <<node, budget, disk>>

\* The caller persists what it holds.
Save ==
  /\ pc = "idle" /\ mem # Nothing /\ disk # mem
  /\ disk' = mem
  /\ UNCHANGED <<node, budget, attempt, expiry, mem, pc, locals, verdict>>

Persisted == mem # Nothing /\ disk # Nothing /\ disk.attempt = mem.attempt

\* anchor, first read: block_count.  Refused when the commitment has expired.
AnchorHeight ==
  /\ pc = "idle" /\ Persisted /\ verdict \in {"prepared", "uncertain", "gone", "refused"}
  /\ IF is_expired(mem.attempt, Tip)
       THEN Say("expired")
       ELSE /\ pc' = "anchor" /\ height' = Tip
            /\ UNCHANGED <<conf, verdict>>
  /\ UNCHANGED <<node, budget, pending>>

\* Mutant: anchor asks for best_block_hash.
AnchorHash_Best ==
  /\ pc = "anchor"
  /\ mem' = [mem EXCEPT !.anchor = <<height, chain[Tip]>>]
  /\ pc' = "send"
  /\ UNCHANGED <<node, budget, attempt, expiry, disk, locals, verdict>>

\* anchor, second read: block_hash(height), written before anything is sent.
AnchorHash ==
  /\ pc = "anchor"
  /\ IF Tip < height
       THEN Say(verdict) /\ UNCHANGED mem
       ELSE /\ mem' = [mem EXCEPT !.anchor = <<height, chain[height]>>]
            /\ pc' = "send"
            /\ UNCHANGED <<locals, verdict>>
  /\ UNCHANGED <<node, budget, attempt, expiry, disk>>

\* Unsent::broadcast: accepted, refused, or no answer either way.
SendTold(t) ==
  \/ Relays(t) /\ Accept(t) /\ Say("sent") /\ UNCHANGED losses
  \/ ~Relays(t) /\ Say("refused") /\ UNCHANGED <<pool, losses>>
  \/ /\ losses < MaxLosses /\ losses' = losses + 1
     /\ Say("uncertain")
     /\ IF Relays(t) THEN Accept(t) \/ UNCHANGED pool ELSE UNCHANGED pool

\* Mutant: an ambiguous broadcast consumes the Pending.
SendCommitment_Consumes ==
  /\ pc = "send"
  /\ SendTold(Commit(mem.attempt))
  /\ mem' = IF verdict' = "uncertain" THEN Nothing ELSE mem
  /\ UNCHANGED <<chain, made, mined, reorgs, restarts, attempt, expiry, disk>>

SendCommitment ==
  /\ pc = "send"
  /\ SendTold(Commit(mem.attempt))
  /\ UNCHANGED <<chain, made, mined, reorgs, restarts, pending>>

\* poll, first read: confirmations(commitment_txid).
PollConfirmations ==
  LET t == Commit(mem.attempt) IN
  /\ pc = "idle" /\ mem # Nothing
  /\ verdict \in {"sent", "uncertain", "waiting", "reorged", "reloaded"}
  /\ conf' = IF mined[t] > 0 THEN Tip - mined[t] + 1 ELSE IF t \in pool THEN 0 ELSE Nothing
  /\ pc' = "poll"
  /\ UNCHANGED <<node, budget, pending, height, verdict>>

IsMined == conf # Nothing /\ conf # 0

\* What remains once no reorg was seen.
Settle ==
  IF conf = 0 THEN Say("waiting")
  ELSE pc' = "locate" /\ UNCHANGED <<locals, verdict>>

\* poll, second read: block_count, when the commitment is anchored or unmined.
PollTip ==
  /\ pc = "poll"
  /\ IF mem.anchor = Nothing /\ IsMined THEN Settle
     ELSE IF ~IsMined /\ is_expired(mem.attempt, Tip) THEN Say("expired")
     ELSE IF conf = Nothing THEN Say("gone")
     ELSE IF mem.anchor = Nothing THEN Settle
     ELSE IF Tip < mem.anchor[1] THEN Say("reorged")
     ELSE pc' = "compare" /\ height' = Tip /\ UNCHANGED <<conf, verdict>>
  /\ UNCHANGED <<node, budget, pending>>

\* poll, third read: block_hash at the anchored height.
PollHash ==
  /\ pc = "compare"
  /\ IF Tip < mem.anchor[1] THEN Say(verdict)
     ELSE IF chain[mem.anchor[1]] # mem.anchor[2] THEN Say("reorged")
     ELSE Settle
  /\ UNCHANGED <<node, budget, pending>>

\* poll, fourth read: the commitment transaction itself.
Locate ==
  /\ pc = "locate"
  /\ IF Knows(Commit(mem.attempt)) THEN Say("ready") ELSE Say("waiting")
  /\ UNCHANGED <<node, budget, pending>>

\* complete: the registration is built and broadcast.  The caller polls
\* again when it is refused, and keeps what it holds whatever happens.
Complete ==
  /\ pc = "idle" /\ mem # Nothing /\ verdict = "ready"
  /\ LET t == Register(mem.attempt) IN
     \/ /\ Relays(t) /\ Accept(t)
        /\ Say("registered") /\ UNCHANGED losses
     \/ ~Relays(t) /\ Say("waiting") /\ UNCHANGED <<pool, losses>>
     \/ /\ losses < MaxLosses /\ losses' = losses + 1
        /\ Say("waiting")
        /\ IF Relays(t) THEN Accept(t) \/ UNCHANGED pool ELSE UNCHANGED pool
  /\ UNCHANGED <<chain, made, mined, reorgs, restarts, pending>>

\* Expired: the reservation is deleted and the name claimed again.
StartOver ==
  /\ pc = "idle" /\ mem # Nothing /\ verdict = "expired" /\ attempt < Attempts
  /\ mem' = Nothing /\ disk' = Nothing
  /\ UNCHANGED <<node, budget, attempt, expiry, pc, locals, verdict>>

\* A read fails; poll and anchor only borrow, so nothing is lost.
ReadFails ==
  /\ pc \in {"anchor", "poll", "compare", "locate"} /\ losses < MaxLosses
  /\ losses' = losses + 1
  /\ Say(verdict)
  /\ UNCHANGED <<node, reorgs, restarts, pending>>

\* The process stops and reloads what was persisted.
Restart ==
  /\ restarts < MaxRestarts /\ disk # Nothing
  /\ restarts' = restarts + 1
  /\ mem' = disk
  /\ Say("reloaded")
  /\ UNCHANGED <<node, reorgs, losses, attempt, expiry, disk>>

-----------------------------------------------------------------------------
Init ==
  /\ chain = <<1>> /\ made = 1 /\ pool = {} /\ mined = [t \in Tx |-> 0]
  /\ reorgs = 0 /\ losses = 0 /\ restarts = 0
  /\ attempt = 0 /\ expiry = [a \in 1..Attempts |-> 0]
  /\ mem = Nothing /\ disk = Nothing
  /\ pc = "idle" /\ height = 0 /\ conf = Nothing /\ verdict = "none"

Caller ==
  \/ Prepare \/ Save
  \/ AnchorHeight \/ AnchorHash \/ SendCommitment
  \/ PollConfirmations \/ PollTip \/ PollHash \/ Locate
  \/ Complete \/ StartOver

Next == Mine \/ Disconnect \/ Evict \/ Caller \/ ReadFails \/ Restart

Spec == Init /\ [][Next]_vars

\* Blocks keep coming and the caller keeps polling.  No miner is obliged to
\* include the commitment.
FairSpec == Spec /\ WF_vars(Mine) /\ WF_vars(Caller)

-----------------------------------------------------------------------------
(***************************************************************************)
(* Properties                                                              *)
(***************************************************************************)
PendingType ==
  {Nothing} \cup [attempt : 1..Attempts, anchor : {Nothing} \cup (Nat \X Nat)]

\* Every variable holds a value the code's types allow.
TypeOK ==
  /\ chain \in Seq(Nat) /\ made \in Nat /\ pool \subseteq Tx /\ mined \in [Tx -> Nat]
  /\ reorgs \in Nat /\ losses \in Nat /\ restarts \in Nat
  /\ attempt \in 0..Attempts /\ expiry \in [1..Attempts -> Nat]
  /\ mem \in PendingType /\ disk \in PendingType
  /\ pc \in {"idle", "anchor", "send", "poll", "compare", "locate"}
  /\ height \in Nat /\ conf \in Nat \cup {Nothing}
  /\ verdict \in {"none", "prepared", "sent", "refused", "uncertain", "waiting", "gone",
                  "reorged", "expired", "ready", "registered", "reloaded"}

\* The salt of a commitment that may be on the network is held in memory: no
\* failed, ambiguous or repeated call destroys it, and what a restart
\* reloads is the same reservation.  Only a caller told "expired" drops one.
SaltIsNeverLost ==
  \A a \in 1..attempt :
     Knows(Commit(a)) => (mem # Nothing /\ mem.attempt = a) \/ a < attempt \/ verdict = "expired"

\* A poll that reports a reorg tells the truth: the block the commitment was
\* anchored to is not on the chain, although height and hash were read by
\* separate calls and the tip moved in between.
NoFalseReorg ==
  verdict = "reorged" /\ mem # Nothing /\ mem.anchor # Nothing =>
    \A h \in DOMAIN chain : chain[h] # mem.anchor[2]

\* Bytes anchor handed back are refused as expiring only because blocks came
\* between the check and the broadcast, never because anchor let through a
\* commitment no node would take.
NeverSendsDoomedBytes ==
  [][pc = "send" /\ pc' = "idle" /\ verdict' = "refused" => Tip > mem.anchor[1]]_vars

\* Unless a reorg comes, every registration that was started settles: it is on
\* the network, or the caller is told that its commitment expired, however
\* often the commitment is evicted, answers are lost or the wallet restarts.
Settles == [](reorgs = 0) => (attempt > 0 ~> verdict \in {"registered", "expired"})

\* "Reorged: not necessarily fatal - the commitment may still be in the new
\* chain.  Poll again once the chain settles."  A caller who polls again is not
\* told of a reorg forever while its commitment stays confirmed.
PollingAgainSettles ==
  []<>(verdict # "reorged" \/ mined[Commit(1)] = 0)
=============================================================================
